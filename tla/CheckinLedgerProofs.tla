-------------------------- MODULE CheckinLedgerProofs --------------------------
(***************************************************************************)
(* The promises of the check-in ledger, for any number of operations,      *)
(* terminals, groups and slots, and batches of any content in any order.   *)
(*                                                                         *)
(* The invariant IInv adds to the properties of CheckinLedger what makes   *)
(* them inductive: where a claim may be (ClaimsHaveUses) and what a        *)
(* conflict row implies about the journal row it belongs to.               *)
(*                                                                         *)
(* First, what the ranking of CheckinDomain is: the positions of n claims  *)
(* are the numbers 0 .. n-1, each taken by one claim, so the slots of a    *)
(* group are filled from the first one and a claim that comes in can only  *)
(* push others back.                                                       *)
(***************************************************************************)
EXTENDS CheckinLedger, FiniteSetTheorems, TLAPS

-----------------------------------------------------------------------------
(* The ranking. *)

\* The claims of one group, as fetch_claims returns them: one per operation.
IsClaims(claims) ==
  /\ IsFiniteSet(claims)
  /\ \A c \in claims : c.op \in Nat /\ c.at \in Int /\ c.suspect \in BOOLEAN
  /\ \A c, d \in claims : c.op = d.op => c = d

\* sort_key orders the claims of a group strictly and totally.
LEMMA BeforeIsStrictOrder ==
  ASSUME NEW claims, IsClaims(claims), NEW c \in claims, NEW d \in claims, NEW e \in claims
  PROVE  /\ ~Before(c, c)
         /\ Before(c, d) => ~Before(d, c)
         /\ Before(c, d) /\ Before(d, e) => Before(c, e)
         /\ c # d => Before(c, d) \/ Before(d, c)
<1>1. /\ c.op \in Nat /\ c.at \in Int /\ c.suspect \in BOOLEAN
      /\ d.op \in Nat /\ d.at \in Int /\ d.suspect \in BOOLEAN
      /\ e.op \in Nat /\ e.at \in Int /\ e.suspect \in BOOLEAN
      /\ c # d => c.op # d.op
  BY DEF IsClaims
<1> QED
  BY <1>1 DEF Before

\* A position is smaller than the number of claims.
LEMMA RankRange ==
  ASSUME NEW claims, IsClaims(claims), NEW c \in claims
  PROVE  Rank(c, claims) \in 0 .. (Cardinality(claims) - 1)
<1> DEFINE ahead == {d \in claims : Before(d, c)}
<1>1. IsFiniteSet(claims) /\ Cardinality(claims) \in Nat
  BY FS_CardinalityType DEF IsClaims
<1>2. c \notin ahead
  BY BeforeIsStrictOrder
<1>3. /\ IsFiniteSet(claims \ {c})
      /\ Cardinality(claims \ {c}) = Cardinality(claims) - 1
  BY <1>1, FS_RemoveElement
<1>4. IsFiniteSet(ahead) /\ Cardinality(ahead) <= Cardinality(claims \ {c})
  <2>1. ahead \in SUBSET (claims \ {c})
    BY <1>2
  <2> QED
    BY <1>3, <2>1, FS_Subset
<1>5. Cardinality(ahead) \in Nat
  BY <1>4, FS_CardinalityType
<1> QED
  BY <1>1, <1>3, <1>4, <1>5 DEF Rank

\* Who comes first has the smaller position.
LEMMA RankIncreases ==
  ASSUME NEW claims, IsClaims(claims), NEW c \in claims, NEW d \in claims, Before(c, d)
  PROVE  Rank(c, claims) < Rank(d, claims)
<1> DEFINE ahead(e) == {f \in claims : Before(f, e)}
<1>1. IsFiniteSet(ahead(c)) /\ IsFiniteSet(ahead(d))
  BY FS_Subset DEF IsClaims
<1>2. ahead(c) \subseteq ahead(d)
  BY BeforeIsStrictOrder
<1>3. c \in ahead(d) /\ c \notin ahead(c)
  BY BeforeIsStrictOrder
<1>4. Cardinality(ahead(c)) <= Cardinality(ahead(d)) /\ Cardinality(ahead(c)) # Cardinality(ahead(d))
  BY <1>1, <1>2, <1>3, FS_Subset
<1>5. Cardinality(ahead(c)) \in Nat /\ Cardinality(ahead(d)) \in Nat
  BY <1>1, FS_CardinalityType
<1>6. Rank(c, claims) = Cardinality(ahead(c)) /\ Rank(d, claims) = Cardinality(ahead(d))
  BY DEF Rank
<1> QED
  BY <1>4, <1>5, <1>6

\* Two claims never share a position, and positions compare as the claims do.
LEMMA RankIsInjective ==
  ASSUME NEW claims, IsClaims(claims), NEW c \in claims, NEW d \in claims
  PROVE  /\ Rank(c, claims) = Rank(d, claims) => c = d
         /\ Rank(c, claims) < Rank(d, claims) => Before(c, d)
<1>1. Rank(c, claims) \in Int /\ Rank(d, claims) \in Int
  BY RankRange
<1>2. c = d \/ Before(c, d) \/ Before(d, c)
  BY BeforeIsStrictOrder
<1> QED
  BY <1>1, <1>2, RankIncreases

\* Every position below the number of claims is taken: the ranking has no hole.
LEMMA RankIsOnto ==
  ASSUME NEW claims, IsClaims(claims), NEW i \in 0 .. (Cardinality(claims) - 1)
  PROVE  \E c \in claims : Rank(c, claims) = i
<1> DEFINE positions == 0 .. (Cardinality(claims) - 1)
           rank == [c \in claims |-> Rank(c, claims)]
<1>1. Cardinality(claims) \in Nat
  BY FS_CardinalityType DEF IsClaims
<1>2. IsFiniteSet(positions) /\ Cardinality(positions) = Cardinality(claims)
  BY <1>1, FS_Interval
<1>3. rank \in Injection(claims, positions)
  BY RankRange, RankIsInjective DEF Injection, IsInjective
<1>4. rank \in Surjection(claims, positions)
  BY <1>2, <1>3, FS_Injection
<1> QED
  BY <1>4 DEF Surjection

\* Slot i has a holder exactly when the rule allows it and there are more than i claims.
LEMMA SlotsAreFilledInOrder ==
  ASSUME NEW claims, IsClaims(claims), NEW uses \in Nat, NEW i \in Nat
  PROVE  HolderAt(claims, uses, i) = NoOp <=> i >= uses \/ i >= Cardinality(claims)
<1> DEFINE at == {c \in Assigned(claims, uses) : Rank(c, claims) = i}
<1>1. Cardinality(claims) \in Nat
  BY FS_CardinalityType DEF IsClaims
<1>2. at = {} <=> i >= uses \/ i >= Cardinality(claims)
  <2>1. ASSUME i < uses, i < Cardinality(claims) PROVE at # {}
    <3>1. i \in 0 .. (Cardinality(claims) - 1)
      BY <1>1, <2>1
    <3> QED
      BY <2>1, <3>1, RankIsOnto DEF Assigned
  <2>2. ASSUME NEW c \in at PROVE i < uses /\ i < Cardinality(claims)
    <3>1. c \in claims /\ Rank(c, claims) = i /\ Rank(c, claims) < uses
      BY DEF Assigned
    <3> QED
      BY <1>1, <3>1, RankRange
  <2> QED
    BY <1>1, <2>1, <2>2
<1>3. at # {} => (CHOOSE c \in at : TRUE).op \in Nat
  BY DEF Assigned, IsClaims
<1> QED
  BY <1>2, <1>3, DomainAssumption DEF HolderAt

\* The holder of a slot is an assigned claim of that position.
LEMMA HolderIsAssigned ==
  ASSUME NEW claims, IsClaims(claims), NEW uses \in Nat, NEW i \in Nat,
         HolderAt(claims, uses, i) # NoOp
  PROVE  \E c \in Assigned(claims, uses) :
           Rank(c, claims) = i /\ HolderAt(claims, uses, i) = c.op
BY DEF HolderAt

\* Every assigned claim holds the slot of its position.
LEMMA AssignedHolds ==
  ASSUME NEW claims, IsClaims(claims), NEW uses \in Nat, NEW c \in Assigned(claims, uses)
  PROVE  /\ Rank(c, claims) \in 0 .. (uses - 1)
         /\ HolderAt(claims, uses, Rank(c, claims)) = c.op
<1> DEFINE at == {d \in Assigned(claims, uses) : Rank(d, claims) = Rank(c, claims)}
<1>1. c \in claims /\ Rank(c, claims) < uses /\ Rank(c, claims) \in Nat
  BY RankRange DEF Assigned
<1>2. at = {c}
  BY <1>1, RankIsInjective DEF Assigned
<1> QED
  BY <1>1, <1>2 DEF HolderAt

\* Where a rule allows a use, somebody who claims gets it.
LEMMA SomebodyIsAssigned ==
  ASSUME NEW claims, IsClaims(claims), NEW c \in claims, NEW uses \in Nat, uses > 0
  PROVE  Assigned(claims, uses) # {}
<1>1. Cardinality(claims) \in Nat
  BY FS_CardinalityType DEF IsClaims
<1>2. 0 \in 0 .. (Cardinality(claims) - 1)
  BY <1>1, RankRange
<1>3. PICK d \in claims : Rank(d, claims) = 0
  BY <1>2, RankIsOnto
<1> QED
  BY <1>3 DEF Assigned

\* Whoever the losers are told they lost to holds a slot.
LEMMA ReferenceIsAssigned ==
  ASSUME NEW claims, IsClaims(claims), NEW uses \in Nat, Assigned(claims, uses) # {}
  PROVE  Reference(claims, uses) \in Assigned(claims, uses)
<1> DEFINE n == Cardinality(claims)
           last == IF uses < n THEN uses - 1 ELSE n - 1
<1>1. n \in Nat
  BY FS_CardinalityType DEF IsClaims
<1>2. PICK a \in Assigned(claims, uses) : TRUE
  OBVIOUS
<1>3. last \in 0 .. (n - 1) /\ last < uses
  <2>1. Rank(a, claims) \in 0 .. (n - 1) /\ Rank(a, claims) < uses
    BY <1>2, RankRange DEF Assigned
  <2> QED
    BY <1>1, <2>1
<1>4. PICK c \in claims : Rank(c, claims) = last
  BY <1>3, RankIsOnto
<1>5. c \in Assigned(claims, uses)
  BY <1>3, <1>4 DEF Assigned
<1>6. ASSUME NEW d \in Assigned(claims, uses) PROVE d = c \/ Before(d, c)
  <2>1. d \in claims /\ Rank(d, claims) \in 0 .. (n - 1) /\ Rank(d, claims) < uses
    BY RankRange DEF Assigned
  <2>2. Rank(d, claims) <= Rank(c, claims)
    BY <1>1, <1>4, <2>1
  <2> QED
    BY <1>3, <1>4, <2>1, <2>2, RankIsInjective
<1> QED
  BY <1>5, <1>6 DEF Reference

\* Claims that come in never give a lost slot back: losers stay losers.
LEMMA LosersAreMonotone ==
  ASSUME NEW claims, IsClaims(claims), NEW more, IsClaims(more), claims \subseteq more,
         NEW uses \in Nat
  PROVE  Losers(claims, uses) \subseteq Losers(more, uses)
<1> SUFFICES ASSUME NEW c \in Losers(claims, uses) PROVE c \in Losers(more, uses)
  OBVIOUS
<1>1. c \in claims /\ c \in more /\ ~(Rank(c, claims) < uses)
  BY DEF Losers, Assigned
<1>2. Rank(c, claims) <= Rank(c, more)
  <2>1. {d \in claims : Before(d, c)} \subseteq {d \in more : Before(d, c)}
    OBVIOUS
  <2>2. IsFiniteSet({d \in more : Before(d, c)})
    BY FS_Subset DEF IsClaims
  <2> QED
    BY <2>1, <2>2, FS_Subset DEF Rank
<1>3. Rank(c, claims) \in Int /\ Rank(c, more) \in Int
  BY <1>1, RankRange
<1> QED
  BY <1>1, <1>2, <1>3 DEF Losers, Assigned

-----------------------------------------------------------------------------
(* The ledger. *)

ClaimsHaveUses ==
  \A o \in Operations :
    logs[o] # NoLog /\ logs[o].kind = "claim" => MaxUses[logs[o].group] > 0

\* The conflict of a refused row says why it was refused, for good.
RefusedAreReported ==
  \A o \in Operations :
    logs[o] # NoLog /\ logs[o].kind = "refused" =>
      conflicts[o] = [winner |-> NoOp, type |-> logs[o].verdict, clock |-> logs[o].suspect]

ConflictsAreJustified ==
  \A o \in Operations :
    conflicts[o] # NoConflict =>
      /\ logs[o] # NoLog
      /\ logs[o].kind \in {"claim", "refused"}
      /\ logs[o].kind = "claim" /\ conflicts[o].type # "CLOCK_SUSPECT" =>
           ClaimOf(logs, o) \in Losers(ClaimsOf(logs, logs[o].group), MaxUses[logs[o].group])

AcknowledgedAreConflicts == \A o \in acknowledged : conflicts[o] # NoConflict

IInv ==
  /\ TypeOK
  /\ ClaimsHaveUses
  /\ ConsumptionsFollowRanking
  /\ LosersAreReported
  /\ RefusedAreReported
  /\ ConflictsAreJustified
  /\ AcknowledgedAreConflicts

Journals == [Operations -> Entry \cup {NoLog}]

-----------------------------------------------------------------------------
\* fetch_claims returns one claim per journaled operation of the group.
LEMMA ClaimsOfJournal ==
  ASSUME NEW journal \in Journals, NEW g \in Groups
  PROVE  /\ IsClaims(ClaimsOf(journal, g))
         /\ \A c \in ClaimsOf(journal, g) :
              c.op \in Operations /\ IsClaim(journal, c.op, g) /\ c = ClaimOf(journal, c.op)
         /\ \A o \in Operations : IsClaim(journal, o, g) <=> ClaimOf(journal, o) \in ClaimsOf(journal, g)
<1> DEFINE ops == {p \in Operations : IsClaim(journal, p, g)}
           claim == [o \in ops |-> ClaimOf(journal, o)]
<1>1. \A o \in Operations : ClaimOf(journal, o).op = o
  BY DEF ClaimOf
<1>2. \A c \in ClaimsOf(journal, g) :
        c.op \in Operations /\ IsClaim(journal, c.op, g) /\ c = ClaimOf(journal, c.op)
  BY <1>1 DEF ClaimsOf
<1>3. IsFiniteSet(ClaimsOf(journal, g))
  <2>1. IsFiniteSet(ops)
    BY LedgerAssumption, FS_Subset
  <2>2. claim \in Surjection(ops, ClaimsOf(journal, g))
    BY DEF Surjection, ClaimsOf
  <2> QED
    BY <2>1, <2>2, FS_Surjection
<1>4. ASSUME NEW c \in ClaimsOf(journal, g)
      PROVE  c.op \in Nat /\ c.at \in Int /\ c.suspect \in BOOLEAN
  <2>1. journal[c.op] \in Entry
    BY <1>2 DEF IsClaim, Journals
  <2>2. journal[c.op].at \in Int /\ journal[c.op].suspect \in BOOLEAN
    BY <2>1, LedgerAssumption DEF Entry
  <2> QED
    BY <1>2, <2>2, LedgerAssumption DEF ClaimOf
<1>5. \A c, d \in ClaimsOf(journal, g) : c.op = d.op => c = d
  BY <1>2
<1>6. \A o \in Operations : IsClaim(journal, o, g) <=> ClaimOf(journal, o) \in ClaimsOf(journal, g)
  BY <1>1, <1>2 DEF ClaimsOf
<1> QED
  BY <1>2, <1>3, <1>4, <1>5, <1>6 DEF IsClaims

\* A batch adds claims and takes none away; a group it does not touch keeps its claims.
LEMMA ClaimsGrow ==
  ASSUME TypeOK, NEW N \in SUBSET Operations, NEW new \in [N -> Entry],
         \A o \in N : logs[o] = NoLog
  PROVE  /\ Journal(new) \in Journals
         /\ \A g \in Groups : ClaimsOf(logs, g) \subseteq ClaimsOf(Journal(new), g)
         /\ \A g \in Groups : g \notin Touched(new) => ClaimsOf(logs, g) = ClaimsOf(Journal(new), g)
<1>1. Journal(new) \in Journals
  BY DEF Journal, Journals, TypeOK
<1>2. \A o \in Operations : logs[o] # NoLog => Journal(new)[o] = logs[o]
  BY DEF Journal
<1>3. \A o \in Operations, g \in Groups :
        IsClaim(logs, o, g) => /\ IsClaim(Journal(new), o, g)
                               /\ ClaimOf(Journal(new), o) = ClaimOf(logs, o)
  BY <1>2 DEF IsClaim, ClaimOf
<1>4. \A o \in Operations, g \in Groups :
        g \notin Touched(new) /\ IsClaim(Journal(new), o, g) => IsClaim(logs, o, g)
  BY DEF IsClaim, Journal, Touched
<1> QED
  BY <1>1, <1>3, <1>4 DEF ClaimsOf

\* The conflict row of a disputed claim names its winner; only a loser's says that it lost.
LEMMA ConflictSpecOfClaim ==
  ASSUME NEW journal \in Journals, NEW g \in Groups,
         NEW c \in Disputed(ClaimsOf(journal, g), MaxUses[g])
  PROVE  LET spec == ConflictSpec(c, ClaimsOf(journal, g), MaxUses[g])
         IN  /\ spec \in Conflict
             /\ c \in Losers(ClaimsOf(journal, g), MaxUses[g]) <=> spec.type # "CLOCK_SUSPECT"
<1> DEFINE claims == ClaimsOf(journal, g)
           uses == MaxUses[g]
           winner == Reference(claims, uses)
<1>1. IsClaims(claims) /\ uses \in Nat
  BY ClaimsOfJournal, LedgerAssumption
<1>2. Assigned(claims, uses) # {}
  BY DEF Disputed
<1>3. winner \in claims
  BY <1>1, <1>2, ReferenceIsAssigned DEF Assigned
<1>4. c \in claims
  BY DEF Disputed, Losers
<1>5. winner.op \in Operations /\ winner.suspect \in BOOLEAN /\ c.suspect \in BOOLEAN
  BY <1>1, <1>3, <1>4, ClaimsOfJournal DEF IsClaims
<1>6. ClassifyLoser(c, winner) \in {"SAME_TERMINAL_REPLAY", "CROSS_TERMINAL_DOUBLE_ADMISSION"}
  BY DEF ClassifyLoser
<1>7. CASE c \in Losers(claims, uses)
  BY <1>5, <1>6, <1>7 DEF ConflictSpec, Conflict
<1>8. CASE c \notin Losers(claims, uses)
  BY <1>8 DEF ConflictSpec, Conflict
<1> QED
  BY <1>7, <1>8
-----------------------------------------------------------------------------
(* What the state says of each operation, from the invariant.              *)

\* The operations that hold a slot are the claims that the ranking assigns one.
HoldersAreAssigned ==
  \A o \in Operations :
    HoldsSlot(o) <=>
      /\ logs[o] # NoLog /\ logs[o].kind = "claim"
      /\ ClaimOf(logs, o) \in Assigned(ClaimsOf(logs, logs[o].group), MaxUses[logs[o].group])

\* The operations that lost or were refused are those without a slot that admitted somebody.
LostAreLosers ==
  \A o \in Operations :
    LostOrRefused(o) <=>
      /\ logs[o] # NoLog
      /\ \/ logs[o].kind = "refused"
         \/ /\ logs[o].kind = "claim"
            /\ ClaimOf(logs, o) \in Losers(ClaimsOf(logs, logs[o].group), MaxUses[logs[o].group])

LEMMA HoldersOfSlots == IInv => HoldersAreAssigned
<1> SUFFICES ASSUME IInv, NEW o \in Operations
             PROVE  HoldsSlot(o) <=>
                      /\ logs[o] # NoLog /\ logs[o].kind = "claim"
                      /\ ClaimOf(logs, o) \in
                           Assigned(ClaimsOf(logs, logs[o].group), MaxUses[logs[o].group])
  BY DEF HoldersAreAssigned
<1>1. logs \in Journals
  BY DEF IInv, TypeOK, Journals
<1>2. ASSUME HoldsSlot(o)
      PROVE  /\ logs[o] # NoLog /\ logs[o].kind = "claim"
             /\ ClaimOf(logs, o) \in
                  Assigned(ClaimsOf(logs, logs[o].group), MaxUses[logs[o].group])
  <2>1. PICK g \in Groups, i \in Slots : consumptions[g][i] = o
    BY <1>2 DEF HoldsSlot
  <2>2. IsClaims(ClaimsOf(logs, g)) /\ MaxUses[g] \in Nat /\ i \in Nat
    BY <1>1, ClaimsOfJournal, LedgerAssumption
  <2>3. HolderAt(ClaimsOf(logs, g), MaxUses[g], i) = o
    BY <2>1 DEF IInv, ConsumptionsFollowRanking
  <2>4. o # NoOp
    BY LedgerAssumption, DomainAssumption
  <2>5. PICK c \in Assigned(ClaimsOf(logs, g), MaxUses[g]) : c.op = o
    BY <2>2, <2>3, <2>4, HolderIsAssigned
  <2>6. IsClaim(logs, o, g) /\ c = ClaimOf(logs, o)
    BY <1>1, <2>5, ClaimsOfJournal DEF Assigned
  <2> QED
    BY <2>5, <2>6 DEF IsClaim
<1>3. ASSUME logs[o] # NoLog, logs[o].kind = "claim",
             ClaimOf(logs, o) \in Assigned(ClaimsOf(logs, logs[o].group), MaxUses[logs[o].group])
      PROVE  HoldsSlot(o)
  <2> DEFINE g == logs[o].group
             claims == ClaimsOf(logs, g)
             i == Rank(ClaimOf(logs, o), claims)
  <2>1. g \in Groups
    BY <1>1, <1>3 DEF Journals, Entry
  <2>2. IsClaims(claims) /\ MaxUses[g] \in Nat
    BY <1>1, <2>1, ClaimsOfJournal, LedgerAssumption
  <2>3. i \in 0 .. (MaxUses[g] - 1) /\ HolderAt(claims, MaxUses[g], i) = ClaimOf(logs, o).op
    BY <1>3, <2>2, AssignedHolds
  <2>4. i \in Slots
    BY <2>1, <2>3, LedgerAssumption
  <2>5. consumptions[g][i] = o
    BY <2>1, <2>3, <2>4 DEF IInv, ConsumptionsFollowRanking, ClaimOf
  <2> QED
    BY <2>1, <2>4, <2>5 DEF HoldsSlot
<1> QED
  BY <1>2, <1>3

LEMMA LostOperations == IInv => LostAreLosers
<1> SUFFICES ASSUME IInv, NEW o \in Operations
             PROVE  LostOrRefused(o) <=>
                      /\ logs[o] # NoLog
                      /\ \/ logs[o].kind = "refused"
                         \/ /\ logs[o].kind = "claim"
                            /\ ClaimOf(logs, o) \in
                                 Losers(ClaimsOf(logs, logs[o].group), MaxUses[logs[o].group])
  BY DEF LostAreLosers
<1> DEFINE g == logs[o].group
<1>1. logs \in Journals
  BY DEF IInv, TypeOK, Journals
<1>2. ASSUME LostOrRefused(o)
      PROVE  /\ logs[o] # NoLog
             /\ \/ logs[o].kind = "refused"
                \/ /\ logs[o].kind = "claim"
                   /\ ClaimOf(logs, o) \in Losers(ClaimsOf(logs, g), MaxUses[g])
  BY <1>2 DEF LostOrRefused, IInv, ConflictsAreJustified
<1>3. ASSUME logs[o] # NoLog, logs[o].kind = "refused" PROVE LostOrRefused(o)
  <2>1. conflicts[o] = [winner |-> NoOp, type |-> logs[o].verdict, clock |-> logs[o].suspect]
    BY <1>3 DEF IInv, RefusedAreReported
  <2>2. logs[o] \in Entry /\ logs[o].kind = "refused"
    BY <1>1, <1>3 DEF Journals
  <2>3. /\ logs[o].verdict \in {"LATE_REVOKED", "NOT_AUTHORIZED_SERVER_SIDE"}
        /\ logs[o].suspect \in BOOLEAN
    BY <2>2 DEF Entry
  <2>4. conflicts[o] \in Conflict /\ conflicts[o].type # "CLOCK_SUSPECT"
    BY <2>1, <2>3 DEF Conflict
  <2> QED
    BY <2>4, LedgerAssumption DEF LostOrRefused
<1>4. ASSUME logs[o] # NoLog, logs[o].kind = "claim",
             ClaimOf(logs, o) \in Losers(ClaimsOf(logs, g), MaxUses[g])
      PROVE  LostOrRefused(o)
  <2> DEFINE c == ClaimOf(logs, o)
             spec == ConflictSpec(c, ClaimsOf(logs, g), MaxUses[g])
  <2>1. g \in Groups /\ c.op = o
    BY <1>1, <1>4 DEF Journals, Entry, ClaimOf
  <2>2. conflicts[o] = spec
    BY <1>4, <2>1 DEF IInv, LosersAreReported
  <2>3. c \in Disputed(ClaimsOf(logs, g), MaxUses[g])
    <3>1. Assigned(ClaimsOf(logs, g), MaxUses[g]) # {}
      <4>1. MaxUses[g] \in Nat /\ MaxUses[g] > 0
        BY <1>4, <2>1, LedgerAssumption DEF IInv, ClaimsHaveUses
      <4>2. IsClaims(ClaimsOf(logs, g)) /\ c \in ClaimsOf(logs, g)
        BY <1>1, <1>4, <2>1, ClaimsOfJournal DEF Losers
      <4> QED
        BY <4>1, <4>2, SomebodyIsAssigned
    <3> QED
      BY <1>4, <3>1 DEF Disputed
  <2>4. spec \in Conflict /\ spec.type # "CLOCK_SUSPECT"
    BY <1>1, <1>4, <2>1, <2>3, ConflictSpecOfClaim
  <2> QED
    BY <2>2, <2>4, LedgerAssumption DEF LostOrRefused
<1> QED
  BY <1>2, <1>3, <1>4
-----------------------------------------------------------------------------
(* The invariant, conjunct by conjunct. *)

\* An empty ledger satisfies the invariant: no slot is filled, nothing is reported.
LEMMA InitIInv == Init => IInv
<1> SUFFICES ASSUME Init PROVE IInv
  OBVIOUS
<1>1. TypeOK
  BY DEF Init, TypeOK
<1>2. ASSUME NEW g \in Groups PROVE ClaimsOf(logs, g) = {}
  BY DEF Init, ClaimsOf, IsClaim
<1>3. ConsumptionsFollowRanking
  <2> SUFFICES ASSUME NEW g \in Groups, NEW i \in Slots
               PROVE  consumptions[g][i] = HolderAt(ClaimsOf(logs, g), MaxUses[g], i)
    BY DEF ConsumptionsFollowRanking
  <2>1. HolderAt({}, MaxUses[g], i) = NoOp
    BY DEF HolderAt, Assigned
  <2> QED
    BY <1>2, <2>1 DEF Init
<1>4. LosersAreReported
  BY <1>2 DEF LosersAreReported, Losers
<1>5. ClaimsHaveUses /\ RefusedAreReported /\ ConflictsAreJustified /\ AcknowledgedAreConflicts
  BY DEF Init, ClaimsHaveUses, RefusedAreReported, ConflictsAreJustified, AcknowledgedAreConflicts
<1> QED
  BY <1>1, <1>3, <1>4, <1>5 DEF IInv

\* A batch leaves well-typed tables.
LEMMA RecordTypeOK ==
  ASSUME IInv, NEW N \in SUBSET Operations, NEW new \in [N -> Entry], Record(new)
  PROVE  TypeOK'
<1> DEFINE J == Journal(new)
<1>1. TypeOK /\ \A o \in N : logs[o] = NoLog
  BY DEF IInv, Record
<1>2. J \in Journals /\ logs' = J
  BY <1>1, ClaimsGrow DEF Record
<1>3. consumptions' \in [Groups -> [Slots -> Operations \cup {NoOp}]]
  <2>1. ASSUME NEW g \in Groups, NEW i \in Slots
        PROVE  HolderAt(ClaimsOf(J, g), MaxUses[g], i) \in Operations \cup {NoOp}
    <3>1. IsClaims(ClaimsOf(J, g)) /\ MaxUses[g] \in Nat /\ i \in Nat
      BY <1>2, ClaimsOfJournal, LedgerAssumption
    <3>2. \A c \in Assigned(ClaimsOf(J, g), MaxUses[g]) : c.op \in Operations
      BY <1>2, ClaimsOfJournal DEF Assigned
    <3> QED
      BY <3>1, <3>2, HolderIsAssigned
  <2> QED
    BY <1>1, <2>1 DEF Record, UpsertConsumptions, TypeOK
<1>4. conflicts' \in [Operations -> Conflict \cup {NoConflict}]
  <2> SUFFICES ASSUME NEW o \in Operations PROVE conflicts'[o] \in Conflict \cup {NoConflict}
    BY DEF Record, UpsertConflicts
  <2>1. conflicts[o] \in Conflict \cup {NoConflict}
    BY <1>1 DEF TypeOK
  <2> DEFINE g == J[o].group
             c == ClaimOf(J, o)
             disputed == /\ J[o] # NoLog /\ g \in Touched(new) /\ IsClaim(J, o, g)
                         /\ c \in Disputed(ClaimsOf(J, g), MaxUses[g])
  <2>2. CASE disputed
    <3>1. g \in Groups
      BY <2>2 DEF Touched
    <3>2. ConflictSpec(c, ClaimsOf(J, g), MaxUses[g]) \in Conflict
      BY <1>2, <2>2, <3>1, ConflictSpecOfClaim
    <3> QED
      BY <2>2, <3>2 DEF Record, UpsertConflicts
  <2>3. CASE ~disputed /\ o \in N /\ new[o].kind = "refused"
    <3>1. [winner |-> NoOp, type |-> new[o].verdict, clock |-> new[o].suspect] \in Conflict
      BY <2>3 DEF Entry, Conflict
    <3> QED
      BY <2>3, <3>1 DEF Record, UpsertConflicts
  <2>4. CASE ~disputed /\ ~(o \in N /\ new[o].kind = "refused")
    BY <2>1, <2>4 DEF Record, UpsertConflicts
  <2> QED
    BY <2>2, <2>3, <2>4
<1> QED
  BY <1>1, <1>2, <1>3, <1>4 DEF TypeOK, Record, Journals

\* A batch leaves every slot with the claim that the whole journal ranks there: a slot
\* that the new ranking leaves empty was empty before.
LEMMA RecordFollowsRanking ==
  ASSUME IInv, NEW N \in SUBSET Operations, NEW new \in [N -> Entry], Record(new)
  PROVE  ConsumptionsFollowRanking'
<1> DEFINE J == Journal(new)
<1> SUFFICES ASSUME NEW g \in Groups, NEW i \in Slots
             PROVE  consumptions'[g][i] = HolderAt(ClaimsOf(J, g), MaxUses[g], i)
  BY DEF ConsumptionsFollowRanking, Record
<1> DEFINE before == ClaimsOf(logs, g)
           after == ClaimsOf(J, g)
<1>1. TypeOK /\ \A o \in N : logs[o] = NoLog
  BY DEF IInv, Record
<1>2. logs \in Journals /\ J \in Journals
  BY <1>1, ClaimsGrow DEF TypeOK, Journals
<1>3. IsClaims(before) /\ IsClaims(after) /\ MaxUses[g] \in Nat /\ i \in Nat
  BY <1>2, ClaimsOfJournal, LedgerAssumption
<1>4. consumptions[g][i] = HolderAt(before, MaxUses[g], i)
  BY DEF IInv, ConsumptionsFollowRanking
<1>5. consumptions'[g][i] = IF g \in Touched(new) /\ HolderAt(after, MaxUses[g], i) # NoOp
                            THEN HolderAt(after, MaxUses[g], i) ELSE consumptions[g][i]
  BY DEF Record, UpsertConsumptions
<1>6. CASE g \notin Touched(new)
  <2>1. before = after
    BY <1>1, <1>6, ClaimsGrow
  <2> QED
    BY <1>4, <1>5, <1>6, <2>1
<1>7. CASE g \in Touched(new) /\ HolderAt(after, MaxUses[g], i) = NoOp
  <2>1. i >= MaxUses[g] \/ i >= Cardinality(after)
    BY <1>3, <1>7, SlotsAreFilledInOrder
  <2>2. /\ Cardinality(before) <= Cardinality(after)
        /\ Cardinality(before) \in Nat /\ Cardinality(after) \in Nat
    <3>1. before \in SUBSET after
      BY <1>1, ClaimsGrow
    <3> QED
      BY <1>3, <3>1, FS_Subset, FS_CardinalityType DEF IsClaims
  <2>3. i >= MaxUses[g] \/ i >= Cardinality(before)
    BY <1>3, <2>1, <2>2
  <2>4. HolderAt(before, MaxUses[g], i) = NoOp
    BY <1>3, <2>3, SlotsAreFilledInOrder
  <2> QED
    BY <1>4, <1>5, <1>7, <2>4
<1>8. CASE g \in Touched(new) /\ HolderAt(after, MaxUses[g], i) # NoOp
  BY <1>5, <1>8
<1> QED
  BY <1>6, <1>7, <1>8

\* What a batch does to the conflict row of one operation.
LEMMA RecordConflict ==
  ASSUME NEW N \in SUBSET Operations, NEW new \in [N -> Entry], Record(new),
         NEW o \in Operations
  PROVE  LET J == Journal(new)
             g == J[o].group
             c == ClaimOf(J, o)
             disputed == /\ J[o] # NoLog /\ g \in Touched(new) /\ IsClaim(J, o, g)
                         /\ c \in Disputed(ClaimsOf(J, g), MaxUses[g])
         IN  /\ disputed => conflicts'[o] = ConflictSpec(c, ClaimsOf(J, g), MaxUses[g])
             /\ ~disputed /\ o \in N /\ new[o].kind = "refused" =>
                  conflicts'[o] = [winner |-> NoOp, type |-> new[o].verdict,
                                   clock |-> new[o].suspect]
             /\ ~disputed /\ ~(o \in N /\ new[o].kind = "refused") =>
                  conflicts'[o] = conflicts[o]
BY DEF Record, UpsertConflicts

\* After a batch every loser, old or new, has the conflict row of today's ranking.
LEMMA RecordReportsLosers ==
  ASSUME IInv, NEW N \in SUBSET Operations, NEW new \in [N -> Entry], Record(new)
  PROVE  LosersAreReported' /\ ClaimsHaveUses'
<1> DEFINE J == Journal(new)
<1>1. TypeOK /\ \A o \in N : logs[o] = NoLog
  BY DEF IInv, Record
<1>2. logs \in Journals /\ J \in Journals /\ logs' = J
  BY <1>1, ClaimsGrow DEF TypeOK, Journals, Record
<1>3. ASSUME NEW o \in Operations, J[o] # NoLog, J[o].kind = "claim"
      PROVE  MaxUses[J[o].group] > 0
  <2>1. CASE o \in N
    BY <1>3, <2>1 DEF Journal, Record
  <2>2. CASE o \notin N
    BY <1>3, <2>2 DEF Journal, IInv, ClaimsHaveUses
  <2> QED
    BY <2>1, <2>2
<1>4. ASSUME NEW g \in Groups, NEW c \in Losers(ClaimsOf(J, g), MaxUses[g])
      PROVE  conflicts'[c.op] = ConflictSpec(c, ClaimsOf(J, g), MaxUses[g])
  <2>1. /\ c \in ClaimsOf(J, g) /\ c.op \in Operations
        /\ IsClaim(J, c.op, g) /\ c = ClaimOf(J, c.op)
    BY <1>2, ClaimsOfJournal DEF Losers
  <2>2. J[c.op] # NoLog /\ J[c.op].group = g /\ J[c.op].kind = "claim"
    BY <2>1 DEF IsClaim
  <2>3. CASE g \in Touched(new)
    <3>1. MaxUses[g] \in Nat /\ MaxUses[g] > 0 /\ IsClaims(ClaimsOf(J, g))
      BY <1>2, <1>3, <2>1, <2>2, ClaimsOfJournal, LedgerAssumption
    <3>2. Assigned(ClaimsOf(J, g), MaxUses[g]) # {}
      BY <2>1, <3>1, SomebodyIsAssigned
    <3>3. c \in Disputed(ClaimsOf(J, g), MaxUses[g])
      BY <3>2 DEF Disputed
    <3>4. PICK o \in Operations : o = c.op /\ ClaimOf(J, o) = c /\ J[o].group = g /\ IsClaim(J, o, g)
      BY <2>1, <2>2
    <3>5. conflicts'[o] = ConflictSpec(ClaimOf(J, o), ClaimsOf(J, J[o].group), MaxUses[J[o].group])
      BY <2>2, <2>3, <3>3, <3>4, RecordConflict
    <3> QED
      BY <3>4, <3>5
  <2>4. CASE g \notin Touched(new)
    <3>1. ClaimsOf(logs, g) = ClaimsOf(J, g)
      BY <1>1, <2>4, ClaimsGrow
    <3>2. conflicts[c.op] = ConflictSpec(c, ClaimsOf(logs, g), MaxUses[g])
      BY <3>1 DEF IInv, LosersAreReported
    <3>3. IsClaim(logs, c.op, g)
      BY <1>2, <2>1, <3>1, ClaimsOfJournal
    <3>4. c.op \notin N
      BY <1>1, <3>3 DEF IsClaim
    <3>5. conflicts'[c.op] = conflicts[c.op]
      BY <2>1, <2>2, <2>4, <3>4, RecordConflict
    <3> QED
      BY <3>1, <3>2, <3>5
  <2> QED
    BY <2>3, <2>4
<1> QED
  BY <1>2, <1>3, <1>4 DEF LosersAreReported, ClaimsHaveUses

\* After a batch every refused row is reported, and no conflict row is without reason.
LEMMA RecordJustifies ==
  ASSUME IInv, NEW N \in SUBSET Operations, NEW new \in [N -> Entry], Record(new)
  PROVE  RefusedAreReported' /\ ConflictsAreJustified'
<1> DEFINE J == Journal(new)
<1>1. TypeOK /\ \A o \in N : logs[o] = NoLog
  BY DEF IInv, Record
<1>2. logs \in Journals /\ J \in Journals /\ logs' = J
  BY <1>1, ClaimsGrow DEF TypeOK, Journals, Record
<1>3. ASSUME NEW o \in Operations, J[o] # NoLog, J[o].kind = "refused"
      PROVE  conflicts'[o] = [winner |-> NoOp, type |-> J[o].verdict, clock |-> J[o].suspect]
  <2>1. ~IsClaim(J, o, J[o].group)
    BY <1>3 DEF IsClaim
  <2>2. CASE o \in N
    BY <1>3, <2>1, <2>2, RecordConflict DEF Journal
  <2>3. CASE o \notin N
    <3>1. J[o] = logs[o]
      BY <2>3 DEF Journal
    <3>2. conflicts'[o] = conflicts[o]
      BY <2>1, <2>3, RecordConflict
    <3> QED
      BY <1>3, <3>1, <3>2 DEF IInv, RefusedAreReported
  <2> QED
    BY <2>2, <2>3
<1>4. ASSUME NEW o \in Operations, conflicts'[o] # NoConflict
      PROVE  /\ J[o] # NoLog
             /\ J[o].kind \in {"claim", "refused"}
             /\ J[o].kind = "claim" /\ conflicts'[o].type # "CLOCK_SUSPECT" =>
                  ClaimOf(J, o) \in Losers(ClaimsOf(J, J[o].group), MaxUses[J[o].group])
  <2> DEFINE g == J[o].group
             c == ClaimOf(J, o)
             disputed == /\ J[o] # NoLog /\ g \in Touched(new) /\ IsClaim(J, o, g)
                         /\ c \in Disputed(ClaimsOf(J, g), MaxUses[g])
  <2>1. CASE disputed
    <3>1. g \in Groups
      BY <2>1 DEF Touched
    <3>2. conflicts'[o] = ConflictSpec(c, ClaimsOf(J, g), MaxUses[g])
      BY <2>1, RecordConflict
    <3>3. c \in Losers(ClaimsOf(J, g), MaxUses[g]) <=> conflicts'[o].type # "CLOCK_SUSPECT"
      BY <1>2, <2>1, <3>1, <3>2, ConflictSpecOfClaim
    <3> QED
      BY <2>1, <3>3 DEF IsClaim
  <2>2. CASE ~disputed /\ o \in N /\ new[o].kind = "refused"
    <3>1. J[o] = new[o] /\ new[o] \in Entry
      BY <2>2 DEF Journal
    <3> QED
      BY <2>2, <3>1, LedgerAssumption
  <2>3. CASE ~disputed /\ ~(o \in N /\ new[o].kind = "refused")
    <3>1. conflicts'[o] = conflicts[o]
      BY <2>3, RecordConflict
    <3>2. /\ logs[o] # NoLog
          /\ logs[o].kind \in {"claim", "refused"}
          /\ logs[o].kind = "claim" /\ conflicts[o].type # "CLOCK_SUSPECT" =>
               ClaimOf(logs, o) \in Losers(ClaimsOf(logs, logs[o].group), MaxUses[logs[o].group])
      BY <1>4, <3>1 DEF IInv, ConflictsAreJustified
    <3>3. J[o] = logs[o] /\ ClaimOf(J, o) = ClaimOf(logs, o)
      BY <1>1, <3>2 DEF Journal, ClaimOf
    <3>4. g \in Groups
      BY <1>2, <3>2, <3>3 DEF Journals, Entry
    <3>5. /\ IsClaims(ClaimsOf(logs, g)) /\ IsClaims(ClaimsOf(J, g)) /\ MaxUses[g] \in Nat
          /\ ClaimsOf(logs, g) \subseteq ClaimsOf(J, g)
      BY <1>1, <1>2, <3>4, ClaimsOfJournal, ClaimsGrow, LedgerAssumption
    <3>6. Losers(ClaimsOf(logs, g), MaxUses[g]) \subseteq Losers(ClaimsOf(J, g), MaxUses[g])
      BY <3>5, LosersAreMonotone
    <3> QED
      BY <3>1, <3>2, <3>3, <3>6
  <2> QED
    BY <2>1, <2>2, <2>3
<1> QED
  BY <1>2, <1>3, <1>4 DEF RefusedAreReported, ConflictsAreJustified

\* No batch deletes a conflict row.
LEMMA RecordKeepsConflicts ==
  ASSUME IInv, NEW N \in SUBSET Operations, NEW new \in [N -> Entry], Record(new),
         NEW o \in Operations, conflicts[o] # NoConflict
  PROVE  conflicts'[o] # NoConflict
<1> DEFINE J == Journal(new)
           g == J[o].group
           c == ClaimOf(J, o)
           disputed == /\ J[o] # NoLog /\ g \in Touched(new) /\ IsClaim(J, o, g)
                       /\ c \in Disputed(ClaimsOf(J, g), MaxUses[g])
<1>1. TypeOK /\ \A p \in N : logs[p] = NoLog
  BY DEF IInv, Record
<1>2. o \notin N
  BY <1>1 DEF IInv, ConflictsAreJustified
<1>3. CASE disputed
  <2>1. g \in Groups
    BY <1>3 DEF Touched
  <2>2. ConflictSpec(c, ClaimsOf(J, g), MaxUses[g]) \in Conflict
    BY <1>1, <1>3, <2>1, ClaimsGrow, ConflictSpecOfClaim
  <2> QED
    BY <1>3, <2>2, RecordConflict, LedgerAssumption
<1>4. CASE ~disputed
  BY <1>2, <1>4, RecordConflict
<1> QED
  BY <1>3, <1>4

\* A batch of any size keeps the invariant.
LEMMA RecordIInv ==
  ASSUME IInv, NEW N \in SUBSET Operations, NEW new \in [N -> Entry], Record(new)
  PROVE  IInv'
<1>1. AcknowledgedAreConflicts'
  BY RecordKeepsConflicts DEF Record, IInv, AcknowledgedAreConflicts, TypeOK
<1> QED
  BY <1>1, RecordTypeOK, RecordFollowsRanking, RecordReportsLosers, RecordJustifies DEF IInv

\* The invariant is inductive.
LEMMA StepIInv == IInv /\ [Next]_vars => IInv'
<1> SUFFICES ASSUME IInv, [Next]_vars PROVE IInv'
  OBVIOUS
<1>1. ASSUME NEW N \in SUBSET Operations, NEW new \in [N -> Entry], Record(new) PROVE IInv'
  BY <1>1, RecordIInv
<1>2. ASSUME NEW o \in Operations, Acknowledge(o) PROVE IInv'
  BY <1>2 DEF Acknowledge, IInv, TypeOK, ClaimsHaveUses, ConsumptionsFollowRanking,
       LosersAreReported, RefusedAreReported, ConflictsAreJustified, AcknowledgedAreConflicts,
       LostOrRefused
<1>3. ASSUME UNCHANGED vars PROVE IInv'
  BY <1>3 DEF vars, IInv, TypeOK, ClaimsHaveUses, ConsumptionsFollowRanking,
       LosersAreReported, RefusedAreReported, ConflictsAreJustified, AcknowledgedAreConflicts,
       LostOrRefused
<1> QED
  BY <1>1, <1>2, <1>3 DEF Next

-----------------------------------------------------------------------------
\* The invariant holds of every behaviour of the ledger.
THEOREM LedgerInvariant == Spec => []IInv
BY InitIInv, StepIInv, PTL DEF Spec

\* The tables hold what their columns say.
THEOREM LedgerTypes == Spec => []TypeOK
<1>1. IInv => TypeOK
  BY DEF IInv
<1> QED
  BY <1>1, LedgerInvariant, PTL

\* Slots are held as the ranking of the whole journal says, whatever the number, the
\* content and the order of the batches.
THEOREM SlotsFollowRanking == Spec => []ConsumptionsFollowRanking
<1>1. IInv => ConsumptionsFollowRanking
  BY DEF IInv
<1> QED
  BY <1>1, LedgerInvariant, PTL

\* Every loser has the conflict row that today's ranking gives it.
THEOREM LosersGetConflicts == Spec => []LosersAreReported
<1>1. IInv => LosersAreReported
  BY DEF IInv
<1> QED
  BY <1>1, LedgerInvariant, PTL

\* Every admission has a slot or a conflict, and not both; nothing else has either.
THEOREM EveryAdmissionIsAccountedFor == Spec => []AdmittedAreAccountedFor
<1>1. IInv /\ HoldersAreAssigned /\ LostAreLosers => AdmittedAreAccountedFor
  <2> SUFFICES ASSUME IInv, HoldersAreAssigned, LostAreLosers, NEW o \in Operations
               PROVE  IF logs[o] # NoLog /\ logs[o].kind # "evidence"
                      THEN HoldsSlot(o) <=> ~LostOrRefused(o)
                      ELSE ~HoldsSlot(o) /\ conflicts[o] = NoConflict
    BY DEF AdmittedAreAccountedFor
  <2>1. logs[o] # NoLog => logs[o].group \in Groups /\ logs[o].kind \in {"claim", "refused", "evidence"}
    BY DEF IInv, TypeOK, Entry
  <2>2. CASE logs[o] # NoLog /\ logs[o].kind = "claim"
    <3>1. ClaimOf(logs, o) \in ClaimsOf(logs, logs[o].group)
      BY <2>2 DEF ClaimsOf, IsClaim
    <3> QED
      BY <2>2, <3>1 DEF HoldersAreAssigned, LostAreLosers, Losers
  <2>3. CASE logs[o] # NoLog /\ logs[o].kind = "refused"
    BY <2>3 DEF HoldersAreAssigned, LostAreLosers
  <2>4. CASE logs[o] = NoLog \/ logs[o].kind = "evidence"
    BY <2>4 DEF HoldersAreAssigned, IInv, ConflictsAreJustified
  <2> QED
    BY <2>1, <2>2, <2>3, <2>4
<1> QED
  BY <1>1, HoldersOfSlots, LostOperations, LedgerInvariant, PTL

\* A claim that lost its slot never gets one back.
THEOREM LosersNeverComeBack == Spec => LosersStayLosers
<1>1. /\ IInv /\ LostAreLosers /\ HoldersAreAssigned' /\ LostAreLosers' /\ [Next]_vars
      => [\A o \in Operations : LostOrRefused(o) => LostOrRefused(o)' /\ ~HoldsSlot(o)']_vars
  <2> SUFFICES ASSUME IInv, LostAreLosers, HoldersAreAssigned', LostAreLosers', Next,
                      NEW o \in Operations, LostOrRefused(o)
               PROVE  LostOrRefused(o)' /\ ~HoldsSlot(o)'
    BY DEF vars
  <2> DEFINE g == logs[o].group
  <2>1. /\ logs[o] # NoLog
        /\ \/ logs[o].kind = "refused"
           \/ logs[o].kind = "claim" /\ ClaimOf(logs, o) \in Losers(ClaimsOf(logs, g), MaxUses[g])
    BY DEF LostAreLosers
  <2>2. logs \in Journals /\ g \in Groups
    BY <2>1 DEF IInv, TypeOK, Journals, Entry
  <2>3. /\ logs' \in Journals
        /\ logs'[o] = logs[o]
        /\ ClaimsOf(logs, g) \subseteq ClaimsOf(logs', g)
    <3>1. ASSUME NEW N \in SUBSET Operations, NEW new \in [N -> Entry], Record(new)
          PROVE  /\ logs' \in Journals
                 /\ logs'[o] = logs[o]
                 /\ ClaimsOf(logs, g) \subseteq ClaimsOf(logs', g)
      <4>1. TypeOK /\ (\A p \in N : logs[p] = NoLog) /\ logs' = Journal(new)
        BY <3>1 DEF IInv, Record
      <4>2. Journal(new)[o] = logs[o]
        BY <2>1, <4>1 DEF Journal
      <4> QED
        BY <2>2, <4>1, <4>2, ClaimsGrow
    <3>2. ASSUME NEW p \in Operations, Acknowledge(p) PROVE logs' = logs
      BY <3>2 DEF Acknowledge
    <3> QED
      BY <2>2, <3>1, <3>2 DEF Next
  <2>4. CASE logs[o].kind = "refused"
    BY <2>1, <2>3, <2>4 DEF HoldersAreAssigned, LostAreLosers
  <2>5. CASE logs[o].kind = "claim" /\ ClaimOf(logs, o) \in Losers(ClaimsOf(logs, g), MaxUses[g])
    <3>1. /\ IsClaims(ClaimsOf(logs, g)) /\ IsClaims(ClaimsOf(logs', g)) /\ MaxUses[g] \in Nat
      BY <2>2, <2>3, ClaimsOfJournal, LedgerAssumption
    <3>2. ClaimOf(logs', o) \in Losers(ClaimsOf(logs', g), MaxUses[g])
      <4>1. ClaimOf(logs', o) = ClaimOf(logs, o)
        BY <2>3 DEF ClaimOf
      <4> QED
        BY <2>3, <2>5, <3>1, <4>1, LosersAreMonotone
    <3>3. ClaimOf(logs', o) \notin Assigned(ClaimsOf(logs', g), MaxUses[g])
      BY <3>2 DEF Losers
    <3>4. LostOrRefused(o)'
      BY <2>1, <2>3, <2>5, <3>2 DEF LostAreLosers
    <3>5. ~HoldsSlot(o)'
      BY <2>1, <2>3, <3>3 DEF HoldersAreAssigned
    <3> QED
      BY <3>4, <3>5
  <2> QED
    BY <2>1, <2>4, <2>5
<1> QED
  BY <1>1, HoldersOfSlots, LostOperations, LedgerInvariant, PTL DEF Spec, LosersStayLosers

\* Conflict rows stay, and an acknowledgement stays with its row.
THEOREM ConflictsNeverVanish == Spec => ConflictsAreKept
<1>1. IInv /\ [Next]_vars =>
        [\A o \in Operations :
           /\ conflicts[o] # NoConflict => conflicts'[o] # NoConflict
           /\ o \in acknowledged => o \in acknowledged' /\ conflicts[o] # NoConflict]_vars
  <2> SUFFICES ASSUME IInv, Next, NEW o \in Operations
               PROVE  /\ conflicts[o] # NoConflict => conflicts'[o] # NoConflict
                      /\ o \in acknowledged => o \in acknowledged' /\ conflicts[o] # NoConflict
    BY DEF vars
  <2>1. o \in acknowledged => conflicts[o] # NoConflict
    BY DEF IInv, AcknowledgedAreConflicts
  <2>2. ASSUME NEW N \in SUBSET Operations, NEW new \in [N -> Entry], Record(new)
        PROVE  /\ conflicts[o] # NoConflict => conflicts'[o] # NoConflict
               /\ acknowledged' = acknowledged
    BY <2>2, RecordKeepsConflicts DEF Record
  <2>3. ASSUME NEW p \in Operations, Acknowledge(p)
        PROVE  conflicts' = conflicts /\ acknowledged \subseteq acknowledged'
    BY <2>3 DEF Acknowledge
  <2> QED
    BY <2>1, <2>2, <2>3 DEF Next
<1> QED
  BY <1>1, LedgerInvariant, PTL DEF Spec, ConflictsAreKept
=============================================================================
