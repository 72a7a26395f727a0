----------------------- MODULE CheckinConvergenceProofs -----------------------
(***************************************************************************)
(* Two servers that were given the same batches agree, whatever the order  *)
(* each received them in: both keep the invariant of CheckinLedgerProofs,  *)
(* which says what slots and conflicts follow from the journal alone.      *)
(***************************************************************************)
EXTENDS CheckinConvergence, FiniteSetTheorems, TLAPS

LP == INSTANCE CheckinLedgerProofs
RP == INSTANCE CheckinLedgerProofs WITH
        logs <- logs2, consumptions <- consumptions2,
        conflicts <- conflicts2, acknowledged <- acknowledged2

Agree ==
  /\ content \in [Operations -> Contents]
  /\ batch \in [Operations -> Operations]
  /\ LP!IInv
  /\ RP!IInv

-----------------------------------------------------------------------------
\* What the ledger takes for granted holds here, on both sides.
LEMMA SidesAreLedgers ==
  /\ LP!LedgerAssumption /\ LP!DomainAssumption
  /\ RP!LedgerAssumption /\ RP!DomainAssumption
<1>1. LP!IsFiniteSet(Operations) /\ RP!IsFiniteSet(Operations)
  BY ConvergenceAssumption, Zenon DEF IsFiniteSet, LP!IsFiniteSet, RP!IsFiniteSet
<1>2. /\ LP!Entry = Left!Entry /\ LP!Conflict = Left!Conflict
      /\ RP!Entry = Left!Entry /\ RP!Conflict = Left!Conflict
  BY DEF LP!Entry, RP!Entry, Left!Entry, LP!Conflict, RP!Conflict, Left!Conflict
<1>3. Cardinality(Operations) \in Nat
  BY ConvergenceAssumption, FS_CardinalityType
<1> QED
  BY <1>1, <1>2, <1>3, ConvergenceAssumption, DomainAssumption

\* Every copy of the rules ranks the claims of a group in the same way: what a side does
\* depends on its tables only.
LEMMA SameRanking ==
  /\ \A claims, uses, i :
       /\ Left!HolderAt(claims, uses, i) = LP!HolderAt(claims, uses, i)
       /\ Right!HolderAt(claims, uses, i) = RP!HolderAt(claims, uses, i)
       /\ RP!HolderAt(claims, uses, i) = LP!HolderAt(claims, uses, i)
  /\ \A claims, uses :
       /\ Left!Disputed(claims, uses) = LP!Disputed(claims, uses)
       /\ Right!Disputed(claims, uses) = RP!Disputed(claims, uses)
       /\ RP!Losers(claims, uses) = LP!Losers(claims, uses)
  /\ \A c, claims, uses :
       /\ Left!ConflictSpec(c, claims, uses) = LP!ConflictSpec(c, claims, uses)
       /\ Right!ConflictSpec(c, claims, uses) = RP!ConflictSpec(c, claims, uses)
       /\ RP!ConflictSpec(c, claims, uses) = LP!ConflictSpec(c, claims, uses)
<1>1. \A c, claims : /\ Left!Rank(c, claims) = LP!Rank(c, claims)
                     /\ Right!Rank(c, claims) = LP!Rank(c, claims)
                     /\ RP!Rank(c, claims) = LP!Rank(c, claims)
  BY Zenon DEF Left!Rank, Right!Rank, LP!Rank, RP!Rank,
       Left!Before, Right!Before, LP!Before, RP!Before,
       Left!Cardinality, Right!Cardinality, LP!Cardinality, RP!Cardinality,
       Left!IsFiniteSet, Right!IsFiniteSet, LP!IsFiniteSet, RP!IsFiniteSet
<1>2. \A claims, uses : /\ Left!Assigned(claims, uses) = LP!Assigned(claims, uses)
                        /\ Right!Assigned(claims, uses) = LP!Assigned(claims, uses)
                        /\ RP!Assigned(claims, uses) = LP!Assigned(claims, uses)
  BY <1>1 DEF Left!Assigned, Right!Assigned, LP!Assigned, RP!Assigned
<1>3. \A claims, uses : /\ Left!Losers(claims, uses) = LP!Losers(claims, uses)
                        /\ Right!Losers(claims, uses) = LP!Losers(claims, uses)
                        /\ RP!Losers(claims, uses) = LP!Losers(claims, uses)
  BY <1>2 DEF Left!Losers, Right!Losers, LP!Losers, RP!Losers
<1>4. \A claims, uses : /\ Left!Reference(claims, uses) = LP!Reference(claims, uses)
                        /\ Right!Reference(claims, uses) = LP!Reference(claims, uses)
                        /\ RP!Reference(claims, uses) = LP!Reference(claims, uses)
  <2>1. \A claims, uses : Left!Reference(claims, uses) = LP!Reference(claims, uses)
    BY <1>2, Zenon DEF Left!Reference, LP!Reference, Left!Before, LP!Before
  <2>2. \A claims, uses : Right!Reference(claims, uses) = LP!Reference(claims, uses)
    BY <1>2, Zenon DEF Right!Reference, LP!Reference, Right!Before, LP!Before
  <2>3. \A claims, uses : RP!Reference(claims, uses) = LP!Reference(claims, uses)
    BY <1>2, Zenon DEF RP!Reference, LP!Reference, RP!Before, LP!Before
  <2> QED
    BY <2>1, <2>2, <2>3
<1>5. ASSUME NEW claims, NEW uses, NEW i
      PROVE  /\ Left!HolderAt(claims, uses, i) = LP!HolderAt(claims, uses, i)
             /\ Right!HolderAt(claims, uses, i) = LP!HolderAt(claims, uses, i)
             /\ RP!HolderAt(claims, uses, i) = LP!HolderAt(claims, uses, i)
  <2> DEFINE first(S) == IF S = {} THEN NoOp ELSE (CHOOSE c \in S : TRUE).op
             ofLeft  == {c \in Left!Assigned(claims, uses) : Left!Rank(c, claims) = i}
             ofRight == {c \in Right!Assigned(claims, uses) : Right!Rank(c, claims) = i}
             ofLP    == {c \in LP!Assigned(claims, uses) : LP!Rank(c, claims) = i}
             ofRP    == {c \in RP!Assigned(claims, uses) : RP!Rank(c, claims) = i}
  <2>1. ofLeft = ofLP /\ ofRight = ofLP /\ ofRP = ofLP
    BY <1>1, <1>2
  <2>2. /\ Left!HolderAt(claims, uses, i) = first(ofLeft)
        /\ Right!HolderAt(claims, uses, i) = first(ofRight)
        /\ LP!HolderAt(claims, uses, i) = first(ofLP)
        /\ RP!HolderAt(claims, uses, i) = first(ofRP)
    BY Zenon DEF Left!HolderAt, Right!HolderAt, LP!HolderAt, RP!HolderAt
  <2> HIDE DEF first, ofLeft, ofRight, ofLP, ofRP
  <2> QED
    BY <2>1, <2>2
<1>6. \A claims, uses : /\ Left!Disputed(claims, uses) = LP!Disputed(claims, uses)
                        /\ Right!Disputed(claims, uses) = RP!Disputed(claims, uses)
  BY <1>2, <1>3 DEF Left!Disputed, Right!Disputed, LP!Disputed, RP!Disputed
<1>7. ASSUME NEW c, NEW claims, NEW uses
      PROVE  /\ Left!ConflictSpec(c, claims, uses) = LP!ConflictSpec(c, claims, uses)
             /\ Right!ConflictSpec(c, claims, uses) = LP!ConflictSpec(c, claims, uses)
             /\ RP!ConflictSpec(c, claims, uses) = LP!ConflictSpec(c, claims, uses)
  <2> DEFINE spec(losers, winner) ==
               IF c \in losers
               THEN [winner |-> winner.op,
                     type   |-> IF c.terminal = winner.terminal THEN "SAME_TERMINAL_REPLAY"
                                ELSE "CROSS_TERMINAL_DOUBLE_ADMISSION",
                     clock  |-> c.suspect \/ winner.suspect]
               ELSE [winner |-> NoOp, type |-> "CLOCK_SUSPECT", clock |-> TRUE]
  <2>1. /\ Left!ConflictSpec(c, claims, uses)
             = spec(Left!Losers(claims, uses), Left!Reference(claims, uses))
        /\ Right!ConflictSpec(c, claims, uses)
             = spec(Right!Losers(claims, uses), Right!Reference(claims, uses))
    BY Zenon DEF Left!ConflictSpec, Left!ClassifyLoser, Right!ConflictSpec, Right!ClassifyLoser
  <2>2. /\ LP!ConflictSpec(c, claims, uses)
             = spec(LP!Losers(claims, uses), LP!Reference(claims, uses))
        /\ RP!ConflictSpec(c, claims, uses)
             = spec(RP!Losers(claims, uses), RP!Reference(claims, uses))
    BY Zenon DEF LP!ConflictSpec, LP!ClassifyLoser, RP!ConflictSpec, RP!ClassifyLoser
  <2> HIDE DEF spec
  <2> QED
    BY <1>3, <1>4, <2>1, <2>2, Zenon
<1> QED
  BY <1>3, <1>5, <1>6, <1>7

\* Every copy reads a journal in the same way.
LEMMA SameReading ==
  /\ \A J, g : /\ Left!ClaimsOf(J, g) = LP!ClaimsOf(J, g)
               /\ Right!ClaimsOf(J, g) = RP!ClaimsOf(J, g)
               /\ RP!ClaimsOf(J, g) = LP!ClaimsOf(J, g)
  /\ \A J, o : /\ Left!ClaimOf(J, o) = LP!ClaimOf(J, o)
               /\ Right!ClaimOf(J, o) = RP!ClaimOf(J, o)
               /\ RP!ClaimOf(J, o) = LP!ClaimOf(J, o)
  /\ \A J, o, g : /\ Left!IsClaim(J, o, g) = LP!IsClaim(J, o, g)
                  /\ Right!IsClaim(J, o, g) = RP!IsClaim(J, o, g)
  /\ \A new : /\ Left!Journal(new) = LP!Journal(new) /\ Left!Touched(new) = LP!Touched(new)
              /\ Right!Journal(new) = RP!Journal(new) /\ Right!Touched(new) = RP!Touched(new)
BY Zenon DEF Left!Journal, LP!Journal, Left!Touched, LP!Touched, Left!ClaimsOf, LP!ClaimsOf,
     Left!ClaimOf, LP!ClaimOf, Left!IsClaim, LP!IsClaim, Right!Journal, RP!Journal,
     Right!Touched, RP!Touched, Right!ClaimsOf, RP!ClaimsOf, Right!ClaimOf, RP!ClaimOf,
     Right!IsClaim, RP!IsClaim

\* A batch that the left server receives is a batch of its ledger.
LEMMA LeftRecords == ASSUME NEW new, Left!Record(new) PROVE LP!Record(new)
<1>1. LP!UpsertConsumptions(new)
  <2>1. Left!UpsertConsumptions(new)
    BY DEF Left!Record
  <2> QED
    BY <2>1, SameRanking, SameReading DEF Left!UpsertConsumptions, LP!UpsertConsumptions
<1>2. LP!UpsertConflicts(new)
  <2>1. Left!UpsertConflicts(new)
    BY DEF Left!Record
  <2> QED
    BY <2>1, SameRanking, SameReading DEF Left!UpsertConflicts, LP!UpsertConflicts
<1> QED
  BY <1>1, <1>2, SameReading DEF Left!Record, LP!Record

\* A batch that the right server receives is a batch of its ledger.
LEMMA RightRecords == ASSUME NEW new, Right!Record(new) PROVE RP!Record(new)
<1>1. RP!UpsertConsumptions(new)
  <2>1. Right!UpsertConsumptions(new)
    BY DEF Right!Record
  <2> QED
    BY <2>1, SameRanking, SameReading DEF Right!UpsertConsumptions, RP!UpsertConsumptions
<1>2. RP!UpsertConflicts(new)
  <2>1. Right!UpsertConflicts(new)
    BY DEF Right!Record
  <2> QED
    BY <2>1, SameRanking, SameReading DEF Right!UpsertConflicts, RP!UpsertConflicts
<1> QED
  BY <1>1, <1>2, SameReading DEF Right!Record, RP!Record

-----------------------------------------------------------------------------
\* Both servers start with empty tables.
LEMMA InitAgree == Init => Agree
<1> SUFFICES ASSUME Init PROVE Agree
  OBVIOUS
<1>1. LP!Init /\ RP!Init
  BY DEF Init, Left!Init, Right!Init, LP!Init, RP!Init
<1>2. LP!IInv
  BY <1>1, SidesAreLedgers, LP!InitIInv
<1>3. RP!IInv
  BY <1>1, SidesAreLedgers, RP!InitIInv
<1> QED
  BY <1>2, <1>3 DEF Init, Agree

\* A batch that one server receives keeps what is true of both.
LEMMA NextAgree == Agree /\ [Next]_vars => Agree'
<1> SUFFICES ASSUME Agree, [Next]_vars PROVE Agree'
  OBVIOUS
<1>1. ASSUME NEW b \in Operations
      PROVE  \E N \in SUBSET Operations : Rows(b) \in [N -> LP!Entry] /\ Rows(b) \in [N -> RP!Entry]
  <2>1. LP!Entry = Left!Entry /\ RP!Entry = Left!Entry
    BY DEF LP!Entry, RP!Entry, Left!Entry
  <2> QED
    BY <2>1, ConvergenceAssumption DEF Rows, Agree
<1>2. ASSUME UNCHANGED left, LP!IInv PROVE LP!IInv'
  BY <1>2 DEF left, LP!IInv, LP!TypeOK, LP!ClaimsHaveUses, LP!ConsumptionsFollowRanking,
       LP!LosersAreReported, LP!RefusedAreReported, LP!ConflictsAreJustified,
       LP!AcknowledgedAreConflicts
<1>3. ASSUME UNCHANGED right, RP!IInv PROVE RP!IInv'
  BY <1>3 DEF right, RP!IInv, RP!TypeOK, RP!ClaimsHaveUses, RP!ConsumptionsFollowRanking,
       RP!LosersAreReported, RP!RefusedAreReported, RP!ConflictsAreJustified,
       RP!AcknowledgedAreConflicts
<1>4. ASSUME NEW b \in Operations, ReceiveLeft(b) PROVE Agree'
  <2>1. LP!Record(Rows(b)) /\ UNCHANGED <<input, right>>
    BY <1>4, LeftRecords DEF ReceiveLeft
  <2>2. LP!IInv'
    BY <1>1, <2>1, SidesAreLedgers, LP!RecordIInv DEF Agree
  <2> QED
    BY <1>3, <2>1, <2>2 DEF Agree, input
<1>5. ASSUME NEW b \in Operations, ReceiveRight(b) PROVE Agree'
  <2>1. RP!Record(Rows(b)) /\ UNCHANGED <<input, left>>
    BY <1>5, RightRecords DEF ReceiveRight
  <2>2. RP!IInv'
    BY <1>1, <2>1, SidesAreLedgers, RP!RecordIInv DEF Agree
  <2> QED
    BY <1>2, <2>1, <2>2 DEF Agree, input
<1>6. CASE UNCHANGED vars
  BY <1>2, <1>3, <1>6 DEF vars, input, Agree
<1> QED
  BY <1>4, <1>5, <1>6 DEF Next

\* Each server keeps the ledger's invariant, whatever the other one received.
THEOREM BothKeepTheLedger == Spec => []Agree
BY InitAgree, NextAgree, PTL DEF Spec

\* ADR-001, consumptions: the slots depend on the journal only, not on the order in which
\* the batches arrived (resolve, upsert_consumptions).
THEOREM ConsumptionsDoConverge == Spec => []ConsumptionsConverge
<1>1. Agree => ConsumptionsConverge
  <2> SUFFICES ASSUME Agree, SameLogs PROVE consumptions = consumptions2
    BY DEF ConsumptionsConverge
  <2>1. /\ consumptions \in [Groups -> [Slots -> Operations \cup {NoOp}]]
        /\ consumptions2 \in [Groups -> [Slots -> Operations \cup {NoOp}]]
    BY DEF Agree, LP!IInv, LP!TypeOK, RP!IInv, RP!TypeOK
  <2>2. \A g \in Groups, i \in Slots : consumptions[g][i] = consumptions2[g][i]
    BY SameRanking, SameReading
       DEF SameLogs, Agree, LP!IInv, LP!ConsumptionsFollowRanking,
           RP!IInv, RP!ConsumptionsFollowRanking
  <2> QED
    BY <2>1, <2>2
<1> QED
  BY <1>1, BothKeepTheLedger, PTL

\* ADR-001, conflicts of scans that lost or were refused: type, winner and clock flag
\* depend on the journal only (resolve, upsert_conflicts, sync_batch).
THEOREM LostOrRefusedDoConverge == Spec => []LostOrRefusedConverge
<1>1. Agree => LP!LostAreLosers /\ RP!LostAreLosers
  BY SidesAreLedgers, LP!LostOperations, RP!LostOperations DEF Agree
<1>2. Agree => LostOrRefusedConverge
  <2> SUFFICES ASSUME Agree, SameLogs, NEW o \in Operations,
                      Left!LostOrRefused(o) \/ Right!LostOrRefused(o)
               PROVE  conflicts[o] = conflicts2[o]
    BY DEF LostOrRefusedConverge
  <2> DEFINE g == logs[o].group
             c == LP!ClaimOf(logs, o)
  <2>1. /\ logs[o] # NoLog
        /\ \/ logs[o].kind = "refused"
           \/ logs[o].kind = "claim" /\ c \in LP!Losers(LP!ClaimsOf(logs, g), MaxUses[g])
    <3>1. CASE Left!LostOrRefused(o)
      BY <1>1, <3>1 DEF Left!LostOrRefused, LP!LostOrRefused, LP!LostAreLosers
    <3>2. CASE Right!LostOrRefused(o)
      BY <1>1, <3>2, SameRanking, SameReading
         DEF Right!LostOrRefused, RP!LostOrRefused, RP!LostAreLosers, SameLogs
    <3> QED
      BY <3>1, <3>2
  <2>2. CASE logs[o].kind = "refused"
    BY <2>1, <2>2 DEF SameLogs, Agree, LP!IInv, LP!RefusedAreReported,
         RP!IInv, RP!RefusedAreReported
  <2>3. CASE logs[o].kind = "claim" /\ c \in LP!Losers(LP!ClaimsOf(logs, g), MaxUses[g])
    <3>1. logs[o] \in LP!Entry
      BY <2>1 DEF Agree, LP!IInv, LP!TypeOK
    <3>2. g \in Groups /\ c.op = o
      BY <3>1 DEF LP!Entry, LP!ClaimOf
    <3>3. conflicts[o] = LP!ConflictSpec(c, LP!ClaimsOf(logs, g), MaxUses[g])
      BY <2>3, <3>2 DEF Agree, LP!IInv, LP!LosersAreReported
    <3>4. conflicts2[o] = RP!ConflictSpec(c, RP!ClaimsOf(logs2, g), MaxUses[g])
      BY <2>3, <3>2, SameRanking, SameReading
         DEF SameLogs, Agree, RP!IInv, RP!LosersAreReported
    <3> QED
      BY <3>3, <3>4, SameRanking, SameReading DEF SameLogs
  <2> QED
    BY <2>1, <2>2, <2>3
<1> QED
  BY <1>2, BothKeepTheLedger, PTL
=============================================================================
