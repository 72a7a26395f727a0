----------------------------- MODULE ScannerProofs -----------------------------
(***************************************************************************)
(* The promises of the offline scanner, for any number of tabs, scans,     *)
(* batches, tickets and keys, whatever the clocks and the network do.      *)
(*                                                                         *)
(* Typed is the inductive typing invariant; the properties of Scanner are  *)
(* proved one after the other, each from those before it.                  *)
(***************************************************************************)
EXTENDS Scanner, FiniteSetTheorems, TLAPS

Scan == [pc : {"lookup", "record"}, event : Events, ticket : Tickets \cup {NoTicket},
         result : Results \cup {"ask"}, asof : Nat, indexed : BOOLEAN]

Gate == [event : Events, bundle : Bundle]

Server == [applied : SUBSET Ids, winner : [Tickets -> Ids \cup {Elsewhere, Nobody}], now : Nat,
           admitted : [Tickets -> Nat], revoked : [Tickets -> Nat]]

Batch(b) == b = [claims |-> b.claims, delivered |-> b.delivered]

Typed ==
  /\ TypeOK
  /\ gate \in [Tabs -> Gate \cup {NoBundle}]
  /\ scan \in [Tabs -> Scan \cup {Idle}]
  /\ \A t \in Tabs : scan[t].pc = "record" => scan[t].result \in Results
  /\ server \in Server
  /\ \A b \in wire : Batch(b)

-----------------------------------------------------------------------------
\* A presented token is recorded under a ticket of the system or under none.
LEMMA VerdictTyped ==
  ASSUME NEW tok \in Presented, NEW event \in Events, NEW bundle \in Bundle, NEW now \in Times
  PROVE  /\ Examine(tok, event, bundle, now).ticket \in Tickets \cup {NoTicket}
         /\ Examine(tok, event, bundle, now).result \in {"invalid", "wrong_event", "duplicate", "ask"}
<1>1. CASE VerifyWithRing(tok, Keys, now) # "verified"
  BY <1>1 DEF Examine, Verdict
<1>2. CASE VerifyWithRing(tok, Keys, now) = "verified"
  <2>1. tok.tid \in Tickets
    BY <1>2, IssuersSignTickets
  <2> QED
    BY <1>2, <2>1 DEF Examine, Verdict
<1> QED
  BY <1>1, <1>2

\* What the migration numbers a legacy row.
Rank(i) == 1 + Cardinality({j \in DOMAIN rows : LegacyBefore(rows, j, i)})

LEMMA RankIsPositive ==
  ASSUME IsQueue(rows)
  PROVE  \A i \in DOMAIN rows : Rank(i) \in Nat \ {0}
<1> TAKE i \in DOMAIN rows
<1> DEFINE before == {j \in DOMAIN rows : LegacyBefore(rows, j, i)}
<1>1. before \in SUBSET Ids
  BY DEF IsQueue
<1>2. Cardinality(before) \in Nat
  BY <1>1, ScannerAssumption, FS_Subset, FS_CardinalityType
<1> QED
  BY <1>2 DEF Rank

LEMMA InitTyped == Init => Typed
<1> SUFFICES ASSUME Init PROVE Typed
  OBVIOUS
<1>1. TypeOK
  BY LegacyAssumption DEF Init, TypeOK, IsQueue, Idle
<1>2. gate \in [Tabs -> Gate \cup {NoBundle}] /\ scan \in [Tabs -> Scan \cup {Idle}]
  BY DEF Init
<1>3. \A t \in Tabs : scan[t].pc = "record" => scan[t].result \in Results
  BY DEF Init, Idle
<1>4. server \in Server
  <2>1. {i \in DOMAIN rows : rows[i].synced} \in SUBSET Ids
    BY <1>1 DEF TypeOK, IsQueue
  <2>2. \E winner \in [Tickets -> Ids \cup {Elsewhere, Nobody}] :
          server = [applied |-> {i \in DOMAIN rows : rows[i].synced}, winner |-> winner, now |-> 0,
                    admitted |-> [k \in Tickets |-> 0], revoked |-> [k \in Tickets |-> 0]]
    BY DEF Init
  <2> QED
    BY <2>1, <2>2 DEF Server
<1> QED
  BY <1>1, <1>2, <1>3, <1>4 DEF Typed, Init

LEMMA NextTyped == Typed /\ [Next]_vars => Typed'
<1> SUFFICES ASSUME Typed, [Next]_vars PROVE Typed'
  OBVIOUS
<1> USE ScannerAssumption DEF Typed, TypeOK
<1>1. CASE Upgrade
  <2>1. \A i \in DOMAIN rows : Rank(i) \in Nat \ {0}
    BY RankIsPositive
  <2>2. \A i \in DOMAIN rows : [rows[i] EXCEPT !.seq = Rank(i)] \in Row
    BY <2>1 DEF IsQueue, Row
  <2>3. rows' = [i \in DOMAIN rows |-> [rows[i] EXCEPT !.seq = Rank(i)]]
    BY <1>1 DEF Upgrade, Rank
  <2>4. IsQueue(rows')
    BY <2>2, <2>3 DEF IsQueue
  <2> QED
    BY <1>1, <2>4 DEF Upgrade
<1>2. CASE \E e \in Doors : SaveBundle(e)
  <2> PICK e \in Doors : SaveBundle(e)
    BY <1>2
  <2>1. bundles' \in [Events -> Bundle \cup {NoBundle}]
    <3>1. PICK flag \in Flags :
            bundles' = [bundles EXCEPT ![e] =
              [present |-> flag,
               index |-> {k \in Tickets : EventOf[k] = e /\ flag /\ server.revoked[k] = 0},
               admitted |-> {k \in Tickets : EventOf[k] = e /\ server.winner[k] # Nobody},
               issued |-> server.now]]
      BY DEF SaveBundle
    <3>2. server.now \in Nat
      BY DEF Server
    <3> QED
      BY <3>1, <3>2 DEF Bundle
  <2> QED
    BY <2>1 DEF SaveBundle
<1>3. CASE \E e \in Doors, t \in Tabs : LoadBundle(t, e)
  <2> PICK e \in Doors, t \in Tabs : LoadBundle(t, e)
    BY <1>3
  <2>1. gate' \in [Tabs -> Gate \cup {NoBundle}]
    BY DEF LoadBundle, Gate
  <2> QED
    BY <2>1 DEF LoadBundle
<1>4. CASE \E e \in Events : DeleteBundle(e)
  <2> PICK e \in Events : DeleteBundle(e)
    BY <1>4
  <2>1. IsQueue(rows')
    BY DEF DeleteBundle, IsQueue
  <2> QED
    BY <2>1 DEF DeleteBundle
<1>5. CASE \E e \in Events : SendBatch(e)
  <2> PICK e \in Events : SendBatch(e)
    BY <1>5
  <2>1. IsQueue([i \in PendingOf(e) |-> rows[i]])
    BY DEF PendingOf, IsQueue
  <2>2. \A c \in wire' : \/ c \in wire
                        \/ c = [claims |-> [i \in PendingOf(e) |-> rows[i]], delivered |-> FALSE]
    BY DEF SendBatch
  <2>3. ASSUME NEW c \in wire' PROVE IsQueue(c.claims) /\ c.delivered \in BOOLEAN /\ Batch(c)
    <3> DEFINE claims == [i \in PendingOf(e) |-> rows[i]]
    <3>1. CASE c = [claims |-> claims, delivered |-> FALSE]
      <4> HIDE DEF claims
      <4> QED
        BY <2>1, <3>1 DEF Batch, claims
    <3> QED
      BY <2>2, <3>1
  <2> QED
    BY <2>3 DEF SendBatch
<1>6. CASE \E t \in Tabs, tok \in Presented, now \in Times : Present(t, tok, now)
  <2> PICK t \in Tabs, tok \in Presented, now \in Times : Present(t, tok, now)
    BY <1>6
  <2> DEFINE verdict == Examine(tok, gate[t].event, gate[t].bundle, now)
             new == [pc |-> IF verdict.result = "ask" THEN "lookup" ELSE "record",
                     event |-> gate[t].event, ticket |-> verdict.ticket, result |-> verdict.result,
                     asof |-> gate[t].bundle.issued, indexed |-> gate[t].bundle.present]
  <2>1. gate[t] \in Gate
    BY DEF Present
  <2>2. /\ verdict.ticket \in Tickets \cup {NoTicket}
        /\ verdict.result \in {"invalid", "wrong_event", "duplicate", "ask"}
    BY <2>1, VerdictTyped DEF Gate
  <2>3. scan' = [scan EXCEPT ![t] = new]
    BY DEF Present
  <2>4. new \in Scan /\ (new.pc = "record" => new.result \in Results)
    BY <2>1, <2>2 DEF Scan, Results, Gate, Bundle
  <2>5. \A u \in Tabs : scan'[u] = IF u = t THEN new ELSE scan[u]
    BY <2>3
  <2> HIDE DEF new
  <2>6. scan' \in [Tabs -> Scan \cup {Idle}]
    BY <2>3, <2>4
  <2>7. new.pc \in {"lookup", "record"}
    BY <2>4 DEF Scan
  <2> QED
    BY <2>4, <2>5, <2>6, <2>7 DEF Present
<1>7. CASE \E t \in Tabs : LookUp(t) \/ LookUpFails(t)
  <2> PICK t \in Tabs : LookUp(t) \/ LookUpFails(t)
    BY <1>7
  <2>1. scan[t] \in Scan
    BY DEF LookUp, LookUpFails, Idle
  <2>2. /\ scan' \in [Tabs -> Scan \cup {Idle}]
        /\ scan'[t].pc = "record" /\ scan'[t].result \in Results
        /\ \A u \in Tabs \ {t} : scan'[u] = scan[u]
    BY <2>1 DEF LookUp, LookUpFails, Scan, Results
  <2> QED
    BY <2>2 DEF LookUp, LookUpFails
<1>8. CASE \E t \in Tabs : CloseTab(t)
  BY <1>8 DEF CloseTab, Idle
<1>9. CASE \E t \in Tabs, i \in Ids, s \in 1 .. Cardinality(Ids), at \in Times : RecordScan(t, i, s, at)
  <2> PICK t \in Tabs, i \in Ids, s \in 1 .. Cardinality(Ids), at \in Times : RecordScan(t, i, s, at)
    BY <1>9
  <2>1. scan[t] \in Scan /\ scan[t].result \in Results
    BY DEF RecordScan, Idle
  <2>2. s \in Nat /\ at \in 0 .. MaxTime
    BY FS_CardinalityType DEF Times
  <2>3. IsQueue(rows')
    BY <2>1, <2>2 DEF RecordScan, IsQueue, Row, Scan
  <2>4. born' \in [Ids -> Nat]
    <3>1. 1 + Cardinality({j \in Ids : born[j] # 0}) \in Nat
      BY FS_Subset, FS_CardinalityType
    <3> QED
      BY <3>1 DEF RecordScan
  <2>5. /\ scan' \in [Tabs -> Scan \cup {Idle}]
        /\ \A u \in Tabs : scan'[u] = scan[u] \/ scan'[u] = Idle
    BY DEF RecordScan
  <2> QED
    BY <2>3, <2>4, <2>5 DEF RecordScan, Idle
<1>10. CASE \E b \in wire : Deliver(b)
  <2> PICK b \in wire : Deliver(b)
    BY <1>10
  <2>1. PICK winner \in [Tickets -> Ids \cup {Elsewhere, Nobody}] :
          server' = [server EXCEPT
            !.applied = @ \cup DOMAIN b.claims,
            !.winner = winner,
            !.now = IF winner = server.winner THEN @ ELSE @ + 1,
            !.admitted = [k \in Tickets |-> IF winner[k] = server.winner[k] THEN @[k]
                                              ELSE server.now + 1]]
    BY DEF Deliver
  <2>2. DOMAIN b.claims \subseteq Ids
    BY DEF IsQueue
  <2>3. server' \in Server
    <3> DEFINE admitted == [k \in Tickets |-> IF winner[k] = server.winner[k]
                                               THEN server.admitted[k] ELSE server.now + 1]
               now == IF winner = server.winner THEN server.now ELSE server.now + 1
    <3>1. server' = [applied |-> server.applied \cup DOMAIN b.claims, winner |-> winner,
                     now |-> now, admitted |-> admitted, revoked |-> server.revoked]
      BY <2>1 DEF Server
    <3>2. now \in Nat /\ admitted \in [Tickets -> Nat]
      BY DEF Server
    <3>3. server.applied \cup DOMAIN b.claims \in SUBSET Ids /\ server.revoked \in [Tickets -> Nat]
      BY <2>2 DEF Server
    <3> HIDE DEF now, admitted
    <3> QED
      BY <3>1, <3>2, <3>3 DEF Server
  <2>4. \A c \in wire' : c \in wire \/ (c.claims = b.claims /\ c.delivered = TRUE /\ Batch(c))
    BY DEF Deliver, Batch
  <2> QED
    BY <2>3, <2>4 DEF Deliver
<1>11. CASE \E b \in wire : MarkSynced(b)
  <2> PICK b \in wire : MarkSynced(b)
    BY <1>11
  <2>1. \A row \in Row : [row EXCEPT !.synced = TRUE] \in Row
    BY DEF Row
  <2>2. DOMAIN rows' = DOMAIN rows /\ rows' \in [DOMAIN rows -> Row]
    BY <2>1 DEF MarkSynced, IsQueue
  <2>3. IsQueue(rows')
    BY <2>2 DEF IsQueue
  <2> QED
    BY <2>3 DEF MarkSynced
<1>12. CASE \E k \in Tickets : OtherGateAdmits(k) \/ Revoke(k)
  <2> PICK k \in Tickets : OtherGateAdmits(k) \/ Revoke(k)
    BY <1>12
  <2>1. server' = [applied |-> server.applied, winner |-> server'.winner, now |-> server.now + 1,
                   admitted |-> server'.admitted, revoked |-> server'.revoked]
    BY DEF OtherGateAdmits, Revoke, Server
  <2>2. /\ server'.winner \in [Tickets -> Ids \cup {Elsewhere, Nobody}]
        /\ server'.admitted \in [Tickets -> Nat] /\ server'.revoked \in [Tickets -> Nat]
    <3>1. CASE OtherGateAdmits(k)
      BY <3>1 DEF OtherGateAdmits, Server
    <3>2. CASE Revoke(k)
      BY <3>2 DEF Revoke, Server
    <3> QED
      BY <3>1, <3>2
  <2>3. server.applied \in SUBSET Ids /\ server.now + 1 \in Nat
    BY DEF Server
  <2>4. server' \in Server
    BY <2>1, <2>2, <2>3 DEF Server
  <2> QED
    BY <2>4 DEF OtherGateAdmits, Revoke
<1>13. CASE UNCHANGED vars
  BY <1>13 DEF vars
<1> QED
  BY <1>1, <1>2, <1>3, <1>4, <1>5, <1>6, <1>7, <1>8, <1>9, <1>10, <1>11, <1>12, <1>13 DEF Next

\* The database, the gates and the messages keep their types: in particular every verdict
\* that is recorded is about a ticket of the system, or about none.
THEOREM ScannerTypes == Spec => []TypeOK
<1>1. Spec => []Typed
  BY InitTyped, NextTyped, PTL DEF Spec
<1> QED
  BY <1>1, PTL DEF Typed

-----------------------------------------------------------------------------
\* An answer comes after the server has applied the batch.
Reached ==
  /\ SyncedScansReachedTheServer
  /\ \A b \in wire : b.delivered => DOMAIN b.claims \subseteq server.applied

LEMMA NextReached == Typed /\ Reached /\ [Next]_vars => Reached'
<1> SUFFICES ASSUME Typed, Reached, [Next]_vars PROVE Reached'
  OBVIOUS
<1> USE DEF Reached, SyncedScansReachedTheServer
<1>1. CASE Upgrade
  <2>1. \A i \in DOMAIN rows : rows'[i].synced = rows[i].synced
    BY <1>1 DEF Upgrade, Typed, TypeOK, IsQueue, Row
  <2> QED
    BY <1>1, <2>1 DEF Upgrade
<1>2. CASE \E e \in Events : DeleteBundle(e)
  BY <1>2 DEF DeleteBundle
<1>3. CASE \E e \in Events : SendBatch(e)
  BY <1>3 DEF SendBatch
<1>4. CASE \E t \in Tabs, i \in Ids, s \in 1 .. Cardinality(Ids), at \in Times : RecordScan(t, i, s, at)
  <2> PICK t \in Tabs, i \in Ids, s \in 1 .. Cardinality(Ids), at \in Times : RecordScan(t, i, s, at)
    BY <1>4
  <2>1. /\ DOMAIN rows' = DOMAIN rows \cup {i} /\ ~rows'[i].synced
        /\ \A j \in DOMAIN rows \ {i} : rows'[j] = rows[j]
    BY DEF RecordScan
  <2>2. \A j \in DOMAIN rows \ {i} : born'[j] = born[j]
    BY DEF RecordScan, Typed, TypeOK, IsQueue
  <2> QED
    BY <2>1, <2>2 DEF RecordScan
<1>5. CASE \E b \in wire : Deliver(b)
  <2> PICK b \in wire : Deliver(b)
    BY <1>5
  <2>1. server'.applied = server.applied \cup DOMAIN b.claims
    BY DEF Deliver, Typed, Server
  <2>2. \A c \in wire' : c \in wire \/ c.claims = b.claims
    BY DEF Deliver, Typed, Batch
  <2>3. \A i \in DOMAIN rows : rows'[i] = rows[i] /\ born'[i] = born[i]
    BY DEF Deliver
  <2> QED
    BY <2>1, <2>2, <2>3 DEF Deliver
<1>6. CASE \E b \in wire : MarkSynced(b)
  <2> PICK b \in wire : MarkSynced(b)
    BY <1>6
  <2>1. \A i \in DOMAIN rows' : i \in DOMAIN rows /\ (i \in DOMAIN b.claims \/ rows'[i] = rows[i])
    BY DEF MarkSynced
  <2> QED
    BY <2>1 DEF MarkSynced
<1>7. CASE UNCHANGED <<rows, born, wire, server>>
  BY <1>7
<1>8. CASE \E k \in Tickets : OtherGateAdmits(k) \/ Revoke(k)
  BY <1>8 DEF OtherGateAdmits, Revoke, Typed, Server
<1> QED
  BY <1>1, <1>2, <1>3, <1>4, <1>5, <1>6, <1>7, <1>8
  DEF Next, vars, SaveBundle, LoadBundle, Present, LookUp, LookUpFails, CloseTab

\* A scan is marked as sent only when the server has it: answers that are lost, late or
\* repeated, and bundles deleted meanwhile, never hide a scan from the server.
THEOREM SentScansReached == Spec => []SyncedScansReachedTheServer
<1>1. Init => Reached
  BY LegacyAssumption DEF Init, Reached, SyncedScansReachedTheServer, IsQueue
<1>2. Spec => []Reached
  BY <1>1, InitTyped, NextTyped, NextReached, PTL DEF Spec
<1> QED
  BY <1>2, PTL DEF Reached

-----------------------------------------------------------------------------
\* What a tab is about to record is signed too.
SignedOnly ==
  /\ RecordedTicketsWereSigned
  /\ \A t \in Tabs : scan[t].ticket \in Signed \cup {NoTicket}

LEMMA VerdictSigned ==
  ASSUME NEW tok \in Presented, NEW event, NEW bundle, NEW now
  PROVE  Examine(tok, event, bundle, now).ticket \in Signed \cup {NoTicket}
<1>1. CASE VerifyWithRing(tok, Keys, now) = "verified"
  <2>1. tok.kid \in DOMAIN Keys /\ tok.signer = Keys[tok.kid]
    BY <1>1 DEF VerifyWithRing, VerifyCapability
  <2>2. tok.tid \in Signed
    BY <2>1 DEF Signed
  <2> QED
    BY <2>2 DEF Examine, Verdict
<1>2. CASE VerifyWithRing(tok, Keys, now) # "verified"
  BY <1>2 DEF Examine, Verdict
<1> QED
  BY <1>1, <1>2

LEMMA NextSigned == Typed /\ SignedOnly /\ [Next]_vars => SignedOnly'
<1> SUFFICES ASSUME Typed, SignedOnly, [Next]_vars PROVE SignedOnly'
  OBVIOUS
<1> USE DEF SignedOnly, RecordedTicketsWereSigned
<1>1. CASE Upgrade
  <2>1. \A i \in DOMAIN rows : rows'[i].ticket = rows[i].ticket
    BY <1>1 DEF Upgrade, Typed, TypeOK, IsQueue, Row
  <2> QED
    BY <1>1, <2>1 DEF Upgrade
<1>2. CASE \E e \in Events : DeleteBundle(e)
  BY <1>2 DEF DeleteBundle
<1>3. CASE \E t \in Tabs, tok \in Presented, now \in Times : Present(t, tok, now)
  <2> PICK t \in Tabs, tok \in Presented, now \in Times : Present(t, tok, now)
    BY <1>3
  <2>1. scan'[t].ticket = Examine(tok, gate[t].event, gate[t].bundle, now).ticket
    BY DEF Present, Typed
  <2>2. scan'[t].ticket \in Signed \cup {NoTicket}
    BY <2>1, VerdictSigned
  <2>3. \A u \in Tabs \ {t} : scan'[u] = scan[u]
    BY DEF Present, Typed
  <2> QED
    BY <2>2, <2>3 DEF Present
<1>4. CASE \E t \in Tabs : LookUp(t) \/ LookUpFails(t)
  <2> PICK t \in Tabs : LookUp(t) \/ LookUpFails(t)
    BY <1>4
  <2>1. scan[t] \in Scan
    BY DEF Typed, LookUp, LookUpFails, Idle
  <2>2. scan'[t].ticket \in {scan[t].ticket, NoTicket}
    BY <2>1 DEF LookUp, LookUpFails, Typed, Scan
  <2>3. \A u \in Tabs \ {t} : scan'[u] = scan[u]
    BY DEF LookUp, LookUpFails, Typed
  <2> QED
    BY <2>2, <2>3 DEF LookUp, LookUpFails
<1>5. CASE \E t \in Tabs : CloseTab(t)
  <2> PICK t \in Tabs : CloseTab(t)
    BY <1>5
  <2>1. \A u \in Tabs : scan'[u] = scan[u] \/ scan'[u].ticket = NoTicket
    BY DEF CloseTab, Typed, Idle
  <2> QED
    BY <2>1 DEF CloseTab
<1>6. CASE \E t \in Tabs, i \in Ids, s \in 1 .. Cardinality(Ids), at \in Times : RecordScan(t, i, s, at)
  <2> PICK t \in Tabs, i \in Ids, s \in 1 .. Cardinality(Ids), at \in Times : RecordScan(t, i, s, at)
    BY <1>6
  <2>1. /\ DOMAIN rows' = DOMAIN rows \cup {i} /\ rows'[i].ticket = scan[t].ticket
        /\ \A j \in DOMAIN rows \ {i} : rows'[j] = rows[j] /\ born'[j] = born[j]
    BY DEF RecordScan, Typed, TypeOK, IsQueue
  <2>2. \A u \in Tabs : scan'[u] = scan[u] \/ scan'[u].ticket = NoTicket
    BY DEF RecordScan, Typed, Idle
  <2> QED
    BY <2>1, <2>2
<1>7. CASE \E b \in wire : MarkSynced(b)
  <2>1. /\ DOMAIN rows' = DOMAIN rows /\ \A i \in DOMAIN rows : rows'[i].ticket = rows[i].ticket
        /\ UNCHANGED <<born, scan>>
    BY <1>7 DEF MarkSynced, Typed, TypeOK, IsQueue, Row
  <2> QED
    BY <2>1
<1>8. CASE UNCHANGED <<rows, born, scan>>
  BY <1>8
<1> QED
  BY <1>1, <1>2, <1>3, <1>4, <1>5, <1>6, <1>7, <1>8
  DEF Next, vars, SaveBundle, LoadBundle, SendBatch, Deliver, OtherGateAdmits, Revoke

\* Whatever is held to the camera, only ids that a key of the bundle signed are recorded.
THEOREM OnlySignedTicketsAreRecorded == Spec => []RecordedTicketsWereSigned
<1>1. Init => SignedOnly
  BY LegacyAssumption DEF Init, SignedOnly, RecordedTicketsWereSigned, IsQueue, Idle
<1>2. Spec => []SignedOnly
  BY <1>1, InitTyped, NextTyped, NextSigned, PTL DEF Spec
<1> QED
  BY <1>2, PTL DEF SignedOnly

-----------------------------------------------------------------------------
\* Rows before each other get smaller numbers: the order on legacy rows is strict and total.
LEMMA RankFollowsOrder ==
  ASSUME IsQueue(rows)
  PROVE  /\ \A i, j \in DOMAIN rows : LegacyBefore(rows, i, j) => Rank(i) < Rank(j)
         /\ \A i, j \in DOMAIN rows : i # j => LegacyBefore(rows, i, j) \/ LegacyBefore(rows, j, i)
<1>1. /\ DOMAIN rows \subseteq Nat /\ IsFiniteSet(DOMAIN rows)
      /\ \A i \in DOMAIN rows : rows[i].at \in Nat
  BY ScannerAssumption, FS_Subset DEF IsQueue, Row
<1>2. ASSUME NEW i \in DOMAIN rows, NEW j \in DOMAIN rows, LegacyBefore(rows, i, j)
      PROVE  Rank(i) < Rank(j)
  <2> DEFINE before(k) == {l \in DOMAIN rows : LegacyBefore(rows, l, k)}
  <2>1. before(i) \subseteq before(j) /\ i \in before(j) /\ i \notin before(i)
    BY <1>1, <1>2 DEF LegacyBefore, Unparsable
  <2>2. IsFiniteSet(before(j)) /\ Cardinality(before(j)) \in Nat
    BY <1>1, FS_Subset, FS_CardinalityType
  <2> HIDE DEF before
  <2>3. IsFiniteSet(before(i)) /\ Cardinality(before(i)) \in Nat
    BY <2>1, <2>2, FS_Subset, FS_CardinalityType
  <2>4. Cardinality(before(i)) <= Cardinality(before(j)) /\ Cardinality(before(i)) # Cardinality(before(j))
    BY <2>1, <2>2, FS_Subset
  <2> QED
    BY <2>2, <2>3, <2>4 DEF Rank, before
<1>3. \A i, j \in DOMAIN rows : i # j => LegacyBefore(rows, i, j) \/ LegacyBefore(rows, j, i)
  BY <1>1 DEF LegacyBefore, Unparsable
<1> QED
  BY <1>2, <1>3

Recorded == {i \in Ids : born[i] # 0}

\* Before the migration nothing is recorded or sent; afterwards every row is numbered, and
\* born counts the rows that were recorded.
Recording ==
  /\ \A i \in Ids : born[i] <= Cardinality(Recorded)
  /\ \A i \in LegacyIds : i \in Ids => born[i] = 0
  /\ \A i \in DOMAIN rows : born[i] # 0 \/ i \in LegacyIds
  /\ version = 1 =>
       /\ Recorded = {} /\ wire = {}
       /\ \A e \in Events : bundles[e] = NoBundle
       /\ \A t \in Tabs : gate[t] = NoBundle /\ scan[t] = Idle
  /\ SeqFollowsRecording

LEMMA NextRecording == Typed /\ Recording /\ [Next]_vars => Recording'
<1> SUFFICES ASSUME Typed, Recording, [Next]_vars PROVE Recording'
  OBVIOUS
<1> USE DEF Recording, SeqFollowsRecording
<1>0. /\ \A i \in Ids : born[i] \in Nat
      /\ IsFiniteSet(Recorded) /\ Cardinality(Recorded) \in Nat
      /\ \A i \in Ids : born[i] <= Cardinality(Recorded)
  <2>1. IsFiniteSet(Recorded) /\ Cardinality(Recorded) \in Nat
    BY ScannerAssumption, FS_Subset, FS_CardinalityType DEF Recorded
  <2> QED
    BY <2>1 DEF Typed, TypeOK
<1>1. CASE Upgrade
  <2>1. DOMAIN rows' = DOMAIN rows /\ \A i \in DOMAIN rows : rows'[i].seq = Rank(i)
    <3>1. rows' = [i \in DOMAIN rows |-> [rows[i] EXCEPT !.seq = Rank(i)]]
      BY <1>1 DEF Upgrade, Rank
    <3>2. \A i \in DOMAIN rows : rows[i] \in Row
      BY DEF Typed, TypeOK, IsQueue
    <3> QED
      BY <3>1, <3>2 DEF Row
  <2>2. \A i \in DOMAIN rows : Rank(i) \in Nat \ {0}
    BY RankIsPositive DEF Typed, TypeOK
  <2>3. \A i, j \in DOMAIN rows : i # j => Rank(i) # Rank(j)
    BY <2>2, RankFollowsOrder DEF Typed, TypeOK
  <2>4. \A i \in DOMAIN rows : born[i] = 0
    BY <1>1 DEF Upgrade, Recorded, Typed, TypeOK, IsQueue
  <2>5. SeqFollowsRecording'
    <3>1. \A i \in DOMAIN rows' : born'[i] = 0 /\ rows'[i].seq = Rank(i) /\ i \in DOMAIN rows
      BY <1>1, <2>1, <2>4 DEF Upgrade
    <3>2. \A i \in DOMAIN rows' : rows'[i].seq # Unsequenced /\ ~(0 < 0)
      BY <2>2, <3>1 DEF Unsequenced
    <3>3. \A i, j \in DOMAIN rows' : i # j => rows'[i].seq # rows'[j].seq
      BY <2>3, <3>1
    <3> QED
      BY <3>1, <3>2, <3>3
  <2> QED
    BY <1>1, <2>1, <2>5 DEF Upgrade, Recorded
<1>2. CASE \E e \in Events : DeleteBundle(e)
  BY <1>2 DEF DeleteBundle, Recorded
<1>3. CASE \E e \in Doors : SaveBundle(e) \/ \E t \in Tabs : LoadBundle(t, e)
  BY <1>3 DEF SaveBundle, LoadBundle, Recorded
<1>4. CASE \E e \in Events : SendBatch(e)
  BY <1>4 DEF SendBatch, Recorded
<1>5. CASE \E t \in Tabs, tok \in Presented, now \in Times : Present(t, tok, now)
  BY <1>5 DEF Present, Recorded, Typed, TypeOK
<1>6. CASE \E t \in Tabs : LookUp(t) \/ LookUpFails(t) \/ CloseTab(t)
  <2>1. version = 2
    BY <1>6 DEF LookUp, LookUpFails, CloseTab, Idle, Typed, TypeOK
  <2> QED
    BY <1>6, <2>1 DEF LookUp, LookUpFails, CloseTab, Recorded
<1>7. CASE \E t \in Tabs, i \in Ids, s \in 1 .. Cardinality(Ids), at \in Times : RecordScan(t, i, s, at)
  <2> PICK t \in Tabs, i \in Ids, s \in 1 .. Cardinality(Ids), at \in Times : RecordScan(t, i, s, at)
    BY <1>7
  <2>1. version = 2 /\ version' = 2
    BY DEF RecordScan, Idle, Typed, TypeOK
  <2>2. i \notin DOMAIN rows /\ born[i] = 0 /\ i \notin LegacyIds
    BY DEF RecordScan
  <2>3. born' = [born EXCEPT ![i] = 1 + Cardinality(Recorded)] /\ DOMAIN born = Ids
    BY DEF RecordScan, Recorded, Typed, TypeOK
  <2>4. Recorded' = Recorded \cup {i} /\ Cardinality(Recorded') = Cardinality(Recorded) + 1
    <3>1. Recorded' = Recorded \cup {i} /\ i \notin Recorded
      BY <1>0, <2>2, <2>3 DEF Recorded
    <3> QED
      BY <1>0, <3>1, FS_AddElement
  <2>5. \A j \in Ids : born'[j] = IF j = i THEN 1 + Cardinality(Recorded) ELSE born[j]
    BY <2>3
  <2>6. /\ DOMAIN rows' = DOMAIN rows \cup {i} /\ rows'[i].seq = s
        /\ \A j \in DOMAIN rows : rows'[j] = rows[j]
    BY <2>2 DEF RecordScan
  <2>7. \A j \in DOMAIN rows : rows[j].seq < s /\ rows[j].seq \in Nat
    BY DEF RecordScan, IsNextSeq, Typed, TypeOK, IsQueue, Row
  <2>8. s \in Nat \ {0}
    BY ScannerAssumption, FS_CardinalityType
  <2>9. DOMAIN rows \subseteq Ids
    BY DEF Typed, TypeOK, IsQueue
  <2>10. \A j \in Ids : born[j] < 1 + Cardinality(Recorded)
    BY <1>0
  <2>16. ASSUME NEW j \in DOMAIN rows PROVE j # i /\ born'[j] = born[j] /\ born'[j] <= Cardinality(Recorded)
    BY <1>0, <2>2, <2>5, <2>9
  <2>17. SeqFollowsRecording
    OBVIOUS
  <2> HIDE DEF Recording
  <2>11. ASSUME NEW j \in DOMAIN rows', NEW k \in DOMAIN rows'
         PROVE  /\ rows'[j].seq # Unsequenced
                /\ j # k => rows'[j].seq # rows'[k].seq
                /\ born'[j] < born'[k] => rows'[j].seq < rows'[k].seq
    <3>1. CASE j \in DOMAIN rows /\ k \in DOMAIN rows
      BY <2>1, <2>6, <2>16, <2>17, <3>1
    <3>2. CASE j = i /\ k \in DOMAIN rows
      <4>1. ~(born'[j] < born'[k])
        <5>1. born'[j] = 1 + Cardinality(Recorded) /\ born'[k] <= Cardinality(Recorded) /\ born'[k] \in Nat
          BY <1>0, <2>5, <2>9, <2>16, <3>2
        <5> QED
          BY <1>0, <5>1
      <4> QED
        BY <2>2, <2>6, <2>7, <2>8, <3>2, <4>1 DEF Unsequenced
    <3>3. CASE j \in DOMAIN rows /\ k = i
      <4>1. rows'[j].seq # Unsequenced
        BY <2>1, <2>6, <2>17, <3>3
      <4>2. rows'[j].seq < rows'[k].seq /\ rows'[j].seq \in Nat
        BY <2>6, <2>7, <3>3
      <4> QED
        BY <2>6, <2>8, <3>3, <4>1, <4>2
    <3>4. CASE j = i /\ k = i
      <4>1. ~(born'[j] < born'[k])
        BY <1>0, <2>5, <3>4
      <4> QED
        BY <2>6, <2>8, <3>4, <4>1 DEF Unsequenced
    <3> QED
      BY <2>6, <3>1, <3>2, <3>3, <3>4
  <2>12. \A j \in Ids : born'[j] <= Cardinality(Recorded')
    <3>1. ASSUME NEW j \in Ids PROVE born'[j] <= 1 + Cardinality(Recorded)
      <4>1. CASE j = i
        BY <1>0, <2>5, <4>1
      <4>2. CASE j # i
        BY <1>0, <2>5, <2>10, <4>2
      <4> QED
        BY <4>1, <4>2
    <3> QED
      BY <1>0, <2>4, <3>1
  <2>13. SeqFollowsRecording'
    BY <2>11
  <2> USE DEF Recording
  <2>14. ASSUME NEW j \in DOMAIN rows' PROVE born'[j] # 0 \/ j \in LegacyIds
    <3>1. CASE j = i
      BY <1>0, <2>5, <3>1
    <3>2. CASE j \in DOMAIN rows /\ j # i
      BY <2>5, <2>9, <3>2
    <3> QED
      BY <2>6, <3>1, <3>2
  <2>15. \A j \in LegacyIds : j \in Ids => born'[j] = 0
    BY <2>2, <2>5
  <2> HIDE DEF SeqFollowsRecording
  <2> QED
    BY <2>1, <2>12, <2>13, <2>14, <2>15
<1>8. CASE \E b \in wire : Deliver(b)
  BY <1>8 DEF Deliver, Recorded
<1>9. CASE \E b \in wire : MarkSynced(b)
  <2>1. DOMAIN rows' = DOMAIN rows /\ \A i \in DOMAIN rows : rows'[i].seq = rows[i].seq
    BY <1>9 DEF MarkSynced, Typed, TypeOK, IsQueue, Row
  <2>2. UNCHANGED <<version, bundles, gate, scan, wire, born>>
    BY <1>9 DEF MarkSynced
  <2> QED
    BY <2>1, <2>2 DEF Recorded
<1>10. CASE \E k \in Tickets : OtherGateAdmits(k) \/ Revoke(k)
  BY <1>10 DEF OtherGateAdmits, Revoke, Recorded
<1>11. CASE UNCHANGED vars
  BY <1>11 DEF vars, Recorded
<1> QED
  BY <1>1, <1>2, <1>3, <1>4, <1>5, <1>6, <1>7, <1>8, <1>9, <1>10, <1>11 DEF Next

LEMMA InitRecording == Init => Recording
<1> SUFFICES ASSUME Init PROVE Recording
  OBVIOUS
<1>1. Recorded = {} /\ \A i \in Ids : born[i] = 0
  BY DEF Init, Recorded
<1>2. Cardinality(Recorded) = 0
  BY <1>1, FS_EmptySet
<1>3. DOMAIN rows \subseteq LegacyIds
  BY DEF Init, LegacyIds
<1> QED
  BY <1>1, <1>2, <1>3 DEF Init, Recording, SeqFollowsRecording

\* Sequence numbers follow the order of the recordings for any number of tabs and whatever
\* the clocks say: the migration and nextSeq, each in one transaction, never collide.
THEOREM NumbersFollowRecording == Spec => []SeqFollowsRecording
<1>1. Spec => []Recording
  BY InitTyped, NextTyped, InitRecording, NextRecording, PTL DEF Spec
<1> QED
  BY <1>1, PTL DEF Recording

-----------------------------------------------------------------------------
\* A batch carries rows that were recorded or migrated, so that born no longer changes there.
Sent ==
  /\ UploadsFollowRecording
  /\ \A b \in wire : \A i \in DOMAIN b.claims : born[i] # 0 \/ i \in LegacyIds

LEMMA NextSent == Typed /\ Recording /\ Sent /\ [Next]_vars => Sent'
<1> SUFFICES ASSUME Typed, Recording, Sent, [Next]_vars PROVE Sent'
  OBVIOUS
<1>1. CASE \E e \in Events : SendBatch(e)
  <2> PICK e \in Events : SendBatch(e)
    BY <1>1
  <2> DEFINE claims == [i \in PendingOf(e) |-> rows[i]]
  <2>1. /\ DOMAIN claims \subseteq DOMAIN rows /\ \A i \in DOMAIN claims : claims[i] = rows[i]
        /\ DOMAIN rows \subseteq Ids /\ \A i \in DOMAIN rows : rows[i].seq \in Nat
    BY DEF PendingOf, Typed, TypeOK, IsQueue, Row
  <2>2. \A i, j \in DOMAIN claims :
          born[i] < born[j] => Precedes(claims, i, j) /\ ~Precedes(claims, j, i)
    <3>1. SeqFollowsRecording /\ version = 2
      BY DEF Recording, SendBatch
    <3> TAKE i \in DOMAIN claims, j \in DOMAIN claims
    <3> HIDE DEF claims
    <3>2. /\ claims[i].seq # 0 /\ claims[j].seq # 0
          /\ claims[i].seq \in Nat /\ claims[j].seq \in Nat
          /\ born[i] < born[j] => claims[i].seq < claims[j].seq
      BY <2>1, <3>1 DEF SeqFollowsRecording, Unsequenced
    <3> QED
      BY <3>2 DEF Precedes, Unsequenced
  <2>3. \A i \in DOMAIN claims : born[i] # 0 \/ i \in LegacyIds
    BY <2>1 DEF Recording
  <2>4. /\ \A c \in wire' : c \in wire \/ c.claims = claims
        /\ born' = born
    BY DEF SendBatch
  <2> HIDE DEF claims
  <2> QED
    BY <2>2, <2>3, <2>4 DEF Sent, UploadsFollowRecording
<1>2. CASE \E b \in wire : Deliver(b)
  <2>1. /\ \A c \in wire' : \E b \in wire : c.claims = b.claims
        /\ born' = born
    BY <1>2 DEF Deliver, Typed, Batch
  <2> QED
    BY <2>1 DEF Sent, UploadsFollowRecording
<1>3. CASE \E t \in Tabs, i \in Ids, s \in 1 .. Cardinality(Ids), at \in Times : RecordScan(t, i, s, at)
  <2> PICK t \in Tabs, i \in Ids, s \in 1 .. Cardinality(Ids), at \in Times : RecordScan(t, i, s, at)
    BY <1>3
  <2>1. ASSUME NEW b \in wire, NEW j \in DOMAIN b.claims
        PROVE  born'[j] = born[j]
    <3>1. j # i /\ j \in Ids
      BY DEF Sent, RecordScan, Typed, TypeOK, IsQueue
    <3> QED
      BY <3>1 DEF RecordScan, Typed, TypeOK
  <2>2. wire' = wire
    BY DEF RecordScan
  <2> QED
    BY <2>1, <2>2 DEF Sent, UploadsFollowRecording
<1>4. CASE UNCHANGED <<wire, born>>
  BY <1>4 DEF Sent, UploadsFollowRecording
<1> QED
  BY <1>1, <1>2, <1>3, <1>4
  DEF Next, vars, Upgrade, SaveBundle, LoadBundle, DeleteBundle, Present, LookUp, LookUpFails,
      CloseTab, MarkSynced, OtherGateAdmits, Revoke

\* Every upload lists the scans of its event in the order in which they were made, although
\* clocks went back, ids are random and other tabs recorded meanwhile.
THEOREM UploadsAreInOrder == Spec => []UploadsFollowRecording
<1>1. Init => Sent
  BY DEF Init, Sent, UploadsFollowRecording
<1>2. Spec => []Sent
  BY <1>1, InitTyped, NextTyped, InitRecording, NextRecording, NextSent, PTL DEF Spec
<1> QED
  BY <1>2, PTL DEF Sent

-----------------------------------------------------------------------------
\* What ScansAreNotRewritten says of one step.
KeepsScans ==
  \A i \in DOMAIN rows \cap DOMAIN rows' :
    /\ [rows[i] EXCEPT !.seq = 0, !.synced = FALSE] = [rows'[i] EXCEPT !.seq = 0, !.synced = FALSE]
    /\ rows[i].synced => rows'[i].synced
    /\ rows[i].seq # rows'[i].seq => version = 1
    /\ version' # version => DOMAIN rows \subseteq DOMAIN rows'
    /\ version' # version => \A j \in DOMAIN rows :
         /\ rows[i].at # Unparsable
         /\ rows[j].at = Unparsable \/ rows[i].at < rows[j].at
         => rows'[i].seq < rows'[j].seq

LEMMA StepsKeepScans == Typed /\ Recording /\ [Next]_vars => KeepsScans
<1> SUFFICES ASSUME Typed, Recording, [Next]_vars PROVE KeepsScans
  OBVIOUS
<1>0. \A i \in DOMAIN rows : rows[i] \in Row
  BY DEF Typed, TypeOK, IsQueue
<1>1. CASE Upgrade
  <2>1. rows' = [i \in DOMAIN rows |-> [rows[i] EXCEPT !.seq = Rank(i)]]
    BY <1>1 DEF Upgrade, Rank
  <2>2. \A i \in DOMAIN rows :
          /\ rows'[i].seq = Rank(i) /\ rows'[i].synced = rows[i].synced
          /\ [rows[i] EXCEPT !.seq = 0, !.synced = FALSE] = [rows'[i] EXCEPT !.seq = 0, !.synced = FALSE]
    BY <1>0, <2>1 DEF Row
  <2>3. \A i, j \in DOMAIN rows :
          /\ rows[i].at # Unparsable
          /\ rows[j].at = Unparsable \/ rows[i].at < rows[j].at
          => Rank(i) < Rank(j)
    BY RankFollowsOrder DEF LegacyBefore, Typed, TypeOK
  <2>4. DOMAIN rows' = DOMAIN rows /\ version = 1
    BY <1>1, <2>1 DEF Upgrade
  <2> QED
    BY <2>2, <2>3, <2>4 DEF KeepsScans
<1>2. CASE \E b \in wire : MarkSynced(b)
  <2> PICK b \in wire : MarkSynced(b)
    BY <1>2
  <2>1. \A i \in DOMAIN rows : rows'[i] = rows[i] \/ rows'[i] = [rows[i] EXCEPT !.synced = TRUE]
    BY DEF MarkSynced
  <2>2. \A row \in Row : LET new == [row EXCEPT !.synced = TRUE] IN
          /\ [row EXCEPT !.seq = 0, !.synced = FALSE] = [new EXCEPT !.seq = 0, !.synced = FALSE]
          /\ new.synced /\ new.seq = row.seq
    BY DEF Row
  <2>3. version' = version
    BY DEF MarkSynced
  <2> QED
    <3>1. \A i \in DOMAIN rows :
            /\ [rows[i] EXCEPT !.seq = 0, !.synced = FALSE]
                 = [rows'[i] EXCEPT !.seq = 0, !.synced = FALSE]
            /\ rows[i].synced => rows'[i].synced
            /\ rows[i].seq = rows'[i].seq
      BY <1>0, <2>1, <2>2
    <3> QED
      BY <2>3, <3>1 DEF KeepsScans
<1>3. CASE \E t \in Tabs, i \in Ids, s \in 1 .. Cardinality(Ids), at \in Times : RecordScan(t, i, s, at)
  <2> PICK t \in Tabs, i \in Ids, s \in 1 .. Cardinality(Ids), at \in Times : RecordScan(t, i, s, at)
    BY <1>3
  <2>1. ASSUME NEW j \in DOMAIN rows PROVE rows'[j] = rows[j]
    <3>1. j # i
      BY DEF RecordScan, Recording
    <3> QED
      BY <3>1 DEF RecordScan
  <2>2. version' = version
    BY DEF RecordScan
  <2> QED
    BY <2>1, <2>2 DEF KeepsScans
<1>4. CASE \E e \in Events : DeleteBundle(e)
  BY <1>4 DEF DeleteBundle, KeepsScans
<1>5. CASE UNCHANGED <<rows, version>>
  BY <1>5 DEF KeepsScans
<1> QED
  BY <1>1, <1>2, <1>3, <1>4, <1>5
  DEF Next, vars, SaveBundle, LoadBundle, SendBatch, Present, LookUp, LookUpFails,
      CloseTab, Deliver, OtherGateAdmits, Revoke

\* The migration only adds numbers to the queued scans, in the order of the clock where it
\* can be read, and nothing changes a scan afterwards except that it is marked as sent.
THEOREM QueuedScansAreKept == Spec => ScansAreNotRewritten
<1>1. Spec => [](Typed /\ Recording)
  BY InitTyped, NextTyped, InitRecording, NextRecording, PTL DEF Spec
<1>2. Typed /\ Recording /\ [Next]_vars => [KeepsScans]_vars
  BY StepsKeepScans
<1>3. Spec => [][KeepsScans]_vars
  BY <1>1, <1>2, PTL DEF Spec
<1> QED
  BY <1>3 DEF ScansAreNotRewritten, KeepsScans

-----------------------------------------------------------------------------
\* One step changes the places of one event and ticket by at most one: a tab that may
\* admit becomes a row.
LEMMA AdmissionsAreBounded == Typed /\ Recording /\ AdmissionsPerTab /\ [Next]_vars => AdmissionsPerTab'
<1> SUFFICES ASSUME Typed, Recording, AdmissionsPerTab, [Next]_vars,
                    NEW e \in Events, NEW k \in Tickets
             PROVE  (Cardinality(AdmittedBy(e, k)) + Cardinality(Admitting(e, k)) <= Cardinality(Tabs))'
  BY DEF AdmissionsPerTab
<1> DEFINE A == AdmittedBy(e, k)
           B == Admitting(e, k)
<1>1. /\ IsFiniteSet(A) /\ IsFiniteSet(B) /\ IsFiniteSet(A') /\ IsFiniteSet(B')
      /\ Cardinality(A) \in Nat /\ Cardinality(B) \in Nat
      /\ Cardinality(A') \in Nat /\ Cardinality(B') \in Nat
      /\ Cardinality(B') <= Cardinality(Tabs) /\ Cardinality(Tabs) \in Nat
  <2>1. A \subseteq Ids /\ B \subseteq Tabs /\ A' \subseteq Ids /\ B' \subseteq Tabs
    BY NextTyped DEF AdmittedBy, Admitting, Typed, TypeOK, IsQueue
  <2> HIDE DEF A, B
  <2> QED
    BY <2>1, ScannerAssumption, FS_Subset, FS_CardinalityType
<1>2. Cardinality(A) + Cardinality(B) <= Cardinality(Tabs)
  BY DEF AdmissionsPerTab
<1>3. CASE A' \subseteq A /\ B' \subseteq B
  <2> HIDE DEF A, B
  <2>1. Cardinality(A') <= Cardinality(A) /\ Cardinality(B') <= Cardinality(B)
    BY <1>1, <1>3, FS_Subset
  <2> QED
    BY <1>1, <1>2, <2>1 DEF A, B
<1>4. CASE A' = {}
  <2>1. Cardinality(A') = 0
    BY <1>4, FS_EmptySet
  <2> QED
    BY <1>1, <2>1
<1>5. CASE \E t \in B, i \in Ids : i \notin A /\ A' = A \cup {i} /\ B' = B \ {t}
  <2> PICK t \in B, i \in Ids : i \notin A /\ A' = A \cup {i} /\ B' = B \ {t}
    BY <1>5
  <2> HIDE DEF A, B
  <2>1. Cardinality(A') = Cardinality(A) + 1 /\ Cardinality(B') = Cardinality(B) - 1
    BY <1>1, FS_AddElement, FS_RemoveElement
  <2> QED
    BY <1>1, <1>2, <2>1 DEF A, B
<1>6. CASE Upgrade
  <2>1. A' = {}
    BY <1>6 DEF Upgrade, AdmittedBy, Recording, Recorded, Typed, TypeOK, IsQueue
  <2> QED
    BY <1>4, <2>1
<1>7. CASE \E d \in Events : DeleteBundle(d)
  BY <1>3, <1>7 DEF DeleteBundle, AdmittedBy, Admitting
<1>8. CASE \E b \in wire : MarkSynced(b)
  <2>1. /\ DOMAIN rows' = DOMAIN rows /\ UNCHANGED <<scan, born>>
        /\ \A i \in DOMAIN rows : /\ rows'[i].event = rows[i].event /\ rows'[i].ticket = rows[i].ticket
                                  /\ rows'[i].result = rows[i].result
    BY <1>8 DEF MarkSynced, Typed, TypeOK, IsQueue, Row
  <2> QED
    BY <1>3, <2>1 DEF AdmittedBy, Admitting
<1>9. CASE \E t \in Tabs, tok \in Presented, now \in Times : Present(t, tok, now)
  <2> PICK t \in Tabs, tok \in Presented, now \in Times : Present(t, tok, now)
    BY <1>9
  <2>1. scan'[t].result # "admitted" /\ \A u \in Tabs \ {t} : scan'[u] = scan[u]
    BY VerdictTyped DEF Present, Typed, Gate, Idle
  <2>2. UNCHANGED <<rows, born>>
    BY DEF Present
  <2> QED
    BY <1>3, <2>1, <2>2 DEF AdmittedBy, Admitting
<1>10. CASE \E t \in Tabs : LookUp(t)
  <2> PICK t \in Tabs : LookUp(t)
    BY <1>10
  <2>1. /\ UNCHANGED <<rows, born>> /\ scan[t] \in Scan
        /\ \A u \in Tabs \ {t} : scan'[u] = scan[u]
    BY DEF LookUp, Typed, Idle
  <2>2. CASE WasAdmitted(scan[t].event, scan[t].ticket)
    <3>1. scan'[t].result = "duplicate"
      BY <2>1, <2>2 DEF LookUp, Typed, Scan
    <3> QED
      BY <1>3, <2>1, <3>1 DEF AdmittedBy, Admitting
  <2>3. CASE ~WasAdmitted(scan[t].event, scan[t].ticket)
    <3>1. scan'[t].event = scan[t].event /\ scan'[t].ticket = scan[t].ticket
      BY <2>1 DEF LookUp, Typed, Scan
    <3>2. CASE scan[t].event = e /\ scan[t].ticket = k
      BY <1>4, <2>1, <2>3, <3>2 DEF WasAdmitted, AdmittedBy
    <3>3. CASE ~(scan[t].event = e /\ scan[t].ticket = k)
      BY <1>3, <2>1, <3>1, <3>3 DEF AdmittedBy, Admitting
    <3> QED
      BY <3>2, <3>3
  <2> QED
    BY <2>2, <2>3
<1>11. CASE \E t \in Tabs : LookUpFails(t)
  <2> PICK t \in Tabs : LookUpFails(t)
    BY <1>11
  <2>1. /\ scan'[t].result = "invalid" /\ \A u \in Tabs \ {t} : scan'[u] = scan[u]
        /\ UNCHANGED <<rows, born>>
    BY DEF LookUpFails, Typed, Idle, Scan
  <2> QED
    BY <1>3, <2>1 DEF AdmittedBy, Admitting
<1>12. CASE \E t \in Tabs : CloseTab(t)
  <2>1. UNCHANGED <<rows, born>> /\ \A u \in Tabs : scan'[u] = scan[u] \/ scan'[u].pc = "idle"
    BY <1>12 DEF CloseTab, Typed, Idle
  <2> QED
    BY <1>3, <2>1 DEF AdmittedBy, Admitting
<1>13. CASE \E t \in Tabs, i \in Ids, s \in 1 .. Cardinality(Ids), at \in Times : RecordScan(t, i, s, at)
  <2> PICK t \in Tabs, i \in Ids, s \in 1 .. Cardinality(Ids), at \in Times : RecordScan(t, i, s, at)
    BY <1>13
  <2>1. /\ i \notin DOMAIN rows /\ DOMAIN rows' = DOMAIN rows \cup {i}
        /\ \A j \in DOMAIN rows : rows'[j] = rows[j] /\ born'[j] = born[j]
    BY DEF RecordScan, Recording, Typed, TypeOK, IsQueue
  <2>2. /\ rows'[i].event = scan[t].event /\ rows'[i].ticket = scan[t].ticket
        /\ rows'[i].result = scan[t].result
    BY DEF RecordScan
  <2>3. born'[i] # 0
    <3>1. Cardinality({j \in Ids : born[j] # 0}) \in Nat
      BY ScannerAssumption, FS_Subset, FS_CardinalityType
    <3> QED
      BY <3>1 DEF RecordScan, Typed, TypeOK
  <2>4. scan'[t].pc = "idle" /\ \A u \in Tabs \ {t} : scan'[u] = scan[u]
    BY DEF RecordScan, Typed, Idle
  <2>5. B' = B \ {t}
    BY <2>4 DEF Admitting
  <2>6. CASE t \in B
    <3>1. A' = A \cup {i} /\ i \notin A
      BY <2>1, <2>2, <2>3, <2>6 DEF AdmittedBy, Admitting
    <3> QED
      BY <1>5, <2>5, <2>6, <3>1
  <2>7. CASE t \notin B
    <3>1. A' \subseteq A
      BY <2>1, <2>2, <2>7 DEF AdmittedBy, Admitting, RecordScan
    <3> QED
      BY <1>3, <2>5, <3>1
  <2> QED
    BY <2>6, <2>7
<1>14. CASE UNCHANGED <<rows, born, scan>>
  BY <1>3, <1>14 DEF AdmittedBy, Admitting
<1> QED
  BY <1>6, <1>7, <1>8, <1>9, <1>10, <1>11, <1>12, <1>13, <1>14
  DEF Next, vars, SaveBundle, LoadBundle, SendBatch, Deliver, OtherGateAdmits, Revoke

\* The race between wasAdmitted and recordScan is bounded: a device with n tabs never
\* admits a ticket, or is about to, more than n times.
THEOREM AdmissionsAreBoundedByTabs == Spec => []AdmissionsPerTab
<1>1. Init => AdmissionsPerTab
  <2> SUFFICES ASSUME Init, NEW e \in Events, NEW k \in Tickets
               PROVE  Cardinality(AdmittedBy(e, k)) + Cardinality(Admitting(e, k)) <= Cardinality(Tabs)
    BY DEF AdmissionsPerTab
  <2>1. AdmittedBy(e, k) = {} /\ Admitting(e, k) = {}
    BY InitTyped DEF Init, AdmittedBy, Admitting, Idle, Typed, TypeOK, IsQueue
  <2>2. Cardinality(Tabs) \in Nat
    BY ScannerAssumption, FS_CardinalityType
  <2> QED
    BY <2>1, <2>2, FS_EmptySet
<1> QED
  BY <1>1, InitTyped, NextTyped, InitRecording, NextRecording, AdmissionsAreBounded, PTL DEF Spec

-----------------------------------------------------------------------------
\* A verdict c on a ticket, or a bundle b of an event, is as fresh as its issue: what the
\* server learns later is dated later.
FreshVerdict(c) ==
  /\ c.asof \in Nat /\ c.asof <= server.now /\ c.ticket \in Tickets
  /\ server.admitted[c.ticket] = 0 \/ server.admitted[c.ticket] > c.asof
  /\ c.indexed => server.revoked[c.ticket] = 0 \/ server.revoked[c.ticket] > c.asof

FreshBundle(e, b) ==
  /\ b.issued \in Nat /\ b.issued <= server.now
  /\ \A k \in Tickets : EventOf[k] = e =>
       /\ k \notin b.admitted => server.admitted[k] = 0 \/ server.admitted[k] > b.issued
       /\ b.present /\ k \in b.index => server.revoked[k] = 0 \/ server.revoked[k] > b.issued

Fresh ==
  /\ \A k \in Tickets : server.winner[k] = Nobody => server.admitted[k] = 0
  /\ \A e \in Events : bundles[e] # NoBundle => FreshBundle(e, bundles[e])
  /\ \A t \in Tabs : gate[t] # NoBundle => FreshBundle(gate[t].event, gate[t].bundle)
  /\ \A t \in Tabs : scan[t].pc = "lookup" \/ (scan[t].pc = "record" /\ scan[t].result = "admitted")
                     => FreshVerdict(scan[t])
  /\ \A i \in DOMAIN rows : rows[i].result = "admitted" /\ born[i] # 0 => FreshVerdict(rows[i])

\* The server only learns: a fact it adds is dated after everything it knew.
Learns ==
  /\ server'.now \in Nat /\ server'.now >= server.now
  /\ \A k \in Tickets :
       /\ server'.admitted[k] = server.admitted[k] \/ server'.admitted[k] = server.now + 1
       /\ server'.revoked[k] = server.revoked[k] \/ server'.revoked[k] = server.now + 1
       /\ server'.winner[k] = Nobody => server.winner[k] = Nobody /\ server'.admitted[k] = server.admitted[k]

LEMMA ServerLearns ==
  ASSUME Typed, (\E b \in wire : Deliver(b)) \/ (\E k \in Tickets : OtherGateAdmits(k) \/ Revoke(k))
  PROVE  Learns
<1> USE DEF Learns
<1>0. server.now \in Nat /\ server \in Server
  BY DEF Typed, Server
<1>1. CASE \E b \in wire : Deliver(b)
  <2> PICK b \in wire : Deliver(b)
    BY <1>1
  <2>1. PICK winner \in [Tickets -> Ids \cup {Elsewhere, Nobody}] :
          /\ \A k \in Tickets : IF server.winner[k] # Nobody \/ Claims(b, k) = {}
                                  THEN winner[k] = server.winner[k]
                                  ELSE winner[k] \in First(b, k)
          /\ server' = [server EXCEPT
               !.applied = @ \cup DOMAIN b.claims,
               !.winner = winner,
               !.now = IF winner = server.winner THEN @ ELSE @ + 1,
               !.admitted = [k \in Tickets |-> IF winner[k] = server.winner[k] THEN @[k]
                                                 ELSE server.now + 1]]
    BY DEF Deliver
  <2>2. /\ server'.winner = winner /\ server'.revoked = server.revoked
        /\ server'.now = IF winner = server.winner THEN server.now ELSE server.now + 1
        /\ \A k \in Tickets : server'.admitted[k] =
             IF winner[k] = server.winner[k] THEN server.admitted[k] ELSE server.now + 1
    BY <1>0, <2>1 DEF Server
  <2>3. \A k \in Tickets : winner[k] = Nobody => server.winner[k] = Nobody
    BY <2>1
  <2> QED
    BY <1>0, <2>2, <2>3
<1>2. CASE \E k \in Tickets : OtherGateAdmits(k) \/ Revoke(k)
  <2> PICK k \in Tickets : OtherGateAdmits(k) \/ Revoke(k)
    BY <1>2
  <2>1. CASE OtherGateAdmits(k)
    <3>1. /\ server'.now = server.now + 1 /\ server'.revoked = server.revoked
          /\ \A l \in Tickets : /\ server'.admitted[l] = IF l = k THEN server.now + 1
                                                        ELSE server.admitted[l]
                               /\ server'.winner[l] = IF l = k THEN Elsewhere ELSE server.winner[l]
      BY <1>0, <2>1 DEF OtherGateAdmits, Server
    <3> QED
      BY <1>0, <3>1, ScannerAssumption
  <2>2. CASE Revoke(k)
    <3>1. /\ server'.now = server.now + 1 /\ server'.admitted = server.admitted
          /\ server'.winner = server.winner
          /\ \A l \in Tickets : server'.revoked[l] = IF l = k THEN server.now + 1
                                                      ELSE server.revoked[l]
      BY <1>0, <2>2 DEF Revoke, Server
    <3> QED
      BY <1>0, <3>1
  <2> QED
    BY <2>1, <2>2
<1> QED
  BY <1>1, <1>2

LEMMA FreshnessLasts ==
  ASSUME Typed, Learns
  PROVE  /\ \A c : FreshVerdict(c) =>
              /\ c.asof \in Nat /\ c.asof <= server'.now /\ c.ticket \in Tickets
              /\ server'.admitted[c.ticket] = 0 \/ server'.admitted[c.ticket] > c.asof
              /\ c.indexed => server'.revoked[c.ticket] = 0 \/ server'.revoked[c.ticket] > c.asof
         /\ \A e, b : FreshBundle(e, b) =>
              /\ b.issued \in Nat /\ b.issued <= server'.now
              /\ \A k \in Tickets : EventOf[k] = e =>
                   /\ k \notin b.admitted => server'.admitted[k] = 0 \/ server'.admitted[k] > b.issued
                   /\ b.present /\ k \in b.index =>
                        server'.revoked[k] = 0 \/ server'.revoked[k] > b.issued
<1>0. server.now \in Nat
  BY DEF Typed, Server
<1>1. ASSUME NEW c, FreshVerdict(c)
      PROVE  /\ c.asof \in Nat /\ c.asof <= server'.now /\ c.ticket \in Tickets
             /\ server'.admitted[c.ticket] = 0 \/ server'.admitted[c.ticket] > c.asof
             /\ c.indexed => server'.revoked[c.ticket] = 0 \/ server'.revoked[c.ticket] > c.asof
  BY <1>0, <1>1 DEF Learns, FreshVerdict
<1>2. ASSUME NEW e, NEW b, FreshBundle(e, b), NEW k \in Tickets, EventOf[k] = e
      PROVE  /\ k \notin b.admitted => server'.admitted[k] = 0 \/ server'.admitted[k] > b.issued
             /\ b.present /\ k \in b.index =>
                  server'.revoked[k] = 0 \/ server'.revoked[k] > b.issued
  BY <1>0, <1>2 DEF Learns, FreshBundle
<1>3. \A e, b : FreshBundle(e, b) => b.issued \in Nat /\ b.issued <= server'.now
  BY <1>0 DEF Learns, FreshBundle
<1> QED
  BY <1>1, <1>2, <1>3

LEMMA NextFresh == Typed /\ Recording /\ Fresh /\ [Next]_vars => Fresh'
<1> SUFFICES ASSUME Typed, Recording, Fresh, [Next]_vars PROVE Fresh'
  OBVIOUS
<1>0. server.now \in Nat
  BY DEF Typed, Server
<1>1. CASE (\E b \in wire : Deliver(b)) \/ (\E k \in Tickets : OtherGateAdmits(k) \/ Revoke(k))
  <2>1. Learns
    BY <1>1, ServerLearns
  <2>2. UNCHANGED <<rows, bundles, gate, scan, born>>
    BY <1>1 DEF Deliver, OtherGateAdmits, Revoke
  <2>3. \A k \in Tickets : server'.winner[k] = Nobody => server'.admitted[k] = 0
    BY <2>1 DEF Learns, Fresh
  <2>4. \A e \in Events : bundles[e] # NoBundle => FreshBundle(e, bundles[e])'
    BY <2>1, <2>2, FreshnessLasts DEF Fresh, FreshBundle
  <2>5. ASSUME NEW t \in Tabs, gate[t] # NoBundle
        PROVE  FreshBundle(gate[t].event, gate[t].bundle)'
    <3> DEFINE e == gate[t].event
               b == gate[t].bundle
    <3>1. FreshBundle(e, b)
      BY <2>5 DEF Fresh
    <3>2. gate'[t].event = e /\ gate'[t].bundle = b
      BY <2>2
    <3> HIDE DEF e, b
    <3>3. /\ b.issued \in Nat /\ b.issued <= server'.now
          /\ \A k \in Tickets : EventOf[k] = e =>
               /\ k \notin b.admitted => server'.admitted[k] = 0 \/ server'.admitted[k] > b.issued
               /\ b.present /\ k \in b.index =>
                    server'.revoked[k] = 0 \/ server'.revoked[k] > b.issued
      BY <2>1, <3>1, FreshnessLasts
    <3> QED
      BY <3>1, <3>2, <3>3 DEF FreshBundle
  <2>6. \A t \in Tabs : scan[t].pc = "lookup" \/ (scan[t].pc = "record" /\ scan[t].result = "admitted")
                        => FreshVerdict(scan[t])'
    BY <2>1, <2>2, FreshnessLasts DEF Fresh, FreshVerdict
  <2>7. \A i \in DOMAIN rows : rows[i].result = "admitted" /\ born[i] # 0 => FreshVerdict(rows[i])'
    BY <2>1, <2>2, FreshnessLasts DEF Fresh, FreshVerdict
  <2> QED
    BY <2>2, <2>3, <2>4, <2>5, <2>6, <2>7 DEF Fresh
<1>2. CASE Upgrade
  <2>1. \A i \in DOMAIN rows : born[i] = 0
    BY <1>2 DEF Upgrade, Recording, Recorded, Typed, TypeOK, IsQueue
  <2> QED
    BY <1>2, <2>1 DEF Upgrade, Fresh, FreshBundle, FreshVerdict
<1>3. CASE \E e \in Doors : SaveBundle(e)
  <2> PICK e \in Doors : SaveBundle(e)
    BY <1>3
  <2>1. PICK flag \in Flags :
          bundles' = [bundles EXCEPT ![e] =
            [present |-> flag,
             index |-> {k \in Tickets : EventOf[k] = e /\ flag /\ server.revoked[k] = 0},
             admitted |-> {k \in Tickets : EventOf[k] = e /\ server.winner[k] # Nobody},
             issued |-> server.now]]
    BY DEF SaveBundle
  <2>2. UNCHANGED <<rows, gate, scan, born, server>>
    BY DEF SaveBundle
  <2>3. FreshBundle(e, bundles'[e])
    BY <1>0, <2>1, ScannerAssumption DEF FreshBundle, Fresh, Typed, TypeOK
  <2>4. \A d \in Events \ {e} : bundles'[d] = bundles[d]
    BY <2>1 DEF Typed, TypeOK
  <2>5. \A d \in Events : bundles'[d] # NoBundle => FreshBundle(d, bundles'[d])
    BY <2>3, <2>4 DEF Fresh
  <2> QED
    BY <2>2, <2>5 DEF Fresh, FreshBundle, FreshVerdict
<1>4. CASE \E e \in Doors, t \in Tabs : LoadBundle(t, e)
  <2> PICK e \in Doors, t \in Tabs : LoadBundle(t, e)
    BY <1>4
  <2>1. FreshBundle(e, bundles[e])
    BY ScannerAssumption DEF LoadBundle, Fresh
  <2>2. \A u \in Tabs : gate'[u] = IF u = t THEN [event |-> e, bundle |-> bundles[e]] ELSE gate[u]
    BY DEF LoadBundle, Typed
  <2>3. \A u \in Tabs : gate'[u] # NoBundle => FreshBundle(gate'[u].event, gate'[u].bundle)
    BY <2>1, <2>2 DEF Fresh
  <2>4. UNCHANGED <<rows, bundles, scan, born, server>>
    BY DEF LoadBundle
  <2> QED
    BY <2>3, <2>4 DEF Fresh, FreshBundle, FreshVerdict
<1>5. CASE \E e \in Events : DeleteBundle(e)
  <2> PICK e \in Events : DeleteBundle(e)
    BY <1>5
  <2>1. \A d \in Events : bundles'[d] = bundles[d] \/ bundles'[d] = NoBundle
    BY DEF DeleteBundle, Typed, TypeOK
  <2>2. \A i \in DOMAIN rows' : i \in DOMAIN rows /\ rows'[i] = rows[i]
    BY DEF DeleteBundle
  <2>3. UNCHANGED <<gate, scan, born, server>>
    BY DEF DeleteBundle
  <2> QED
    BY <2>1, <2>2, <2>3 DEF Fresh, FreshBundle, FreshVerdict
<1>6. CASE \E t \in Tabs, tok \in Presented, now \in Times : Present(t, tok, now)
  <2> PICK t \in Tabs, tok \in Presented, now \in Times : Present(t, tok, now)
    BY <1>6
  <2> DEFINE verdict == Examine(tok, gate[t].event, gate[t].bundle, now)
             new == [pc |-> IF verdict.result = "ask" THEN "lookup" ELSE "record",
                     event |-> gate[t].event, ticket |-> verdict.ticket, result |-> verdict.result,
                     asof |-> gate[t].bundle.issued, indexed |-> gate[t].bundle.present]
  <2>1. /\ scan' = [scan EXCEPT ![t] = new] /\ gate[t] \in Gate
        /\ FreshBundle(gate[t].event, gate[t].bundle)
        /\ UNCHANGED <<rows, bundles, gate, born, server>>
    BY DEF Present, Typed, Fresh
  <2>2. verdict.result # "admitted"
    BY <2>1, VerdictTyped DEF Gate
  <2>3. ASSUME verdict.result = "ask" PROVE FreshVerdict(new)
    <3>1. /\ VerifyWithRing(tok, Keys, now) = "verified" /\ tok.eid = gate[t].event
          /\ verdict.ticket = tok.tid /\ tok.tid \notin gate[t].bundle.admitted
          /\ gate[t].bundle.present => tok.tid \in gate[t].bundle.index
      BY <2>3 DEF Examine, Verdict
    <3>2. tok.tid \in Tickets /\ EventOf[tok.tid] = gate[t].event
      BY <3>1, IssuersSignTickets
    <3> HIDE DEF verdict
    <3> QED
      BY <2>1, <3>1, <3>2 DEF FreshVerdict, FreshBundle
  <2> HIDE DEF verdict
  <2>4. new.pc = "lookup" \/ (new.pc = "record" /\ new.result = "admitted") => FreshVerdict(new)
    BY <2>2, <2>3
  <2>5. \A u \in Tabs : scan'[u] = IF u = t THEN new ELSE scan[u]
    BY <2>1 DEF Typed
  <2> HIDE DEF new
  <2>6. \A u \in Tabs : scan'[u].pc = "lookup" \/ (scan'[u].pc = "record" /\ scan'[u].result = "admitted")
                        => FreshVerdict(scan'[u])
    BY <2>4, <2>5 DEF Fresh
  <2> QED
    BY <2>1, <2>6 DEF Fresh, FreshBundle, FreshVerdict
<1>7. CASE \E t \in Tabs : LookUp(t) \/ LookUpFails(t)
  <2> PICK t \in Tabs : LookUp(t) \/ LookUpFails(t)
    BY <1>7
  <2>1. /\ scan[t] \in Scan /\ FreshVerdict(scan[t])
        /\ \A u \in Tabs \ {t} : scan'[u] = scan[u]
        /\ UNCHANGED <<rows, bundles, gate, born, server>>
    BY DEF LookUp, LookUpFails, Typed, Fresh, Idle
  <2>2. CASE LookUp(t)
    <3>1. /\ scan'[t].ticket = scan[t].ticket /\ scan'[t].asof = scan[t].asof
          /\ scan'[t].indexed = scan[t].indexed
      BY <2>1, <2>2 DEF LookUp, Typed, Scan
    <3>2. FreshVerdict(scan'[t])
      BY <2>1, <3>1 DEF FreshVerdict
    <3> QED
      BY <2>1, <3>2 DEF Fresh, FreshBundle, FreshVerdict
  <2>3. CASE LookUpFails(t)
    <3>1. scan'[t].result = "invalid" /\ scan'[t].pc = "record"
      BY <2>1, <2>3 DEF LookUpFails, Typed, Scan
    <3> QED
      BY <2>1, <3>1 DEF Fresh, FreshBundle, FreshVerdict
  <2> QED
    BY <2>2, <2>3
<1>8. CASE \E t \in Tabs : CloseTab(t)
  <2> PICK t \in Tabs : CloseTab(t)
    BY <1>8
  <2>1. /\ \A u \in Tabs : scan'[u] = scan[u] \/ scan'[u].pc = "idle"
        /\ \A u \in Tabs : gate'[u] = gate[u] \/ gate'[u] = NoBundle
        /\ UNCHANGED <<rows, bundles, born, server>>
    BY DEF CloseTab, Typed, Idle
  <2> QED
    BY <2>1 DEF Fresh, FreshBundle, FreshVerdict
<1>9. CASE \E t \in Tabs, i \in Ids, s \in 1 .. Cardinality(Ids), at \in Times : RecordScan(t, i, s, at)
  <2> PICK t \in Tabs, i \in Ids, s \in 1 .. Cardinality(Ids), at \in Times : RecordScan(t, i, s, at)
    BY <1>9
  <2>1. /\ scan[t].pc = "record" /\ DOMAIN rows' = DOMAIN rows \cup {i}
        /\ \A j \in DOMAIN rows \ {i} : rows'[j] = rows[j] /\ born'[j] = born[j]
        /\ UNCHANGED <<bundles, gate, server>>
    BY DEF RecordScan, Typed, TypeOK, IsQueue
  <2>2. /\ rows'[i].result = scan[t].result /\ rows'[i].ticket = scan[t].ticket
        /\ rows'[i].asof = scan[t].asof /\ rows'[i].indexed = scan[t].indexed
    BY DEF RecordScan
  <2>3. rows'[i].result = "admitted" => FreshVerdict(rows'[i])
    <3>1. rows'[i].result = "admitted" => FreshVerdict(scan[t])
      BY <2>1, <2>2 DEF Fresh
    <3> QED
      BY <2>2, <3>1 DEF FreshVerdict
  <2>4. ASSUME NEW j \in DOMAIN rows', rows'[j].result = "admitted", born'[j] # 0
        PROVE  FreshVerdict(rows'[j])
    <3>1. CASE j = i
      BY <2>3, <2>4, <3>1
    <3>2. CASE j # i
      <4>1. j \in DOMAIN rows /\ rows'[j] = rows[j] /\ born'[j] = born[j]
        BY <2>1, <3>2
      <4> QED
        BY <2>4, <4>1 DEF Fresh
    <3> QED
      BY <3>1, <3>2
  <2>5. \A u \in Tabs : scan'[u] = scan[u] \/ scan'[u].pc = "idle"
    BY DEF RecordScan, Typed, Idle
  <2> QED
    BY <2>1, <2>4, <2>5 DEF Fresh, FreshBundle, FreshVerdict
<1>10. CASE \E b \in wire : MarkSynced(b)
  <2>1. /\ DOMAIN rows' = DOMAIN rows /\ UNCHANGED <<bundles, gate, scan, born, server>>
        /\ \A i \in DOMAIN rows :
             /\ rows'[i].result = rows[i].result /\ rows'[i].ticket = rows[i].ticket
             /\ rows'[i].asof = rows[i].asof /\ rows'[i].indexed = rows[i].indexed
    BY <1>10 DEF MarkSynced, Typed, TypeOK, IsQueue, Row
  <2>2. \A i \in DOMAIN rows : FreshVerdict(rows[i]) => FreshVerdict(rows'[i])
    BY <2>1 DEF FreshVerdict
  <2> QED
    BY <2>1, <2>2 DEF Fresh, FreshBundle, FreshVerdict
<1>11. CASE UNCHANGED <<rows, bundles, gate, scan, born, server>>
  BY <1>11 DEF Fresh, FreshBundle, FreshVerdict
<1> QED
  BY <1>1, <1>2, <1>3, <1>4, <1>5, <1>6, <1>7, <1>8, <1>9, <1>10, <1>11 DEF Next, vars, SendBatch

\* A device admits somebody whom the server refuses only on a bundle that is older than the
\* server's reason, however long the bundle was held in memory.
THEOREM AdmissionsAreFresh == Spec => []AdmissionsAreAsFreshAsTheirBundle
<1>1. Init => Fresh
  <2> SUFFICES ASSUME Init PROVE Fresh
    OBVIOUS
  <2>1. \A i \in DOMAIN rows : born[i] = 0
    BY LegacyAssumption DEF Init, IsQueue
  <2> QED
    BY <2>1 DEF Init, Fresh, Idle
<1>2. Spec => []Fresh
  BY <1>1, InitTyped, NextTyped, InitRecording, NextRecording, NextFresh, PTL DEF Spec
<1>3. Fresh => AdmissionsAreAsFreshAsTheirBundle
  BY DEF Fresh, FreshVerdict, AdmissionsAreAsFreshAsTheirBundle
<1> QED
  BY <1>2, <1>3, PTL

-----------------------------------------------------------------------------
\* Who wins a ticket.  A row is admitted for the event of its ticket, so whatever lists a
\* scan of a ticket lists the earlier ones too, unless the server has decided already.
Contest ==
  /\ \A i \in DOMAIN rows : rows[i].result = "admitted" =>
       /\ rows[i].ticket \in Tickets /\ EventOf[rows[i].ticket] = rows[i].event
       /\ rows[i].synced => server.winner[rows[i].ticket] # Nobody
  /\ \A t \in Tabs :
       scan[t].pc = "lookup" \/ (scan[t].pc = "record" /\ scan[t].result = "admitted") =>
         scan[t].ticket \in Tickets /\ EventOf[scan[t].ticket] = scan[t].event
  /\ \A b \in wire : \A i \in DOMAIN b.claims \cap DOMAIN rows :
       b.claims[i].ticket = rows[i].ticket /\ b.claims[i].result = rows[i].result
  /\ \A b \in wire, k \in Tickets :
       /\ b.delivered /\ Claims(b, k) # {} => server.winner[k] # Nobody
       /\ \A j \in Claims(b, k), i \in DOMAIN rows :
            /\ rows[i].ticket = k /\ rows[i].result = "admitted" /\ born[i] < born[j]
            => i \in Claims(b, k) \/ server.winner[k] # Nobody
  /\ \A k \in Tickets : server.winner[k] \in Ids =>
       born[server.winner[k]] # 0 \/ server.winner[k] \in LegacyIds
  /\ FirstScanWins

\* Before the first upload the server knows the scans that version 1 had sent.
LEMMA InitContest == Init => Contest
<1> SUFFICES ASSUME Init PROVE Contest
  OBVIOUS
<1>1. PICK winner \in [Tickets -> Ids \cup {Elsewhere, Nobody}] :
        /\ \A k \in Tickets : IF SyncedAdmissions(k) = {} THEN winner[k] = Nobody
                               ELSE winner[k] \in SyncedAdmissions(k) \cup {Elsewhere}
        /\ server = [applied |-> {i \in DOMAIN rows : rows[i].synced}, winner |-> winner, now |-> 0,
                     admitted |-> [k \in Tickets |-> 0], revoked |-> [k \in Tickets |-> 0]]
  BY DEF Init
<1>2. DOMAIN rows \subseteq Ids /\ DOMAIN rows \subseteq LegacyIds
  BY LegacyAssumption DEF Init, IsQueue, LegacyIds
<1>3. \A k \in Tickets : /\ server.winner[k] \in Ids => server.winner[k] \in DOMAIN rows
                         /\ SyncedAdmissions(k) # {} => server.winner[k] # Nobody
  BY <1>1, <1>2, ScannerAssumption DEF SyncedAdmissions
<1>4. ASSUME NEW i \in DOMAIN rows, rows[i].result = "admitted"
      PROVE  /\ rows[i].ticket \in Tickets /\ EventOf[rows[i].ticket] = rows[i].event
             /\ rows[i].synced => server.winner[rows[i].ticket] # Nobody
  <2>1. rows[i].ticket \in Tickets /\ EventOf[rows[i].ticket] = rows[i].event
    BY <1>4, LegacyAssumption DEF Init
  <2>2. rows[i].synced => SyncedAdmissions(rows[i].ticket) # {}
    BY <1>4 DEF SyncedAdmissions
  <2> QED
    BY <1>3, <2>1, <2>2
<1>5. FirstScanWins
  BY <1>2 DEF Init, FirstScanWins
<1> QED
  BY <1>2, <1>3, <1>4, <1>5 DEF Init, Contest, Idle

\* A step that changes neither the rows, nor what is sent, nor the server.
LEMMA ContestStays ==
  ASSUME Contest, UNCHANGED <<rows, wire, server, born>>,
         \A t \in Tabs :
           scan'[t].pc = "lookup" \/ (scan'[t].pc = "record" /\ scan'[t].result = "admitted") =>
             scan'[t].ticket \in Tickets /\ EventOf[scan'[t].ticket] = scan'[t].event
  PROVE  Contest'
BY DEF Contest, FirstScanWins, Claims

\* Rows that go, or that only change their numbers and marks, decide nothing anew.
LEMMA ContestOfRows ==
  ASSUME Contest, UNCHANGED <<wire, server, born, scan>>,
         DOMAIN rows' \subseteq DOMAIN rows,
         \A i \in DOMAIN rows' :
           /\ rows'[i].event = rows[i].event /\ rows'[i].ticket = rows[i].ticket
           /\ rows'[i].result = rows[i].result
           /\ rows'[i].synced /\ rows[i].result = "admitted" /\ ~rows[i].synced =>
                server.winner[rows[i].ticket] # Nobody
  PROVE  Contest'
<1>1. \A b \in wire, k \in Tickets : Claims(b, k)' = Claims(b, k)
  BY DEF Claims
<1>2. FirstScanWins'
  BY DEF Contest, FirstScanWins
<1>3. \A i \in DOMAIN rows' : rows'[i].result = "admitted" =>
        /\ rows'[i].ticket \in Tickets /\ EventOf[rows'[i].ticket] = rows'[i].event
        /\ rows'[i].synced => server'.winner[rows'[i].ticket] # Nobody
  BY DEF Contest
<1>4. \A b \in wire', k \in Tickets :
        /\ b.delivered /\ Claims(b, k)' # {} => server'.winner[k] # Nobody
        /\ \A j \in Claims(b, k)', i \in DOMAIN rows' :
             /\ rows'[i].ticket = k /\ rows'[i].result = "admitted" /\ born'[i] < born'[j]
             => i \in Claims(b, k)' \/ server'.winner[k] # Nobody
  BY <1>1 DEF Contest
<1> QED
  BY <1>2, <1>3, <1>4 DEF Contest

\* The first scan of a ticket is in every batch that lists a later one, ahead of it, or the
\* ticket has its winner already.
LEMMA NextContest ==
  Typed /\ Recording /\ Sent /\ Contest /\ [Next]_vars => Contest'
<1> SUFFICES ASSUME Typed, Recording, Sent, Contest, [Next]_vars PROVE Contest'
  OBVIOUS
<1>0. DOMAIN rows \subseteq Ids /\ \A i \in DOMAIN rows : rows[i] \in Row
  BY DEF Typed, TypeOK, IsQueue
<1>1. CASE Upgrade
  <2>1. /\ DOMAIN rows' = DOMAIN rows /\ UNCHANGED <<wire, server, born, scan>>
        /\ \A i \in DOMAIN rows :
             /\ rows'[i].event = rows[i].event /\ rows'[i].ticket = rows[i].ticket
             /\ rows'[i].result = rows[i].result /\ rows'[i].synced = rows[i].synced
    BY <1>0, <1>1 DEF Upgrade, Row
  <2> QED
    BY <2>1, ContestOfRows
<1>2. CASE \E e \in Events : DeleteBundle(e)
  <2>1. /\ DOMAIN rows' \subseteq DOMAIN rows /\ UNCHANGED <<wire, server, born, scan>>
        /\ \A i \in DOMAIN rows' : rows'[i] = rows[i]
    BY <1>2 DEF DeleteBundle
  <2> QED
    BY <2>1, ContestOfRows
<1>3. CASE \E b \in wire : MarkSynced(b)
  <2> PICK b \in wire : MarkSynced(b)
    BY <1>3
  <2>1. /\ DOMAIN rows' = DOMAIN rows /\ UNCHANGED <<wire, server, born, scan>>
        /\ \A i \in DOMAIN rows :
             /\ rows'[i].event = rows[i].event /\ rows'[i].ticket = rows[i].ticket
             /\ rows'[i].result = rows[i].result
             /\ rows'[i].synced # rows[i].synced => i \in DOMAIN b.claims
    BY <1>0 DEF MarkSynced, Row
  <2>2. ASSUME NEW i \in DOMAIN rows, i \in DOMAIN b.claims, rows[i].result = "admitted"
        PROVE  server.winner[rows[i].ticket] # Nobody
    <3>1. rows[i].ticket \in Tickets /\ i \in Claims(b, rows[i].ticket)
      BY <2>2 DEF Contest, Claims
    <3> QED
      BY <3>1 DEF Contest, MarkSynced
  <2> QED
    BY <2>1, <2>2, ContestOfRows
<1>4. CASE \E e \in Doors : SaveBundle(e) \/ \E t \in Tabs : LoadBundle(t, e)
  BY <1>4, ContestStays DEF SaveBundle, LoadBundle, Contest
<1>5. CASE \E t \in Tabs, tok \in Presented, now \in Times : Present(t, tok, now)
  <2> PICK t \in Tabs, tok \in Presented, now \in Times : Present(t, tok, now)
    BY <1>5
  <2> DEFINE verdict == Examine(tok, gate[t].event, gate[t].bundle, now)
             new == [pc |-> IF verdict.result = "ask" THEN "lookup" ELSE "record",
                     event |-> gate[t].event, ticket |-> verdict.ticket, result |-> verdict.result,
                     asof |-> gate[t].bundle.issued, indexed |-> gate[t].bundle.present]
  <2>1. scan' = [scan EXCEPT ![t] = new] /\ gate[t] \in Gate /\ UNCHANGED <<rows, wire, server, born>>
    BY DEF Present, Typed
  <2>2. verdict.result # "admitted"
    BY <2>1, VerdictTyped DEF Gate
  <2>3. verdict.result = "ask" => /\ verdict.ticket \in Tickets
                                  /\ EventOf[verdict.ticket] = gate[t].event
    BY IssuersSignTickets DEF Examine, Verdict
  <2> HIDE DEF verdict
  <2>4. new.pc = "lookup" \/ (new.pc = "record" /\ new.result = "admitted") =>
          new.ticket \in Tickets /\ EventOf[new.ticket] = new.event
    BY <2>2, <2>3
  <2>5. \A u \in Tabs : scan'[u] = IF u = t THEN new ELSE scan[u]
    BY <2>1 DEF Typed
  <2> HIDE DEF new
  <2> QED
    BY <2>1, <2>4, <2>5, ContestStays DEF Contest
<1>6. CASE \E t \in Tabs : LookUp(t) \/ LookUpFails(t)
  <2> PICK t \in Tabs : LookUp(t) \/ LookUpFails(t)
    BY <1>6
  <2>1. /\ scan[t] \in Scan /\ scan[t].pc = "lookup"
        /\ \A u \in Tabs \ {t} : scan'[u] = scan[u]
        /\ UNCHANGED <<rows, wire, server, born>>
    BY DEF LookUp, LookUpFails, Typed, Idle
  <2>2. /\ scan'[t].pc = "record"
        /\ \/ scan'[t].ticket = scan[t].ticket /\ scan'[t].event = scan[t].event
           \/ scan'[t].result = "invalid"
    BY <2>1 DEF LookUp, LookUpFails, Typed, Scan
  <2> QED
    BY <2>1, <2>2, ContestStays DEF Contest
<1>7. CASE \E t \in Tabs : CloseTab(t)
  <2>1. /\ \A u \in Tabs : scan'[u] = scan[u] \/ scan'[u].pc = "idle"
        /\ UNCHANGED <<rows, wire, server, born>>
    BY <1>7 DEF CloseTab, Typed, Idle
  <2> QED
    BY <2>1, ContestStays DEF Contest
<1>8. CASE \E k \in Tickets : OtherGateAdmits(k) \/ Revoke(k)
  <2> PICK k \in Tickets : OtherGateAdmits(k) \/ Revoke(k)
    BY <1>8
  <2>1. /\ UNCHANGED <<rows, wire, born, scan>>
        /\ \A l \in Tickets : server'.winner[l] \in {server.winner[l], Elsewhere}
    <3>1. CASE OtherGateAdmits(k)
      BY <3>1 DEF OtherGateAdmits, Typed, Server
    <3>2. CASE Revoke(k)
      BY <3>2 DEF Revoke, Typed, Server
    <3> QED
      BY <3>1, <3>2
  <2>2. \A l \in Tickets : server.winner[l] # Nobody => server'.winner[l] # Nobody
    BY <2>1, ScannerAssumption
  <2>3. \A l \in Tickets : server'.winner[l] \in Ids => server'.winner[l] = server.winner[l]
    BY <2>1, ScannerAssumption
  <2>4. FirstScanWins'
    BY <1>0, <2>1, <2>3 DEF Contest, FirstScanWins
  <2> QED
    BY <2>1, <2>2, <2>3, <2>4 DEF Contest, Claims
<1>9. CASE \E e \in Events : SendBatch(e)
  <2> PICK e \in Events : SendBatch(e)
    BY <1>9
  <2> DEFINE batch == [claims |-> [i \in PendingOf(e) |-> rows[i]], delivered |-> FALSE]
  <2>1. wire' = wire \cup {batch} /\ UNCHANGED <<rows, scan, server, born>>
    BY DEF SendBatch
  <2>2. /\ ~batch.delivered /\ DOMAIN batch.claims = PendingOf(e)
        /\ \A i \in PendingOf(e) : batch.claims[i] = rows[i]
    OBVIOUS
  <2>3. \A i \in PendingOf(e) : i \in DOMAIN rows /\ rows[i].event = e /\ ~rows[i].synced
    BY DEF PendingOf
  <2> HIDE DEF batch
  <2>4. ASSUME NEW k \in Tickets, NEW j \in Claims(batch, k), NEW i \in DOMAIN rows,
               rows[i].ticket = k, rows[i].result = "admitted"
        PROVE  i \in Claims(batch, k) \/ server.winner[k] # Nobody
    <3>1. j \in DOMAIN rows /\ rows[j].event = e /\ rows[j].ticket = k /\ rows[j].result = "admitted"
      BY <2>2, <2>3 DEF Claims
    <3>2. rows[i].event = e
      BY <2>4, <3>1 DEF Contest
    <3>3. CASE rows[i].synced
      BY <2>4, <3>3 DEF Contest
    <3>4. CASE ~rows[i].synced
      <4>1. i \in PendingOf(e)
        BY <3>2, <3>4 DEF PendingOf
      <4> QED
        BY <2>2, <2>4, <4>1 DEF Claims
    <3> QED
      BY <3>3, <3>4
  <2>5. \A i \in DOMAIN batch.claims \cap DOMAIN rows :
          batch.claims[i].ticket = rows[i].ticket /\ batch.claims[i].result = rows[i].result
    BY <2>2
  <2>6. FirstScanWins'
    BY <2>1 DEF Contest, FirstScanWins
  <2>7. \A b \in wire', k \in Tickets :
          /\ b.delivered /\ Claims(b, k)' # {} => server'.winner[k] # Nobody
          /\ \A j \in Claims(b, k)', i \in DOMAIN rows' :
               /\ rows'[i].ticket = k /\ rows'[i].result = "admitted" /\ born'[i] < born'[j]
               => i \in Claims(b, k)' \/ server'.winner[k] # Nobody
    <3>1. \A b, k : Claims(b, k)' = Claims(b, k)
      BY DEF Claims
    <3> QED
      BY <2>1, <2>2, <2>4, <3>1 DEF Contest
  <2> QED
    BY <2>1, <2>5, <2>6, <2>7 DEF Contest
<1>10. CASE \E b \in wire : Deliver(b)
  <2> PICK b \in wire : Deliver(b)
    BY <1>10
  <2>1. PICK winner \in [Tickets -> Ids \cup {Elsewhere, Nobody}] :
          /\ \A k \in Tickets : IF server.winner[k] # Nobody \/ Claims(b, k) = {}
                                  THEN winner[k] = server.winner[k]
                                  ELSE winner[k] \in First(b, k)
          /\ server' = [server EXCEPT
               !.applied = @ \cup DOMAIN b.claims,
               !.winner = winner,
               !.now = IF winner = server.winner THEN @ ELSE @ + 1,
               !.admitted = [k \in Tickets |-> IF winner[k] = server.winner[k] THEN @[k]
                                                 ELSE server.now + 1]]
    BY DEF Deliver
  <2>2. server'.winner = winner /\ UNCHANGED <<rows, scan, born>>
    BY <2>1 DEF Deliver, Typed, Server
  <2>3. \A c \in wire' : c \in wire \/ c.claims = b.claims
    BY DEF Deliver, Typed, Batch
  <2>4. DOMAIN b.claims \subseteq Ids
    BY DEF Typed, TypeOK, IsQueue
  <2>5. \A k \in Tickets :
          /\ server.winner[k] # Nobody => winner[k] = server.winner[k]
          /\ Claims(b, k) # {} => winner[k] # Nobody
          /\ winner[k] # server.winner[k] => winner[k] \in First(b, k) /\ server.winner[k] = Nobody
    BY <2>1, <2>4, ScannerAssumption DEF First, Claims
  <2>6. ASSUME NEW k \in Tickets, winner[k] # server.winner[k], NEW i \in DOMAIN rows,
               rows[i].ticket = k, rows[i].result = "admitted"
        PROVE  ~(born[i] < born[winner[k]])
    <3> SUFFICES ASSUME born[i] < born[winner[k]] PROVE FALSE
      OBVIOUS
    <3>1. winner[k] \in Claims(b, k) /\ server.winner[k] = Nobody
      BY <2>5, <2>6 DEF First
    <3>2. i \in Claims(b, k)
      BY <2>6, <3>1 DEF Contest
    <3>3. /\ winner[k] \in DOMAIN b.claims /\ i \in DOMAIN b.claims
          /\ ~Precedes(b.claims, winner[k], i)
      BY <3>1, <3>2 DEF Claims, Sent, UploadsFollowRecording
    <3>4. i # winner[k]
      <4>1. i \in Ids
        BY <1>0
      <4> QED
        BY <4>1 DEF Typed, TypeOK
    <3> QED
      BY <2>5, <2>6, <3>2, <3>3, <3>4 DEF First
  <2>7. FirstScanWins'
    BY <2>2, <2>6 DEF Contest, FirstScanWins
  <2>8. \A c, k : Claims(c, k)' = Claims(c, k)
    BY DEF Claims
  <2>9. ASSUME NEW c \in wire', NEW k \in Tickets
        PROVE  /\ c.delivered /\ Claims(c, k) # {} => winner[k] # Nobody
               /\ \A j \in Claims(c, k), i \in DOMAIN rows :
                    /\ rows[i].ticket = k /\ rows[i].result = "admitted" /\ born[i] < born[j]
                    => i \in Claims(c, k) \/ winner[k] # Nobody
    <3>1. CASE c \in wire
      BY <2>5, <3>1 DEF Contest
    <3>2. CASE c.claims = b.claims
      <4>1. Claims(c, k) = Claims(b, k)
        BY <3>2 DEF Claims
      <4> QED
        BY <2>5, <4>1 DEF Contest
    <3> QED
      BY <2>3, <3>1, <3>2
  <2>10. \A k \in Tickets : winner[k] \in Ids => born[winner[k]] # 0 \/ winner[k] \in LegacyIds
    <3> SUFFICES ASSUME NEW k \in Tickets, winner[k] \in Ids
                 PROVE  born[winner[k]] # 0 \/ winner[k] \in LegacyIds
      OBVIOUS
    <3>1. CASE winner[k] = server.winner[k]
      BY <3>1 DEF Contest
    <3>2. CASE winner[k] # server.winner[k]
      BY <2>5, <3>2 DEF First, Claims, Sent
    <3> QED
      BY <3>1, <3>2
  <2>11. \A i \in DOMAIN rows : rows[i].result = "admitted" =>
           /\ rows[i].ticket \in Tickets /\ EventOf[rows[i].ticket] = rows[i].event
           /\ rows[i].synced => winner[rows[i].ticket] # Nobody
    BY <2>5 DEF Contest
  <2>12. \A c \in wire' : \A i \in DOMAIN c.claims \cap DOMAIN rows :
           c.claims[i].ticket = rows[i].ticket /\ c.claims[i].result = rows[i].result
    BY <2>3 DEF Contest
  <2> QED
    BY <2>2, <2>7, <2>8, <2>9, <2>10, <2>11, <2>12 DEF Contest
<1>11. CASE \E t \in Tabs, i \in Ids, s \in 1 .. Cardinality(Ids), at \in Times : RecordScan(t, i, s, at)
  <2> PICK t \in Tabs, i \in Ids, s \in 1 .. Cardinality(Ids), at \in Times : RecordScan(t, i, s, at)
    BY <1>11
  <2>1. /\ scan[t].pc = "record" /\ DOMAIN rows' = DOMAIN rows \cup {i}
        /\ rows'[i].result = scan[t].result /\ rows'[i].ticket = scan[t].ticket
        /\ rows'[i].event = scan[t].event /\ ~rows'[i].synced
        /\ \A j \in DOMAIN rows \ {i} : rows'[j] = rows[j]
        /\ UNCHANGED <<wire, server>>
    BY DEF RecordScan
  <2>2. i \notin DOMAIN rows /\ born[i] = 0 /\ i \notin LegacyIds
    BY DEF RecordScan, Recording
  <2>3. /\ \A j \in Ids \ {i} : born'[j] = born[j] /\ born[j] < born'[i] /\ born[j] \in Nat
        /\ born'[i] \in Nat
    <3>1. IsFiniteSet(Recorded) /\ Cardinality(Recorded) \in Nat
      BY ScannerAssumption, FS_Subset, FS_CardinalityType DEF Recorded
    <3>2. born' = [born EXCEPT ![i] = 1 + Cardinality(Recorded)] /\ born \in [Ids -> Nat]
      BY DEF RecordScan, Recorded, Typed, TypeOK
    <3>3. \A j \in Ids : born[j] <= Cardinality(Recorded)
      BY DEF Recording
    <3> QED
      BY <3>1, <3>2, <3>3
  <2>4. \A b \in wire : i \notin DOMAIN b.claims /\ DOMAIN b.claims \subseteq Ids
    BY <2>2 DEF Sent, Typed, TypeOK, IsQueue
  <2>5. \A k \in Tickets : server.winner[k] # i
    BY <2>2 DEF Contest
  <2>6. FirstScanWins'
    <3> SUFFICES ASSUME NEW k \in Tickets, NEW m \in DOMAIN rows', NEW j \in DOMAIN rows',
                        server.winner[k] = j,
                        rows'[m].ticket = k, rows'[m].result = "admitted", rows'[j].ticket = k
                 PROVE  ~(born'[m] < born'[j])
      BY <2>1 DEF FirstScanWins
    <3>1. j \in DOMAIN rows /\ j # i /\ j \in Ids
      BY <1>0, <2>1, <2>5
    <3>2. CASE m = i
      BY <2>3, <3>1, <3>2
    <3>3. CASE m \in DOMAIN rows /\ m # i
      BY <1>0, <2>1, <2>3, <3>1, <3>3 DEF Contest, FirstScanWins
    <3> QED
      BY <2>1, <3>2, <3>3
  <2>7. \A b, k : Claims(b, k)' = Claims(b, k)
    BY DEF Claims
  <2>8. ASSUME NEW b \in wire, NEW k \in Tickets, NEW j \in Claims(b, k), NEW m \in DOMAIN rows',
               rows'[m].ticket = k, rows'[m].result = "admitted", born'[m] < born'[j]
        PROVE  m \in Claims(b, k) \/ server.winner[k] # Nobody
    <3>1. j \in Ids /\ j # i
      BY <2>4 DEF Claims
    <3>2. m # i
      BY <2>3, <2>8, <3>1
    <3> QED
      BY <1>0, <2>1, <2>3, <2>8, <3>1, <3>2 DEF Contest
  <2>9. \A k \in Tickets : server.winner[k] \in Ids =>
          born'[server.winner[k]] # 0 \/ server.winner[k] \in LegacyIds
    BY <2>3, <2>5 DEF Contest
  <2>10. \A u \in Tabs : scan'[u] = scan[u] \/ scan'[u].pc = "idle"
    BY DEF RecordScan, Typed, Idle
  <2>11. \A m \in DOMAIN rows' : rows'[m].result = "admitted" =>
           /\ rows'[m].ticket \in Tickets /\ EventOf[rows'[m].ticket] = rows'[m].event
           /\ rows'[m].synced => server.winner[rows'[m].ticket] # Nobody
    BY <2>1 DEF Contest
  <2>12. \A b \in wire : \A m \in DOMAIN b.claims \cap DOMAIN rows' :
           b.claims[m].ticket = rows'[m].ticket /\ b.claims[m].result = rows'[m].result
    BY <2>1, <2>4 DEF Contest
  <2>13. \A u \in Tabs :
           scan'[u].pc = "lookup" \/ (scan'[u].pc = "record" /\ scan'[u].result = "admitted") =>
             scan'[u].ticket \in Tickets /\ EventOf[scan'[u].ticket] = scan'[u].event
    BY <2>10 DEF Contest
  <2>14. \A b \in wire, k \in Tickets : b.delivered /\ Claims(b, k) # {} => server.winner[k] # Nobody
    BY DEF Contest
  <2> QED
    BY <2>1, <2>6, <2>7, <2>8, <2>9, <2>11, <2>12, <2>13, <2>14 DEF Contest
<1>12. CASE UNCHANGED vars
  BY <1>12, ContestStays DEF vars, Contest
<1> QED
  BY <1>1, <1>2, <1>3, <1>4, <1>5, <1>6, <1>7, <1>8, <1>9, <1>10, <1>11, <1>12 DEF Next

\* However many tabs scan a ticket, and however their batches overlap, repeat or overtake
\* each other, the winner of the ticket is the first of its scans that are still stored.
THEOREM TheFirstScanWins == Spec => []FirstScanWins
<1>1. Init => Sent
  BY DEF Init, Sent, UploadsFollowRecording
<1>2. Spec => []Contest
  BY <1>1, InitTyped, NextTyped, InitRecording, NextRecording, NextSent, InitContest, NextContest,
     PTL DEF Spec
<1> QED
  BY <1>2, PTL DEF Contest
=============================================================================
