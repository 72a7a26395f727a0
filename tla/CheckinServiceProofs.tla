------------------------- MODULE CheckinServiceProofs -------------------------
(***************************************************************************)
(* The interleaved handlers of CheckinService implement CheckinLedger: the *)
(* advisory locks keep what a transaction read of its groups true until it *)
(* commits, and the unique index gives each operation to one transaction.  *)
(* What is proved of the ledger then holds of the tables, and what devices *)
(* are told agrees with them.                                              *)
(***************************************************************************)
EXTENDS CheckinService, FiniteSetTheorems, SequenceTheorems, TLAPS

-----------------------------------------------------------------------------
(* Numbers and inputs. *)

\* A set of numbers that is not empty has a smallest one.
LEMMA SmallestNumber ==
  ASSUME NEW S \in SUBSET Nat, S # {}
  PROVE  \E m \in S : \A n \in S : m <= n
<1> DEFINE R == OpToRel(<, Nat)
<1>1. IsWellFoundedOn(R, Nat)
  BY NatLessThanWellFounded
<1> HIDE DEF R
<1>2. PICK m \in S : \A n \in S : ~(<<n, m>> \in R)
  BY <1>1, WFMin
<1>3. \A n, k \in Nat : n < k => <<n, k>> \in R
  BY DEF R, OpToRel
<1>4. m \in Nat /\ \A n \in S : n \in Nat
  OBVIOUS
<1>5. \A n \in S : ~(n < m)
  BY <1>2, <1>3, <1>4
<1> QED
  BY <1>4, <1>5

\* The items of a request have positions, scans of known kinds, and the online one asks for
\* a known station.
LEMMA ItemFacts ==
  ASSUME NEW b, InputType(b), NEW i \in Indices(b)
  PROVE  /\ i \in Nat /\ IsFiniteSet(Indices(b))
         /\ b.items[i] \in Item
         /\ b.items[i].op \in Operations
         /\ b.kind = "online" => i = 1 /\ Parsed(b) = {1}
<1>1. /\ b.items \in Seq(Item) /\ Len(b.items) \in Nat
      /\ DOMAIN b.items = 1 .. Len(b.items)
  BY DEF InputType
<1>2. IsFiniteSet(Indices(b))
  BY <1>1, FS_Interval DEF Indices
<1>3. b.items[i] \in Item
  BY <1>1 DEF Indices
<1>4. b.items[i].op \in Operations
  BY <1>3 DEF Item
<1>5. ASSUME b.kind = "online" PROVE i = 1 /\ Parsed(b) = {1}
  <2>1. Len(b.items) = 1 /\ b.items[1].station \in Stations /\ b.items[1].reported = "other"
    BY <1>5 DEF InputType
  <2>2. Indices(b) = {1}
    BY <1>1, <2>1 DEF Indices
  <2>3. WellFormed(b, 1)
    BY <2>1 DEF WellFormed
  <2> QED
    BY <2>2, <2>3 DEF Parsed
<1> QED
  BY <1>1, <1>2, <1>3, <1>4, <1>5 DEF Indices

\* The items that go further are scans of known stations, one of each operation.
LEMMA ParsedFacts ==
  ASSUME NEW b, InputType(b)
  PROVE  /\ Parsed(b) \subseteq Indices(b) /\ IsFiniteSet(Parsed(b)) /\ Parsed(b) \subseteq Nat
         /\ \A i \in Parsed(b) :
              /\ WellFormed(b, i) /\ b.items[i] \in Item /\ b.items[i].op \in Operations
              /\ GroupOf(b, i) \in Groups
         /\ \A i, j \in Parsed(b) : b.items[i].op = b.items[j].op => i = j
<1>1. Parsed(b) \subseteq Indices(b)
  BY DEF Parsed
<1>2. \A i \in Parsed(b) : WellFormed(b, i)
  BY DEF Parsed
<1>3. \A i \in Parsed(b) : i \in Nat /\ b.items[i] \in Item /\ b.items[i].op \in Operations
  BY <1>1, ItemFacts
<1>4. IsFiniteSet(Parsed(b))
  <2>1. CASE Parsed(b) = {}
    BY <2>1, FS_EmptySet
  <2>2. CASE Parsed(b) # {}
    <3>1. IsFiniteSet(Indices(b))
      BY <2>2, <1>1, ItemFacts
    <3> QED
      BY <3>1, <1>1, FS_Subset
  <2> QED
    BY <2>1, <2>2
<1>5. ASSUME NEW i \in Parsed(b) PROVE GroupOf(b, i) \in Groups
  <2>1. b.items[i].ticket \in Tickets \cup {NoTicket} /\ b.items[i].station \in Stations
    BY <1>2, <1>3 DEF Item, WellFormed
  <2> QED
    BY <2>1 DEF GroupOf, Groups
<1>6. ASSUME NEW i \in Parsed(b), NEW j \in Parsed(b), b.items[i].op = b.items[j].op
      PROVE  i = j
  <2>1. ~(i < j) /\ ~(j < i)
    BY <1>1, <1>2, <1>6 DEF Parsed
  <2> QED
    BY <1>3, <2>1
<1> QED
  BY <1>1, <1>2, <1>3, <1>4, <1>5, <1>6

-----------------------------------------------------------------------------
(* Eligibility. *)

Refusals == {"unknown", "wrong_event", "invalid", "revoked", "not_authorized", "expired"}
RefusalTypes == {"LATE_REVOKED", "NOT_AUTHORIZED_SERVER_SIDE"}

\* check_eligibility lets in the ticket it found, where its station has uses.
LEMMA EligibilityFacts ==
  ASSUME NEW row, NEW event, NEW station, NEW explicit, NEW at, NEW capability
  PROVE  LET v == CheckEligibility(row, event, station, explicit, at, capability)
         IN  \/ /\ v.eligible = TRUE /\ v.decision = "valid"
                /\ row # {} /\ AllowedMaxUses(station, explicit) > 0
             \/ v.eligible = FALSE /\ v.decision \in Refusals /\ v.conflict \in RefusalTypes
BY DEF CheckEligibility, Eligible, Ineligible, Refusals, RefusalTypes

\* Whatever a handler decides of an item, it lets in only the tickets it knows, where their
\* station has uses today; an offline admission that it refuses gets a conflict type.
LEMMA VerdictFacts ==
  ASSUME NEW r \in Requests, NEW i
  PROVE  LET v    == Verdict(r, i)
             item == input[r].items[i]
         IN  /\ v.eligible \in BOOLEAN
             /\ v.eligible => /\ v.decision = "valid"
                              /\ item.ticket # NoTicket /\ tickets[item.ticket] # {}
                              /\ AllowedMaxUses(item.station, Explicit(item.ticket)) > 0
             /\ ~v.eligible => /\ v.decision \in Refusals
                               /\ input[r].kind # "online" => v.conflict \in RefusalTypes
<1> DEFINE item == input[r].items[i]
           row == IF item.ticket = NoTicket THEN {} ELSE tickets[item.ticket]
           capability == IF item.capability = "expired" THEN "true"
                         ELSE IF item.capability = "other_event" THEN "false"
                         ELSE item.capability
           explicit == Explicit(item.ticket)
           at == Clock(r, i).at
           checked == CheckEligibility(row, Event, item.station, explicit, at, capability)
           v == Verdict(r, i)
<1>1. \/ /\ checked.eligible = TRUE /\ checked.decision = "valid"
         /\ row # {} /\ AllowedMaxUses(item.station, explicit) > 0
      \/ checked.eligible = FALSE /\ checked.decision \in Refusals /\ checked.conflict \in RefusalTypes
  <2> HIDE DEF row, capability, explicit, at
  <2> QED
    BY EligibilityFacts
<1>2. \/ v = checked
      \/ \E d \in Refusals : v = Ineligible(d, "none") /\ input[r].kind = "online"
      \/ v = Ineligible("expired", "NOT_AUTHORIZED_SERVER_SIDE")
  BY DEF Verdict, Refusals
<1>3. row # {} => item.ticket # NoTicket /\ tickets[item.ticket] # {}
  OBVIOUS
<1>4. \A d, c : /\ Ineligible(d, c).eligible = FALSE
                /\ Ineligible(d, c).decision = d /\ Ineligible(d, c).conflict = c
  BY DEF Ineligible
<1> HIDE DEF checked, v
<1>5. v.eligible = TRUE \/ v.eligible = FALSE
  BY <1>1, <1>2, <1>4
<1>6. v.eligible = TRUE => /\ v.decision = "valid" /\ row # {}
                           /\ AllowedMaxUses(item.station, explicit) > 0
  BY <1>1, <1>2, <1>4
<1>7. v.eligible = FALSE => /\ v.decision \in Refusals
                            /\ input[r].kind # "online" => v.conflict \in RefusalTypes
  <2>1. "expired" \in Refusals /\ "NOT_AUTHORIZED_SERVER_SIDE" \in RefusalTypes
    BY DEF Refusals, RefusalTypes
  <2> QED
    BY <1>1, <1>2, <1>4, <2>1
<1> QED
  BY <1>3, <1>5, <1>6, <1>7, Zenon DEF v

-----------------------------------------------------------------------------
(* Where a handler is: what it has read, and what it holds, at each of its steps. *)

InTxn == {"lock", "read", "insert", "commit"}

\* The tables and the handlers have their shape.
Shape ==
  /\ logs \in [Operations -> LogRow \cup {NoLog}]
  /\ consumptions = [g \in Groups |-> [i \in Slots |-> consumptions[g][i]]]
  /\ conflicts = [o \in Operations |-> conflicts[o]]
  /\ rules \in [Groups -> Nat] /\ \A g \in Groups : rules[g] \in {0, MaxUses[g]}
  /\ now \in 0 .. MaxNow /\ scenario \in Scenarios
  /\ locks \in [Groups -> Requests \cup {Free}]
  /\ keys \in [Operations -> Requests \cup {Free}]
  /\ pc \in [Requests -> {"idle", "replay", "load", "lock", "read", "insert", "commit", "done"}]
  /\ DOMAIN input = Requests /\ received \in [Requests -> Int]
  /\ DOMAIN txn = Requests /\ DOMAIN answer = Requests
  /\ \A r \in Requests : answer[r].status \in {"none", "ok", "busy", "lost"}

\* A request is one of those that may come, and has a transaction while its handler does.
Called(r) ==
  /\ pc[r] = "idle" => input[r] = NoInput
  /\ pc[r] # "idle" => InputType(input[r])
  /\ pc[r] \notin InTxn => txn[r] = NoTxn
  /\ txn[r] = [verdict |-> txn[r].verdict, uses |-> txn[r].uses, groups |-> txn[r].groups,
               seen |-> txn[r].seen, fresh |-> txn[r].fresh, tried |-> txn[r].tried,
               inserted |-> txn[r].inserted]

\* What load_tickets and load_rules said: an item that was let in names a group that will be
\* locked, with the uses that the ledger gives it.
VerdictHolds(r, i) ==
  LET v == txn[r].verdict[i]
      g == GroupOf(input[r], i)
  IN  /\ v.eligible \in BOOLEAN
      /\ v.eligible => /\ v.decision = "valid" /\ g \in txn[r].groups
                       /\ txn[r].uses[g] = MaxUses[g] /\ MaxUses[g] > 0
      /\ ~v.eligible => /\ v.decision \in Refusals
                        /\ input[r].kind # "online" => v.conflict \in RefusalTypes

Loaded(r) ==
  /\ txn[r].groups \subseteq Groups /\ IsFiniteSet(txn[r].groups)
  /\ txn[r].groups \subseteq DOMAIN txn[r].uses
  /\ \A i \in Parsed(input[r]) : VerdictHolds(r, i)

\* What find_operations and fetch_claims said is still so, and the keys of the rows that were
\* inserted are the handler's.
JournalRead(r) ==
  /\ txn[r].fresh \subseteq Parsed(input[r])
  /\ input[r].kind = "online" => txn[r].fresh = {1}
  /\ \A g \in txn[r].groups : txn[r].seen[g] = ClaimsOf(g)
  /\ txn[r].tried \subseteq txn[r].fresh /\ txn[r].inserted \subseteq txn[r].tried
  /\ \A i \in txn[r].inserted :
       logs[input[r].items[i].op] = NoLog /\ keys[input[r].items[i].op] = r
  /\ \A i \in txn[r].tried \ txn[r].inserted : logs[input[r].items[i].op] # NoLog
  /\ pc[r] = "commit" => txn[r].tried = txn[r].fresh

\* Locks are taken in their order, kept until the end, and given up then, as are keys.
Holds(r) ==
  /\ pc[r] \in {"read", "insert", "commit"} => \A g \in txn[r].groups : locks[g] = r
  /\ \A g \in Groups : locks[g] = r => pc[r] \in InTxn /\ g \in txn[r].groups
  /\ pc[r] = "lock" =>
       \A g \in Groups, h \in Wanted(r) : locks[g] = r => LockOrder[g] < LockOrder[h]
  /\ \A o \in Operations : keys[o] = r => pc[r] \in {"insert", "commit"}

Handler(r) ==
  /\ Called(r)
  /\ pc[r] \in InTxn => Loaded(r)
  /\ pc[r] \in {"lock", "read"} => txn[r].fresh = {} /\ txn[r].tried = {} /\ txn[r].inserted = {}
  /\ pc[r] \in {"insert", "commit"} => JournalRead(r)
  /\ Holds(r)

Control == Shape /\ \A r \in Requests : Handler(r)

-----------------------------------------------------------------------------
\* A handler that a step leaves alone is where it was.
LEMMA FrameHandler ==
  ASSUME Control, NEW q \in Requests, UNCHANGED logs,
         pc'[q] = pc[q], input'[q] = input[q], received'[q] = received[q], txn'[q] = txn[q],
         \A g \in Groups : locks'[g] = q <=> locks[g] = q,
         \A o \in Operations : keys'[o] = q <=> keys[o] = q
  PROVE  Handler(q)'
<1>1. Handler(q)
  BY DEF Control
<1>2. \A g : ClaimsOf(g)' = ClaimsOf(g)
  BY DEF ClaimsOf
<1>3. Wanted(q)' = Wanted(q)
  <2>1. txn[q].groups \subseteq Groups \/ pc[q] \notin InTxn
    BY <1>1 DEF Handler, Loaded
  <2>2. pc[q] \notin InTxn => txn[q].groups = {}
    BY <1>1 DEF Handler, Called, NoTxn
  <2> QED
    BY <2>1, <2>2 DEF Wanted
<1>4. Called(q)'
  BY <1>1 DEF Handler, Called
<1>5. Loaded(q) => Loaded(q)'
  BY DEF Loaded, VerdictHolds
<1>6. JournalRead(q) /\ pc[q] \in {"insert", "commit"} => JournalRead(q)'
  <2> SUFFICES ASSUME JournalRead(q), pc[q] \in {"insert", "commit"} PROVE JournalRead(q)'
    OBVIOUS
  <2>1. \A i \in txn[q].inserted : input[q].items[i].op \in Operations
    BY <1>1, ParsedFacts DEF Handler, Called, JournalRead
  <2> QED
    BY <1>2, <2>1 DEF JournalRead
<1>7. Holds(q)'
  <2>1. Holds(q) /\ pc'[q] = pc[q] /\ txn'[q] = txn[q]
    BY <1>1 DEF Handler
  <2>2. (pc[q] \in {"read", "insert", "commit"} => \A g \in txn[q].groups : locks[g] = q)'
    <3>1. pc[q] \in {"read", "insert", "commit"} => txn[q].groups \subseteq Groups
      BY <1>1 DEF Handler, Loaded, InTxn
    <3> QED
      BY <2>1, <3>1 DEF Holds
  <2> QED
    BY <1>3, <2>1, <2>2 DEF Holds
<1> QED
  BY <1>1, <1>4, <1>5, <1>6, <1>7 DEF Handler, InTxn

\* What a step says of the request whose handler takes it.
LEMMA EndKeeps ==
  ASSUME Control, NEW r \in Requests, pc[r] # "idle",
         NEW status \in {"ok", "busy", "lost"}, NEW results, End(r, status, results)
  PROVE  /\ Handler(r)'
         /\ \A q \in Requests \ {r} :
              /\ pc'[q] = pc[q] /\ input'[q] = input[q] /\ received'[q] = received[q]
              /\ txn'[q] = txn[q]
              /\ \A g \in Groups : locks'[g] = q <=> locks[g] = q
              /\ \A o \in Operations : keys'[o] = q <=> keys[o] = q
         /\ locks' \in [Groups -> Requests \cup {Free}]
         /\ keys' \in [Operations -> Requests \cup {Free}]
         /\ pc'[r] = "done" /\ pc' = [pc EXCEPT ![r] = "done"] /\ txn' = [txn EXCEPT ![r] = NoTxn]
         /\ answer' = [answer EXCEPT ![r] = [status |-> status, results |-> results]]
         /\ pc' \in [Requests -> {"idle", "replay", "load", "lock", "read", "insert", "commit",
                                  "done"}]
         /\ DOMAIN txn' = Requests /\ DOMAIN answer' = Requests
         /\ \A q \in Requests : answer'[q].status \in {"none", "ok", "busy", "lost"}
         /\ UNCHANGED <<facts, input, received>>
<1>1. Shape /\ Handler(r) /\ Free \notin Requests
  BY ServiceAssumption DEF Control
<1>2. /\ pc'[r] = "done" /\ txn'[r] = NoTxn /\ input' = input
      /\ answer'[r] = [status |-> status, results |-> results]
  BY <1>1 DEF End, Shape
<1>3. \A g \in Groups : locks'[g] # r /\ \A q \in Requests \ {r} : locks'[g] = q <=> locks[g] = q
  BY <1>1 DEF End
<1>4. \A o \in Operations : keys'[o] # r /\ \A q \in Requests \ {r} : keys'[o] = q <=> keys[o] = q
  BY <1>1 DEF End
<1>5. Called(r)'
  <2>1. Called(r)
    BY <1>1 DEF Handler
  <2> QED
    BY <1>2, <2>1 DEF Called, NoTxn, InTxn
<1>6. Handler(r)'
  BY <1>2, <1>3, <1>4, <1>5 DEF Handler, Holds, InTxn
<1>7. \A q \in Requests \ {r} :
        /\ pc'[q] = pc[q] /\ input'[q] = input[q] /\ received'[q] = received[q]
        /\ txn'[q] = txn[q]
  BY <1>1 DEF End, Shape
<1>8. /\ locks' \in [Groups -> Requests \cup {Free}]
      /\ keys' \in [Operations -> Requests \cup {Free}]
  BY <1>1 DEF End, Shape
<1>9. /\ pc' = [pc EXCEPT ![r] = "done"] /\ txn' = [txn EXCEPT ![r] = NoTxn]
      /\ answer' = [answer EXCEPT ![r] = [status |-> status, results |-> results]]
      /\ UNCHANGED <<facts, input, received>>
  BY DEF End
<1>10. /\ pc' \in [Requests -> {"idle", "replay", "load", "lock", "read", "insert", "commit",
                                "done"}]
       /\ DOMAIN txn' = Requests /\ DOMAIN answer' = Requests
  BY <1>1, <1>9 DEF Shape
<1>11. \A q \in Requests : answer'[q].status \in {"none", "ok", "busy", "lost"}
  BY <1>1, <1>2, <1>9 DEF Shape
<1> QED
  BY <1>2, <1>3, <1>4, <1>6, <1>7, <1>8, <1>9, <1>10, <1>11

LEMMA SubmitKeeps ==
  ASSUME Control, NEW r \in Requests, Submit(r)
  PROVE  Control'
<1>1. Shape /\ Handler(r)
  BY DEF Control
<1>2. PICK b \in scenario.inputs :
        /\ input' = [input EXCEPT ![r] = b]
        /\ Goto(r, IF b.kind = "online" THEN "replay" ELSE "load")
  BY DEF Submit
<1>3. InputType(b)
  BY <1>1, InputAssumption DEF Shape
<1>4. pc'[r] \in {"replay", "load"} /\ input'[r] = b /\ txn'[r] = NoTxn
  <2>1. txn[r] = NoTxn
    BY <1>1 DEF Handler, Called, Submit, InTxn
  <2> QED
    BY <1>1, <1>2, <2>1 DEF Submit, Goto, Shape
<1>5. Called(r)'
  BY <1>3, <1>4 DEF Called, NoTxn, InTxn
<1>6. \A g \in Groups : locks'[g] # r
  BY <1>1 DEF Handler, Holds, Submit, InTxn
<1>7. \A o \in Operations : keys'[o] # r
  BY <1>1 DEF Handler, Holds, Submit, InTxn
<1>8. Handler(r)'
  BY <1>4, <1>5, <1>6, <1>7 DEF Handler, Holds, InTxn
<1>9. ASSUME NEW q \in Requests \ {r} PROVE Handler(q)'
  <2>1. /\ UNCHANGED <<logs, locks, keys>> /\ pc'[q] = pc[q] /\ input'[q] = input[q]
        /\ received'[q] = received[q] /\ txn'[q] = txn[q]
    BY <1>1, <1>2 DEF Submit, Goto, Shape, tables
  <2> QED
    BY <2>1, FrameHandler
<1>10. Shape'
  <2>1. now \in Int /\ received' = [received EXCEPT ![r] = now]
    BY <1>1 DEF Submit, Shape
  <2>2. /\ received' \in [Requests -> Int] /\ DOMAIN input' = Requests
        /\ pc' \in [Requests -> {"idle", "replay", "load", "lock", "read", "insert", "commit",
                                 "done"}]
    BY <1>1, <1>2, <2>1 DEF Shape, Goto
  <2> QED
    BY <1>1, <2>2 DEF Shape, Submit, tables, facts
<1> QED
  BY <1>8, <1>9, <1>10 DEF Control

\* Ends without a commit.
LEMMA EndedKeeps ==
  ASSUME Control, NEW r \in Requests, pc[r] # "idle",
         NEW status \in {"ok", "busy", "lost"}, NEW results, End(r, status, results),
         UNCHANGED tables
  PROVE  Control'
<1>1. Shape
  BY DEF Control
<1>2. Handler(r)'
  BY EndKeeps
<1>3. ASSUME NEW q \in Requests \ {r} PROVE Handler(q)'
  <2>1. /\ pc'[q] = pc[q] /\ input'[q] = input[q] /\ received'[q] = received[q]
        /\ txn'[q] = txn[q]
        /\ \A g \in Groups : locks'[g] = q <=> locks[g] = q
        /\ \A o \in Operations : keys'[o] = q <=> keys[o] = q
    BY EndKeeps
  <2>2. UNCHANGED logs
    BY DEF tables
  <2> QED
    BY <2>1, <2>2, FrameHandler
<1>4. Shape'
  <2>1. /\ locks' \in [Groups -> Requests \cup {Free}]
        /\ keys' \in [Operations -> Requests \cup {Free}]
        /\ pc' \in [Requests -> {"idle", "replay", "load", "lock", "read", "insert", "commit",
                                 "done"}]
        /\ DOMAIN txn' = Requests /\ DOMAIN answer' = Requests
        /\ \A q \in Requests : answer'[q].status \in {"none", "ok", "busy", "lost"}
        /\ UNCHANGED <<facts, input, received>>
    BY EndKeeps
  <2> QED
    BY <1>1, <2>1 DEF Shape, tables, facts
<1> QED
  BY <1>2, <1>3, <1>4 DEF Control

LEMMA UnjournaledEndsKeep ==
  ASSUME Control, NEW r \in Requests, Timeout(r) \/ Crash(r) \/ Rollback(r)
  PROVE  Control'
<1>1. CASE Timeout(r)
  BY <1>1, EndedKeeps DEF Timeout, Blocked
<1>2. CASE Crash(r)
  BY <1>2, EndedKeeps DEF Crash
<1>3. CASE Rollback(r)
  BY <1>3, EndedKeeps DEF Rollback
<1> QED
  BY <1>1, <1>2, <1>3

LEMMA ReplayLookupKeeps ==
  ASSUME Control, NEW r \in Requests, ReplayLookup(r)
  PROVE  Control'
<1>1. Shape /\ Handler(r) /\ pc[r] = "replay"
  BY DEF Control, ReplayLookup
<1>2. CASE logs[input[r].items[1].op] # NoLog
  BY <1>1, <1>2, EndedKeeps DEF ReplayLookup
<1>3. CASE logs[input[r].items[1].op] = NoLog
  <2>1. Goto(r, "load") /\ UNCHANGED <<tables, facts, locks, keys, input, received, txn, answer>>
    BY <1>3 DEF ReplayLookup
  <2>2. pc'[r] = "load" /\ \A q \in Requests \ {r} : pc'[q] = pc[q]
    BY <1>1, <2>1 DEF Goto, Shape
  <2>3. Called(r)' /\ \A g \in Groups : locks'[g] # r
    BY <1>1, <2>1, <2>2 DEF Handler, Called, Holds, InTxn
  <2>4. \A o \in Operations : keys'[o] # r
    BY <1>1, <2>1 DEF Handler, Holds
  <2>5. Handler(r)'
    BY <2>2, <2>3, <2>4 DEF Handler, Holds, InTxn
  <2>6. ASSUME NEW q \in Requests \ {r} PROVE Handler(q)'
    BY <2>1, <2>2, FrameHandler DEF tables
  <2>7. Shape'
    BY <1>1, <2>1 DEF Shape, tables, facts, Goto
  <2> QED
    BY <2>5, <2>6, <2>7 DEF Control
<1> QED
  BY <1>2, <1>3

\* Steps that change nothing but where their handler is and what it has read.
LEMMA LocalStep ==
  ASSUME Control, NEW r \in Requests, pc[r] # "done",
         NEW label \in {"lock", "read", "insert", "commit"}, pc' = [pc EXCEPT ![r] = label],
         DOMAIN txn' = Requests, \A q \in Requests \ {r} : txn'[q] = txn[q],
         UNCHANGED <<tables, facts, locks, keys, input, received, answer>>, Handler(r)'
  PROVE  Control'
<1>1. Shape
  BY DEF Control
<1>2. ASSUME NEW q \in Requests \ {r} PROVE Handler(q)'
  <2>1. pc'[q] = pc[q] /\ txn'[q] = txn[q]
    BY <1>1 DEF Shape
  <2> QED
    BY <2>1, FrameHandler DEF tables
<1>3. Shape'
  <2>1. pc' \in [Requests -> {"idle", "replay", "load", "lock", "read", "insert", "commit",
                              "done"}]
    BY <1>1 DEF Shape
  <2> QED
    BY <1>1, <2>1 DEF Shape, tables, facts
<1> QED
  BY <1>2, <1>3 DEF Control

LEMMA LoadReferenceKeeps ==
  ASSUME Control, NEW r \in Requests, LoadReference(r)
  PROVE  Control'
<1> DEFINE b == input[r]
           parsed == Parsed(b)
           known == {i \in parsed : /\ b.items[i].ticket # NoTicket
                                    /\ tickets[b.items[i].ticket] # {}}
           locked == IF b.kind = "sync" THEN known ELSE {i \in known : Verdict(r, i).eligible}
           groups == {GroupOf(b, i) : i \in locked}
           uses == [g \in {GroupOf(b, i) : i \in parsed} |-> AllowedMaxUses(g[2], Explicit(g[1]))]
           verdict == [i \in parsed |-> Verdict(r, i)]
           value == [txn[r] EXCEPT !.verdict = verdict, !.groups = groups, !.uses = uses]
<1>1. Shape /\ Handler(r) /\ pc[r] = "load" /\ InputType(b) /\ txn[r] = NoTxn
  BY DEF Control, LoadReference, Handler, Called, InTxn
<1>2. /\ txn' = [txn EXCEPT ![r] = value] /\ Goto(r, "lock")
      /\ UNCHANGED <<tables, facts, locks, keys, input, received, answer>>
  BY DEF LoadReference
<1>3. txn'[r] = value /\ pc'[r] = "lock" /\ input'[r] = b
  BY <1>1, <1>2 DEF Shape, Goto
<1>4. /\ value.verdict = verdict /\ value.groups = groups /\ value.uses = uses
      /\ value.fresh = {} /\ value.tried = {} /\ value.inserted = {}
      /\ value = [verdict |-> value.verdict, uses |-> value.uses, groups |-> value.groups,
                  seen |-> value.seen, fresh |-> value.fresh, tried |-> value.tried,
                  inserted |-> value.inserted]
  <2> HIDE DEF verdict, groups, uses
  <2>1. value = [verdict |-> verdict, uses |-> uses, groups |-> groups,
                 seen |-> << >>, fresh |-> {}, tried |-> {}, inserted |-> {}]
    <3>1. value = [NoTxn EXCEPT !.verdict = verdict, !.groups = groups, !.uses = uses]
      BY <1>1, Zenon
    <3> HIDE DEF value
    <3> QED
      BY <3>1 DEF NoTxn
  <2> HIDE DEF value
  <2> QED
    BY <2>1
<1>5. locked \subseteq parsed /\ known \subseteq parsed
  OBVIOUS
<1>6. groups \subseteq Groups /\ IsFiniteSet(groups) /\ groups \subseteq DOMAIN uses
  <2>1. groups \subseteq Groups
    BY <1>1, <1>5, ParsedFacts
  <2>2. IsFiniteSet(locked)
    BY <1>1, <1>5, ParsedFacts, FS_Subset
  <2>3. IsFiniteSet(groups)
    <3> HIDE DEF locked
    <3>1. [i \in locked |-> GroupOf(b, i)] \in Surjection(locked, groups)
      BY DEF Surjection
    <3> QED
      BY <2>2, <3>1, FS_Surjection
  <2>4. groups \subseteq DOMAIN uses
    BY <1>5
  <2> QED
    BY <2>1, <2>3, <2>4
<1> HIDE DEF value
<1>7. ASSUME NEW i \in Parsed(b) PROVE VerdictHolds(r, i)'
  <2> DEFINE v == Verdict(r, i)
             g == GroupOf(b, i)
             item == b.items[i]
  <2>1. /\ (txn[r].verdict[i])' = v /\ (txn[r].groups)' = groups /\ (txn[r].uses)' = uses
        /\ GroupOf(input[r], i)' = g
    <3>1. verdict[i] = v
      OBVIOUS
    <3> HIDE DEF v, groups, uses, verdict
    <3> QED
      BY <1>3, <1>4, <3>1 DEF GroupOf
  <2>2. /\ v.eligible \in BOOLEAN
        /\ v.eligible => /\ v.decision = "valid"
                         /\ item.ticket # NoTicket /\ tickets[item.ticket] # {}
                         /\ AllowedMaxUses(item.station, Explicit(item.ticket)) > 0
        /\ ~v.eligible => /\ v.decision \in Refusals
                          /\ b.kind # "online" => v.conflict \in RefusalTypes
    BY VerdictFacts
  <2>3. v.eligible => g \in groups
    BY <2>2
  <2>4. uses[g] = AllowedMaxUses(item.station, Explicit(item.ticket))
    BY DEF GroupOf
  <2>5. item.station \in Stations /\ g \in Groups /\ g = <<item.ticket, item.station>>
    BY <1>1, ParsedFacts DEF WellFormed, GroupOf
  <2>6. AllowedMaxUses(item.station, Explicit(item.ticket)) = rules[g]
    BY <2>5 DEF AllowedMaxUses, Explicit
  <2>7. rules[g] \in {0, MaxUses[g]}
    BY <1>1, <2>5 DEF Shape
  <2>8. v.eligible => uses[g] = MaxUses[g] /\ MaxUses[g] > 0
    BY <2>2, <2>4, <2>6, <2>7
  <2>9. input'[r].kind = b.kind
    BY <1>3
  <2> HIDE DEF v, groups, uses, g
  <2> QED
    BY <2>1, <2>2, <2>3, <2>8, <2>9 DEF VerdictHolds
<1>8. Loaded(r)'
  <2>1. (txn[r].groups)' = groups /\ (txn[r].uses)' = uses
    <3> HIDE DEF groups, uses
    <3> QED
      BY <1>3, <1>4
  <2>2. Parsed(input[r])' = Parsed(b)
    BY <1>3 DEF Parsed, WellFormed, Indices
  <2> HIDE DEF groups, uses
  <2> QED
    BY <1>6, <1>7, <2>1, <2>2 DEF Loaded
<1>9. Called(r)'
  <2> HIDE DEF verdict, groups, uses
  <2> QED
    BY <1>1, <1>3, <1>4 DEF Called, InTxn
<1>10. Holds(r)'
  <2>1. \A g \in Groups : locks[g] # r
    BY <1>1 DEF Handler, Holds, InTxn
  <2>2. \A o \in Operations : keys[o] # r
    BY <1>1 DEF Handler, Holds
  <2> QED
    BY <1>2, <1>3, <2>1, <2>2 DEF Holds
<1>11. Handler(r)'
  <2>1. txn'[r].fresh = {} /\ txn'[r].tried = {} /\ txn'[r].inserted = {}
    BY <1>3, <1>4
  <2> QED
    BY <1>3, <1>8, <1>9, <1>10, <2>1 DEF Handler
<1>12. /\ pc' = [pc EXCEPT ![r] = "lock"] /\ pc[r] # "done"
       /\ DOMAIN txn' = Requests /\ \A q \in Requests \ {r} : txn'[q] = txn[q]
  BY <1>1, <1>2 DEF Goto, Shape
<1> QED
  BY <1>2, <1>11, <1>12, LocalStep

\* The lock that a handler asks for next is the smallest of those it still wants.
LEMMA NextLockFacts ==
  ASSUME Control, NEW r \in Requests, pc[r] = "lock", Wanted(r) # {}
  PROVE  /\ NextLock(r) \in Wanted(r) /\ NextLock(r) \in Groups
         /\ \A h \in Wanted(r) : LockOrder[NextLock(r)] <= LockOrder[h]
<1>1. Wanted(r) \subseteq Groups /\ IsFiniteSet(Wanted(r))
  <2>1. txn[r].groups \subseteq Groups /\ IsFiniteSet(txn[r].groups)
    BY DEF Control, Handler, Loaded, InTxn
  <2> QED
    BY <2>1, FS_Subset DEF Wanted
<1> DEFINE S == {LockOrder[g] : g \in Wanted(r)}
<1>2. S \in SUBSET Nat /\ S # {}
  BY <1>1, ServiceAssumption
<1>3. IsFiniteSet(S)
  <2>1. [g \in Wanted(r) |-> LockOrder[g]] \in Surjection(Wanted(r), S)
    BY DEF Surjection
  <2> QED
    BY <1>1, <2>1, FS_Surjection
<1>4. \E m \in S : \A n \in S : m <= n
  <2> HIDE DEF S
  <2> QED
    BY <1>2, <1>3, SmallestNumber
<1>5. \E g \in Wanted(r) : \A h \in Wanted(r) : LockOrder[g] <= LockOrder[h]
  BY <1>4
<1> QED
  BY <1>1, <1>5 DEF NextLock

LEMMA LockKeeps ==
  ASSUME Control, NEW r \in Requests, Lock(r)
  PROVE  Control'
<1>1. Shape /\ Handler(r) /\ pc[r] = "lock" /\ Free \notin Requests
  BY ServiceAssumption DEF Control, Lock
<1>2. UNCHANGED <<tables, facts, keys, input, received, txn, answer>>
  BY DEF Lock
<1>3. CASE Wanted(r) = {}
  <2>1. Goto(r, "read") /\ UNCHANGED locks
    BY <1>3 DEF Lock
  <2>2. pc'[r] = "read" /\ DOMAIN txn' = Requests /\ input' = input /\ txn' = txn
    BY <1>1, <1>2, <2>1 DEF Goto, Shape
  <2>3. Called(r)' /\ Loaded(r)'
    <3>1. Called(r) /\ Loaded(r)
      BY <1>1 DEF Handler, InTxn
    <3>2. Called(r)'
      BY <1>1, <2>2, <3>1 DEF Called, InTxn
    <3>3. Loaded(r)'
      BY <2>2, <3>1 DEF Loaded, VerdictHolds, Parsed, WellFormed, Indices, GroupOf
    <3> QED
      BY <3>2, <3>3
  <2>4. Holds(r)'
    <3>1. \A g \in txn[r].groups : locks[g] = r
      BY <1>3 DEF Wanted
    <3> QED
      BY <1>1, <1>2, <2>1, <2>2, <3>1 DEF Handler, Holds, InTxn
  <2>5. Handler(r)'
    BY <1>1, <2>2, <2>3, <2>4 DEF Handler
  <2> QED
    BY <1>1, <1>2, <2>1, <2>2, <2>5, LocalStep DEF Goto
<1>4. CASE Wanted(r) # {}
  <2> DEFINE n == NextLock(r)
  <2>1. locks[n] = Free /\ locks' = [locks EXCEPT ![n] = r] /\ UNCHANGED pc
    BY <1>4 DEF Lock
  <2>2. n \in Wanted(r) /\ n \in Groups /\ \A h \in Wanted(r) : LockOrder[n] <= LockOrder[h]
    BY <1>1, <1>4, NextLockFacts
  <2> HIDE DEF n
  <2>3. /\ \A g \in Groups : locks'[g] = IF g = n THEN r ELSE locks[g]
        /\ locks' \in [Groups -> Requests \cup {Free}]
    BY <1>1, <2>1, <2>2 DEF Shape
  <2>4. ASSUME NEW q \in Requests \ {r} PROVE Handler(q)'
    BY <1>1, <1>2, <2>1, <2>3, FrameHandler DEF tables
  <2>5. Holds(r)'
    <3>1. /\ txn[r].groups \subseteq Groups /\ n \in txn[r].groups
          /\ Wanted(r)' = Wanted(r) \ {n}
      BY <1>1, <1>2, <2>1, <2>2, <2>3 DEF Handler, Loaded, Wanted, InTxn
    <3>2. \A h \in Wanted(r)' : LockOrder[n] < LockOrder[h]
      <4>1. \A h \in Wanted(r)' : h \in Groups /\ h # n /\ LockOrder[n] <= LockOrder[h]
        BY <2>2, <3>1 DEF Wanted
      <4>2. \A h \in Groups : LockOrder[h] \in Nat
        BY ServiceAssumption
      <4> QED
        BY <2>2, <4>1, <4>2, ServiceAssumption
    <3>3. Holds(r)
      BY <1>1 DEF Handler
    <3>4. \A g \in Groups, h \in Wanted(r)' : locks'[g] = r => LockOrder[g] < LockOrder[h]
      BY <1>1, <2>3, <3>1, <3>2, <3>3 DEF Holds
    <3>5. \A g \in Groups : locks'[g] = r => g \in txn[r].groups
      BY <2>3, <3>1, <3>3 DEF Holds
    <3>6. \A o \in Operations : keys[o] # r
      BY <1>1, <3>3 DEF Holds
    <3> QED
      BY <1>1, <1>2, <2>1, <3>4, <3>5, <3>6 DEF Holds, InTxn
  <2>6. Handler(r)'
    <3>1. Called(r) /\ Loaded(r)
      BY <1>1 DEF Handler, InTxn
    <3>2. Called(r)'
      BY <1>2, <2>1, <3>1 DEF Called
    <3>3. Loaded(r)'
      BY <1>2, <3>1 DEF Loaded, VerdictHolds, Parsed, WellFormed, Indices, GroupOf
    <3> QED
      BY <1>1, <1>2, <2>1, <2>5, <3>2, <3>3 DEF Handler
  <2>7. Shape'
    BY <1>1, <1>2, <2>1, <2>3 DEF Shape, tables, facts
  <2> QED
    BY <2>4, <2>6, <2>7 DEF Control
<1> QED
  BY <1>3, <1>4

LEMMA ReadJournalKeeps ==
  ASSUME Control, NEW r \in Requests, ReadJournal(r)
  PROVE  Control'
<1> DEFINE b == input[r]
           fresh == IF b.kind = "online" THEN {1} ELSE {i \in Parsed(b) : logs[b.items[i].op] = NoLog}
           seen == [g \in DOMAIN txn[r].uses |-> IF g \in txn[r].groups THEN ClaimsOf(g) ELSE {}]
           value == [txn[r] EXCEPT !.fresh = fresh, !.seen = seen]
           t == txn[r]
<1>1. /\ Shape /\ Handler(r) /\ pc[r] = "read" /\ InputType(b) /\ Loaded(r) /\ Called(r)
      /\ t.fresh = {} /\ t.tried = {} /\ t.inserted = {}
  BY DEF Control, ReadJournal, Handler, Called, InTxn
<1>2. /\ txn' = [txn EXCEPT ![r] = value] /\ Goto(r, "insert")
      /\ UNCHANGED <<tables, facts, locks, keys, input, received, answer>>
  BY DEF ReadJournal
<1>3. txn'[r] = value /\ pc'[r] = "insert" /\ input'[r] = b /\ logs' = logs /\ keys' = keys
  BY <1>1, <1>2 DEF Shape, Goto, tables
<1>4. t = [verdict |-> t.verdict, uses |-> t.uses, groups |-> t.groups, seen |-> t.seen,
           fresh |-> t.fresh, tried |-> t.tried, inserted |-> t.inserted]
  BY <1>1, Zenon DEF Called
<1>5. /\ value.verdict = t.verdict /\ value.groups = t.groups /\ value.uses = t.uses
      /\ value.fresh = fresh /\ value.seen = seen /\ value.tried = {} /\ value.inserted = {}
      /\ value = [verdict |-> value.verdict, uses |-> value.uses, groups |-> value.groups,
                  seen |-> value.seen, fresh |-> value.fresh, tried |-> value.tried,
                  inserted |-> value.inserted]
  <2> HIDE DEF fresh, seen, t
  <2>1. value = [verdict |-> t.verdict, uses |-> t.uses, groups |-> t.groups,
                 seen |-> seen, fresh |-> fresh, tried |-> t.tried, inserted |-> t.inserted]
    <3>1. value = [t EXCEPT !.fresh = fresh, !.seen = seen]
      BY DEF t
    <3> HIDE DEF value
    <3> QED
      BY <1>4, <3>1
  <2>2. t.tried = {} /\ t.inserted = {}
    BY <1>1 DEF t
  <2> HIDE DEF value
  <2> QED
    BY <2>1, <2>2
<1> HIDE DEF value
<1>6. fresh \subseteq Parsed(b) /\ (b.kind = "online" => fresh = {1})
  <2>1. b.kind = "online" => Parsed(b) = {1}
    <3>1. 1 \in Indices(b)
      BY <1>1 DEF InputType, Indices
    <3> QED
      BY <1>1, <3>1, ItemFacts
  <2> QED
    BY <2>1
<1>7. \A g \in t.groups : seen[g] = ClaimsOf(g)
  BY <1>1 DEF Loaded
<1>8. JournalRead(r)'
  <2>1. \A g : ClaimsOf(g)' = ClaimsOf(g)
    BY <1>3 DEF ClaimsOf
  <2>2. Parsed(input[r])' = Parsed(b)
    BY <1>3 DEF Parsed, WellFormed, Indices
  <2> HIDE DEF fresh, seen
  <2> QED
    BY <1>3, <1>5, <1>6, <1>7, <2>1, <2>2 DEF JournalRead
<1>9. Loaded(r)'
  <2>1. Parsed(input[r])' = Parsed(b)
    BY <1>3 DEF Parsed, WellFormed, Indices
  <2>2. \A i : VerdictHolds(r, i) => VerdictHolds(r, i)'
    BY <1>3, <1>5 DEF VerdictHolds, GroupOf
  <2> QED
    BY <1>1, <1>3, <1>5, <2>1, <2>2 DEF Loaded
<1>10. Called(r)'
  BY <1>1, <1>3, <1>5 DEF Called, InTxn
<1>11. Holds(r)'
  <2>1. Holds(r) /\ UNCHANGED <<locks, keys>>
    BY <1>1, <1>2 DEF Handler
  <2>2. (txn[r].groups)' = t.groups
    BY <1>3, <1>5
  <2> QED
    BY <1>1, <1>3, <2>1, <2>2 DEF Holds, InTxn
<1>12. Handler(r)'
  BY <1>3, <1>8, <1>9, <1>10, <1>11 DEF Handler
<1>13. /\ pc' = [pc EXCEPT ![r] = "insert"] /\ pc[r] # "done"
       /\ DOMAIN txn' = Requests /\ \A q \in Requests \ {r} : txn'[q] = txn[q]
  BY <1>1, <1>2 DEF Goto, Shape
<1> QED
  BY <1>2, <1>12, <1>13, LocalStep

\* The row that is inserted next is one that was not tried.
LEMMA NextRowFacts ==
  ASSUME Control, NEW r \in Requests, pc[r] = "insert", txn[r].tried # txn[r].fresh
  PROVE  /\ NextRow(r) \in txn[r].fresh \ txn[r].tried
         /\ NextRow(r) \in Parsed(input[r]) /\ input[r].items[NextRow(r)].op \in Operations
<1> DEFINE left == txn[r].fresh \ txn[r].tried
<1>1. /\ InputType(input[r]) /\ txn[r].fresh \subseteq Parsed(input[r])
      /\ txn[r].tried \subseteq txn[r].fresh
  BY DEF Control, Handler, Called, JournalRead
<1>2. left # {} /\ left \subseteq Parsed(input[r])
  BY <1>1
<1>3. IsFiniteSet(left) /\ left \in SUBSET Nat
  BY <1>1, <1>2, ParsedFacts, FS_Subset
<1>4. \E m \in left : \A n \in left : m <= n
  <2> HIDE DEF left
  <2> QED
    BY <1>2, <1>3, SmallestNumber
<1>5. NextRow(r) \in left
  BY <1>4 DEF NextRow
<1> QED
  BY <1>1, <1>2, <1>5, ParsedFacts

LEMMA InsertRowKeeps ==
  ASSUME Control, NEW r \in Requests, InsertRow(r)
  PROVE  Control'
<1> DEFINE b == input[r]
           t == txn[r]
<1>1. /\ Shape /\ Handler(r) /\ pc[r] = "insert" /\ InputType(b) /\ Loaded(r) /\ Called(r)
      /\ JournalRead(r) /\ Holds(r) /\ Free \notin Requests
  BY ServiceAssumption DEF Control, InsertRow, Handler, Called, InTxn
<1>2. UNCHANGED <<tables, facts, locks, input, received, answer>>
  BY DEF InsertRow
<1>3. CASE t.tried = t.fresh
  <2>1. Goto(r, "commit") /\ UNCHANGED <<keys, txn>>
    BY <1>3 DEF InsertRow
  <2>2. pc'[r] = "commit" /\ UNCHANGED <<input, txn, logs, locks, keys>>
    BY <1>1, <1>2, <2>1 DEF Goto, Shape, tables
  <2>3. Called(r)' /\ Loaded(r)' /\ Holds(r)'
    BY <1>1, <2>2 DEF Called, Loaded, VerdictHolds, Parsed, WellFormed, Indices, GroupOf, Holds,
                      InTxn
  <2>4. JournalRead(r)'
    BY <1>1, <1>3, <2>2 DEF JournalRead, ClaimsOf, Parsed, WellFormed, Indices
  <2>5. Handler(r)'
    BY <2>2, <2>3, <2>4 DEF Handler
  <2> QED
    BY <1>1, <1>2, <2>1, <2>5, LocalStep DEF Goto, Shape
<1>4. CASE t.tried # t.fresh
  <2> DEFINE i == NextRow(r)
             op == b.items[i].op
             inserted == IF logs[op] = NoLog THEN t.inserted \cup {i} ELSE t.inserted
             tried == t.tried \cup {i}
  <2>1. i \in t.fresh \ t.tried /\ i \in Parsed(b) /\ op \in Operations
    BY <1>1, <1>4, NextRowFacts
  <2>2. /\ keys[op] = Free /\ UNCHANGED pc
        /\ keys' = IF logs[op] = NoLog THEN [keys EXCEPT ![op] = r] ELSE keys
    BY <1>4 DEF InsertRow
  <2>3. /\ txn'[r] = [t EXCEPT !.tried = tried, !.inserted = inserted]
        /\ \A q \in Requests \ {r} : txn'[q] = txn[q]
        /\ DOMAIN txn' = Requests
    BY <1>1, <1>4 DEF InsertRow, Shape
  <2>4. /\ txn'[r].tried = tried /\ txn'[r].inserted = inserted /\ txn'[r].fresh = t.fresh
        /\ txn'[r].groups = t.groups /\ txn'[r].uses = t.uses /\ txn'[r].seen = t.seen
        /\ txn'[r].verdict = t.verdict
        /\ txn'[r] = [verdict |-> txn'[r].verdict, uses |-> txn'[r].uses,
                      groups |-> txn'[r].groups, seen |-> txn'[r].seen, fresh |-> txn'[r].fresh,
                      tried |-> txn'[r].tried, inserted |-> txn'[r].inserted]
    <3>1. t = [verdict |-> t.verdict, uses |-> t.uses, groups |-> t.groups, seen |-> t.seen,
               fresh |-> t.fresh, tried |-> t.tried, inserted |-> t.inserted]
      BY <1>1, Zenon DEF Called
    <3> HIDE DEF tried, inserted, t
    <3>2. txn'[r] = [verdict |-> t.verdict, uses |-> t.uses, groups |-> t.groups, seen |-> t.seen,
                     fresh |-> t.fresh, tried |-> tried, inserted |-> inserted]
      BY <2>3, <3>1
    <3> QED
      BY <3>2
  <2> HIDE DEF i
  <2>5. ASSUME NEW q \in Requests \ {r} PROVE Handler(q)'
    <3>1. \A o \in Operations : keys'[o] = q <=> keys[o] = q
      BY <1>1, <2>1, <2>2 DEF Shape
    <3> QED
      BY <1>1, <1>2, <2>2, <2>3, <3>1, FrameHandler DEF tables
  <2>6. Called(r)' /\ Loaded(r)'
    <3>1. UNCHANGED <<input, pc>>
      BY <1>2, <2>2
    <3>2. Called(r)'
      BY <1>1, <2>4, <3>1 DEF Called, InTxn
    <3>3. \A j : VerdictHolds(r, j) => VerdictHolds(r, j)'
      BY <2>4, <3>1 DEF VerdictHolds, GroupOf
    <3>4. Parsed(input[r])' = Parsed(b)
      BY <3>1 DEF Parsed, WellFormed, Indices
    <3>5. Loaded(r)'
      BY <1>1, <2>4, <3>3, <3>4 DEF Loaded
    <3> QED
      BY <3>2, <3>5
  <2>7. Holds(r)'
    <3>1. \A o \in Operations : keys'[o] = r => TRUE
      OBVIOUS
    <3> QED
      BY <1>1, <1>2, <2>2, <2>4 DEF Holds, InTxn
  <2>8. JournalRead(r)'
    <3>1. UNCHANGED <<input, pc, logs>>
      BY <1>2, <2>2 DEF tables
    <3>2. Parsed(input[r])' = Parsed(b) /\ \A g : ClaimsOf(g)' = ClaimsOf(g)
      BY <3>1 DEF Parsed, WellFormed, Indices, ClaimsOf
    <3>3. \A j \in inserted : logs[b.items[j].op] = NoLog /\ keys'[b.items[j].op] = r
      <4>1. \A j \in t.inserted : logs[b.items[j].op] = NoLog /\ keys[b.items[j].op] = r
        BY <1>1 DEF JournalRead
      <4>2. \A j \in t.inserted : b.items[j].op \in Operations
        BY <1>1, ParsedFacts DEF JournalRead
      <4>3. \A j \in t.inserted : keys'[b.items[j].op] = r
        BY <1>1, <2>1, <2>2, <4>1, <4>2 DEF Shape
      <4>4. logs[op] = NoLog => keys'[op] = r
        BY <1>1, <2>1, <2>2 DEF Shape
      <4> QED
        BY <4>1, <4>3, <4>4
    <3>4. \A j \in tried \ inserted : logs[b.items[j].op] # NoLog
      BY <1>1 DEF JournalRead
    <3>5. /\ tried \subseteq t.fresh /\ inserted \subseteq tried
          /\ t.fresh \subseteq Parsed(b) /\ (b.kind = "online" => t.fresh = {1})
          /\ \A g \in t.groups : t.seen[g] = ClaimsOf(g)
      BY <1>1, <2>1 DEF JournalRead
    <3> HIDE DEF tried, inserted
    <3> QED
      BY <1>1, <2>4, <3>1, <3>2, <3>3, <3>4, <3>5 DEF JournalRead
  <2>9. Handler(r)'
    BY <1>1, <2>2, <2>6, <2>7, <2>8 DEF Handler
  <2>10. Shape'
    <3>1. keys' \in [Operations -> Requests \cup {Free}]
      BY <1>1, <2>1, <2>2 DEF Shape
    <3> QED
      BY <1>1, <1>2, <2>2, <2>3, <3>1 DEF Shape, tables, facts
  <2> QED
    BY <2>5, <2>9, <2>10 DEF Control
<1> QED
  BY <1>3, <1>4

-----------------------------------------------------------------------------
(* What a commit makes visible. *)

\* A row that a handler writes is a journal row; if it claims, its group is one the handler
\* has locked, with the uses that the ledger gives it.
LEMMA RowFacts ==
  ASSUME Control, NEW r \in Requests, pc[r] = "commit", NEW i \in txn[r].fresh
  PROVE  /\ Row(r, i) \in LogRow
         /\ Row(r, i).group = GroupOf(input[r], i) /\ Row(r, i).group \in Groups
         /\ Row(r, i).terminal = input[r].terminal
         /\ Row(r, i).at = Clock(r, i).at /\ Row(r, i).suspect = Clock(r, i).suspect
         /\ Row(r, i).kind = Kind(r, i)
         /\ Kind(r, i) = "refused" => Row(r, i).verdict = txn[r].verdict[i].conflict
         /\ Kind(r, i) = "refused" <=> Row(r, i).verdict \in RefusalTypes
         /\ Claims(r, i) => /\ GroupOf(input[r], i) \in txn[r].groups
                            /\ Uses(r, GroupOf(input[r], i)) = MaxUses[GroupOf(input[r], i)]
                            /\ MaxUses[GroupOf(input[r], i)] > 0
         /\ Kind(r, i) = "claim" => Claims(r, i)
<1> DEFINE b == input[r]
           item == b.items[i]
           g == GroupOf(b, i)
           v == txn[r].verdict[i]
<1>1. /\ InputType(b) /\ i \in Parsed(b) /\ received[r] \in Int /\ VerdictHolds(r, i)
  BY DEF Control, Shape, Handler, Called, Loaded, JournalRead, InTxn
<1>2. /\ item \in Item /\ g \in Groups /\ item.station \in Stations
      /\ item.reported = "valid" => item.ticket # NoTicket
  BY <1>1, ParsedFacts DEF WellFormed
<1>3. Clock(r, i).at \in Int /\ Clock(r, i).suspect \in BOOLEAN
  <2>1. CASE b.kind = "online"
    BY <1>1, <2>1 DEF Clock
  <2>2. CASE b.kind # "online"
    <3>1. item.evaluated \in Int /\ b.delay \in Int
      BY <1>1, <1>2 DEF Item, InputType
    <3> DEFINE d == received[r] - (received[r] - b.delay)
               at == item.evaluated + d
    <3>2. d \in Int /\ at \in Int
      BY <1>1, <3>1
    <3>3. OffsetMax \in Int /\ FutureTolerance \in Int /\ MaxAge \in Int
      BY DomainAssumption
    <3>4. Clock(r, i) = [at |-> at, suspect |-> \/ d > OffsetMax \/ -d > OffsetMax
                                                \/ at > received[r] + FutureTolerance
                                                \/ at < received[r] - MaxAge]
      BY <2>2 DEF Clock, CorrectClock
    <3> HIDE DEF d, at
    <3> QED
      BY <1>1, <3>2, <3>3, <3>4
  <2> QED
    BY <2>1, <2>2
<1>4. Kind(r, i) \in {"claim", "refused", "evidence"}
  BY DEF Kind
<1>5. Kind(r, i) = "refused" => b.kind # "online" /\ ~v.eligible
  BY DEF Kind, Claims
<1>6. Kind(r, i) = "claim" => Claims(r, i)
  BY DEF Kind
<1>7. /\ v.eligible \in BOOLEAN
      /\ v.eligible => /\ v.decision = "valid" /\ g \in txn[r].groups
                       /\ txn[r].uses[g] = MaxUses[g] /\ MaxUses[g] > 0
      /\ ~v.eligible => v.decision \in Refusals /\ (b.kind # "online" => v.conflict \in RefusalTypes)
  BY <1>1 DEF VerdictHolds
<1>8. Decision(r, i) \in {"valid", "already_scanned", "not_authorized", "invalid", "expired",
                          "unknown", "wrong_event", "revoked"}
  <2>1. CASE v.eligible
    BY <2>1 DEF Decision
  <2>2. CASE ~v.eligible
    BY <1>7, <2>2 DEF Decision, Refusals
  <2> QED
    BY <2>1, <2>2
<1>9. Hash(b, i) \in [kind : {"online", "sync"}, terminal : Terminals, station : Stations,
                      evaluated : Int, reported : {"valid", "other"},
                      ticket : Tickets \cup {NoTicket}]
  <2>1. b.kind \in {"online", "sync"} /\ b.terminal \in Terminals
    BY <1>1 DEF InputType
  <2>2. /\ item.evaluated \in Int /\ item.reported \in {"valid", "other"}
        /\ item.ticket \in Tickets \cup {NoTicket}
    BY <1>2 DEF Item
  <2> QED
    BY <1>2, <2>1, <2>2 DEF Hash
<1> DEFINE said == IF Kind(r, i) = "refused" THEN v.conflict ELSE "none"
<1>10. /\ said \in {"none", "LATE_REVOKED", "NOT_AUTHORIZED_SERVER_SIDE"}
       /\ Kind(r, i) = "refused" <=> said \in RefusalTypes
  BY <1>5, <1>7 DEF RefusalTypes
<1>11. Row(r, i) = [hash |-> Hash(b, i), group |-> g, terminal |-> b.terminal,
                    at |-> Clock(r, i).at, suspect |-> Clock(r, i).suspect, kind |-> Kind(r, i),
                    verdict |-> said, decision |-> Decision(r, i)]
  BY DEF Row
<1>12. b.terminal \in Terminals
  BY <1>1 DEF InputType
<1>13. Row(r, i) \in LogRow
  <2> HIDE DEF g, said, b
  <2> QED
    BY <1>2, <1>3, <1>4, <1>8, <1>9, <1>10, <1>11, <1>12 DEF LogRow, b, g
<1>14. Row(r, i).verdict = said /\ (Kind(r, i) = "refused" => said = v.conflict)
  BY <1>11
<1>15. Claims(r, i) => g \in txn[r].groups /\ Uses(r, g) = MaxUses[g] /\ MaxUses[g] > 0
  BY <1>7 DEF Claims, Uses
<1>16. /\ Row(r, i).group = g /\ Row(r, i).terminal = b.terminal
       /\ Row(r, i).at = Clock(r, i).at /\ Row(r, i).suspect = Clock(r, i).suspect
       /\ Row(r, i).kind = Kind(r, i)
  BY <1>11
<1> QED
  BY <1>2, <1>6, <1>10, <1>13, <1>14, <1>15, <1>16

\* A commit adds the rows that its handler inserted, each under an operation that had none
\* and whose key the handler holds, and leaves the other rows alone.
LEMMA CommitFacts ==
  ASSUME Control, NEW r \in Requests, Commit(r)
  PROVE  /\ \A i \in txn[r].inserted :
              LET o == input[r].items[i].op
              IN  /\ o \in Operations /\ logs[o] = NoLog /\ keys[o] = r
                  /\ logs'[o] = Row(r, i) /\ logs'[o] # NoLog
         /\ \A o \in Operations :
              (\A i \in txn[r].inserted : input[r].items[i].op # o) => logs'[o] = logs[o]
         /\ \A o \in Operations : logs[o] # NoLog => logs'[o] = logs[o]
         /\ logs' \in [Operations -> LogRow \cup {NoLog}]
<1> DEFINE b == input[r]
           mine == txn[r].inserted
<1>1. /\ InputType(b) /\ JournalRead(r) /\ mine \subseteq Parsed(b) /\ mine \subseteq txn[r].fresh
      /\ pc[r] = "commit" /\ logs \in [Operations -> LogRow \cup {NoLog}]
  BY DEF Control, Shape, Handler, Called, JournalRead, Commit
<1>2. \A i \in mine : b.items[i].op \in Operations
  BY <1>1, ParsedFacts
<1>3. \A i, j \in mine : b.items[i].op = b.items[j].op => i = j
  BY <1>1, ParsedFacts
<1>4. /\ \A o \in Operations :
           logs'[o] = IF \E i \in mine : b.items[i].op = o
                      THEN Row(r, CHOOSE i \in mine : b.items[i].op = o)
                      ELSE logs[o]
      /\ DOMAIN logs' = Operations /\ logs' = [o \in Operations |-> logs'[o]]
  BY DEF Commit, WriteLogs
<1>5. \A i \in mine : logs'[b.items[i].op] = Row(r, i)
  BY <1>2, <1>3, <1>4
<1>6. \A i \in mine : Row(r, i) \in LogRow
  BY <1>1, RowFacts
<1>7. \A i \in mine : logs[b.items[i].op] = NoLog /\ keys[b.items[i].op] = r
  BY <1>1 DEF JournalRead
<1>8. \A o \in Operations : (\A i \in mine : b.items[i].op # o) => logs'[o] = logs[o]
  BY <1>4
<1>9. \A o \in Operations : logs'[o] \in LogRow \cup {NoLog}
  BY <1>1, <1>5, <1>6, <1>8
<1>10. \A o \in Operations : logs[o] # NoLog => logs'[o] = logs[o]
  BY <1>7, <1>8
<1>11. \A i \in mine : logs'[b.items[i].op] # NoLog
  BY <1>5, <1>6, TableAssumption
<1> QED
  BY <1>2, <1>4, <1>5, <1>7, <1>8, <1>9, <1>10, <1>11

\* What another handler has read stays true: it holds the locks of its groups.
LEMMA CommitFrame ==
  ASSUME Control, NEW r \in Requests, Commit(r), NEW q \in Requests \ {r}
  PROVE  Handler(q)'
<1>1. /\ Handler(q) /\ Handler(r) /\ pc[r] = "commit"
      /\ pc'[q] = pc[q] /\ input'[q] = input[q] /\ received'[q] = received[q] /\ txn'[q] = txn[q]
      /\ \A g \in Groups : locks'[g] = q <=> locks[g] = q
      /\ \A o \in Operations : keys'[o] = q <=> keys[o] = q
  BY EndKeeps DEF Control, Commit
<1>2. ASSUME NEW g \in Groups, locks[g] = q PROVE ClaimsOf(g)' = ClaimsOf(g)
  <2>1. ASSUME NEW o \in Operations, logs'[o] # logs[o]
        PROVE  logs[o] = NoLog /\ ~(logs'[o].group = g /\ logs'[o].kind = "claim")
    <3>1. PICK i \in txn[r].inserted : input[r].items[i].op = o
      BY <2>1, CommitFacts
    <3>2. logs[o] = NoLog /\ logs'[o] = Row(r, i)
      BY <3>1, CommitFacts
    <3>3. i \in txn[r].fresh
      BY <1>1 DEF Handler, JournalRead
    <3>4. Row(r, i).kind = "claim" => Row(r, i).group \in txn[r].groups
      BY <1>1, <3>3, RowFacts
    <3>5. \A h \in txn[r].groups : locks[h] = r
      BY <1>1 DEF Handler, Holds
    <3> QED
      BY <1>2, <3>2, <3>4, <3>5
  <2>2. \A o \in Operations :
          logs'[o] # NoLog /\ logs'[o].group = g /\ logs'[o].kind = "claim" =>
            logs'[o] = logs[o]
    BY <2>1
  <2>3. \A o \in Operations : logs[o] # NoLog => logs'[o] = logs[o]
    BY CommitFacts
  <2>4. \A o \in Operations :
          logs'[o] # NoLog /\ logs'[o].group = g /\ logs'[o].kind = "claim" <=>
          logs[o] # NoLog /\ logs[o].group = g /\ logs[o].kind = "claim"
    BY <2>2, <2>3
  <2> DEFINE mine == {p \in Operations : logs[p] # NoLog /\ logs[p].group = g /\ logs[p].kind = "claim"}
  <2>5. mine' = mine
    BY <2>4
  <2>6. \A o \in mine : logs'[o] = logs[o]
    BY <2>3
  <2> QED
    BY <2>5, <2>6 DEF ClaimsOf
<1>3. Called(q)'
  BY <1>1 DEF Handler, Called
<1>4. Loaded(q) => Loaded(q)'
  <2>1. input'[q] = input[q] /\ txn'[q] = txn[q]
    BY <1>1
  <2>2. Parsed(input[q])' = Parsed(input[q])
    BY <2>1 DEF Parsed, WellFormed, Indices
  <2>3. \A i : VerdictHolds(q, i) => VerdictHolds(q, i)'
    BY <2>1 DEF VerdictHolds, GroupOf
  <2> QED
    BY <2>1, <2>2, <2>3 DEF Loaded
<1>5. ASSUME JournalRead(q), pc[q] \in {"insert", "commit"} PROVE JournalRead(q)'
  <2>1. /\ InputType(input[q]) /\ \A g \in txn[q].groups : g \in Groups /\ locks[g] = q
    BY <1>1, <1>5 DEF Handler, Called, Holds, Loaded, InTxn
  <2>2. \A g \in txn[q].groups : ClaimsOf(g)' = ClaimsOf(g)
    BY <1>2, <2>1
  <2>3. \A i \in txn[q].tried : input[q].items[i].op \in Operations
    BY <1>5, <2>1, ParsedFacts DEF JournalRead
  <2>4. ASSUME NEW i \in txn[q].inserted PROVE logs'[input[q].items[i].op] = NoLog
    <3> DEFINE o == input[q].items[i].op
    <3>1. o \in Operations /\ logs[o] = NoLog /\ keys[o] = q
      BY <1>5, <2>3 DEF JournalRead
    <3>2. logs'[o] = logs[o]
      BY <3>1, CommitFacts
    <3> QED
      BY <3>1, <3>2
  <2>5. \A i \in txn[q].inserted : keys'[input[q].items[i].op] = q
    BY <1>1, <1>5, <2>3 DEF JournalRead
  <2>6. \A i \in txn[q].tried \ txn[q].inserted : logs'[input[q].items[i].op] # NoLog
    BY <1>5, <2>3, CommitFacts DEF JournalRead
  <2>7. Parsed(input[q])' = Parsed(input[q])
    BY <1>1 DEF Parsed, WellFormed, Indices
  <2> QED
    BY <1>1, <1>5, <2>2, <2>4, <2>5, <2>6, <2>7 DEF JournalRead
<1>6. Holds(q)'
  <2>1. Holds(q) /\ pc'[q] = pc[q] /\ txn'[q] = txn[q]
    BY <1>1 DEF Handler
  <2>2. txn[q].groups \subseteq Groups
    <3>1. pc[q] \notin InTxn => txn[q].groups = {}
      BY <1>1 DEF Handler, Called, NoTxn
    <3> QED
      BY <1>1, <3>1 DEF Handler, Loaded
  <2>3. Wanted(q)' = Wanted(q)
    BY <1>1, <2>2 DEF Wanted
  <2>4. (pc[q] \in {"read", "insert", "commit"} => \A g \in txn[q].groups : locks[g] = q)'
    BY <1>1, <2>1, <2>2 DEF Holds
  <2> QED
    BY <1>1, <2>1, <2>3, <2>4 DEF Holds
<1> QED
  BY <1>1, <1>3, <1>4, <1>5, <1>6 DEF Handler, InTxn

LEMMA CommitKeeps ==
  ASSUME Control, NEW r \in Requests, Commit(r)
  PROVE  Control'
<1>1. Shape /\ pc[r] = "commit" /\ End(r, "ok", BatchResults(r))
  BY DEF Control, Commit
<1>2. Handler(r)'
  BY <1>1, EndKeeps
<1>3. \A q \in Requests \ {r} : Handler(q)'
  BY CommitFrame
<1>4. Shape'
  <2>1. /\ locks' \in [Groups -> Requests \cup {Free}]
        /\ keys' \in [Operations -> Requests \cup {Free}]
        /\ pc' \in [Requests -> {"idle", "replay", "load", "lock", "read", "insert", "commit",
                                 "done"}]
        /\ DOMAIN txn' = Requests /\ DOMAIN answer' = Requests
        /\ \A q \in Requests : answer'[q].status \in {"none", "ok", "busy", "lost"}
        /\ UNCHANGED <<facts, input, received>>
    BY <1>1, EndKeeps
  <2>2. logs' \in [Operations -> LogRow \cup {NoLog}]
    BY CommitFacts
  <2>3. consumptions' = [g \in Groups |-> [i \in Slots |-> consumptions'[g][i]]]
    BY DEF Commit, WriteConsumptions
  <2>4. conflicts' = [o \in Operations |-> conflicts'[o]]
    BY DEF Commit, WriteConflicts
  <2> QED
    BY <1>1, <2>1, <2>2, <2>3, <2>4 DEF Shape, facts
<1> QED
  BY <1>2, <1>3, <1>4 DEF Control

\* The organizers, the supervisor and the clock.
LEMMA OthersKeep ==
  ASSUME Control, Edit \/ Tick \/ \E o \in Operations : Acknowledge(o)
  PROVE  Control'
<1>1. /\ UNCHANGED <<logs, consumptions, conflicts, scenario, locks, keys, pc, input, received, txn,
                     answer>>
      /\ Shape
  BY DEF Control, Edit, Tick, Acknowledge, tables, facts
<1>2. ASSUME NEW q \in Requests PROVE Handler(q)'
  BY <1>1, FrameHandler
<1>3. now' \in 0 .. MaxNow
  <2>1. CASE Tick
    BY <1>1, <2>1, ServiceAssumption DEF Tick, Shape
  <2>2. CASE ~Tick
    BY <1>1, <2>2 DEF Shape, Edit, ToggleStation, VoidTicket, MintTicket, Acknowledge, facts
  <2> QED
    BY <2>1, <2>2
<1>4. rules' \in [Groups -> Nat] /\ \A g \in Groups : rules'[g] \in {0, MaxUses[g]}
  <2>1. CASE \E g \in Tickets \X Stations : ToggleStation(g)
    BY <1>1, <2>1, ServiceAssumption DEF ToggleStation, Shape, Groups
  <2>2. CASE ~\E g \in Tickets \X Stations : ToggleStation(g)
    BY <1>1, <2>2 DEF Shape, Edit, Tick, VoidTicket, MintTicket, Acknowledge, facts
  <2> QED
    BY <2>1, <2>2
<1> QED
  BY <1>1, <1>2, <1>3, <1>4 DEF Control, Shape

LEMMA NextKeepsControl ==
  ASSUME Control, [Next]_vars
  PROVE  Control'
<1>1. CASE UNCHANGED vars
  <2>1. \A q \in Requests : Handler(q)'
    BY <1>1, FrameHandler DEF vars, tables
  <2> QED
    BY <1>1, <2>1 DEF Control, Shape, vars, tables, facts
<1>2. ASSUME NEW r \in Requests, Submit(r) \/ Step(r) \/ Crash(r) PROVE Control'
  BY <1>2, SubmitKeeps, ReplayLookupKeeps, LoadReferenceKeeps, LockKeeps, ReadJournalKeeps,
     InsertRowKeeps, CommitKeeps, UnjournaledEndsKeep DEF Step
<1> QED
  BY <1>1, <1>2, OthersKeep DEF Next

LEMMA InitControl == Init => Control
<1> SUFFICES ASSUME Init PROVE Control
  OBVIOUS
<1>1. Shape
  <2>1. \A g \in Groups : MaxUses[g] \in {0, MaxUses[g]}
    OBVIOUS
  <2> QED
    BY <2>1, ServiceAssumption DEF Init, Shape
<1>2. ASSUME NEW r \in Requests PROVE Handler(r)
  <2>1. pc[r] = "idle" /\ txn[r] = NoTxn /\ input[r] = NoInput
    BY DEF Init
  <2>2. /\ \A g \in Groups : locks[g] # r
        /\ \A o \in Operations : keys[o] # r
    BY ServiceAssumption DEF Init
  <2> QED
    BY <2>1, <2>2 DEF Handler, Called, Holds, InTxn, NoTxn
<1> QED
  BY <1>1, <1>2 DEF Control

\* Wherever the handlers are, what each has read and holds is so: the invariant the other
\* proofs rest on.
THEOREM ServiceControl == Spec => []Control
<1>1. Init => Control
  BY InitControl
<1>2. Control /\ [Next]_vars => Control'
  BY NextKeepsControl
<1> QED
  BY <1>1, <1>2, PTL DEF Spec

\* A handler that waits for a lock wants one below every lock that the holder still wants.
WaitsRise ==
  \A r, q \in Requests :
    WaitsForLock(r, q) /\ pc[q] = "lock" /\ Wanted(q) # {} =>
      LockOrder[NextLock(r)] < LockOrder[NextLock(q)]

LEMMA ControlMakesWaitsRise == Control => WaitsRise
<1> SUFFICES ASSUME Control, NEW r \in Requests, NEW q \in Requests,
                    WaitsForLock(r, q), pc[q] = "lock", Wanted(q) # {}
             PROVE  LockOrder[NextLock(r)] < LockOrder[NextLock(q)]
  BY DEF WaitsRise
<1> DEFINE m == NextLock(r)
           n == NextLock(q)
<1>1. m \in Groups /\ locks[m] = q /\ n \in Wanted(q)
  BY NextLockFacts DEF WaitsForLock
<1> HIDE DEF m, n
<1>2. LockOrder[m] < LockOrder[n]
  BY <1>1 DEF Control, Handler, Holds
<1> QED
  BY <1>2 DEF m, n

\* Along a chain of handlers that wait for each other's locks, of any length, the wanted
\* locks rise: no chain closes, in whatever order the batches name the tickets
\* (lock_groups sorts the keys).
THEOREM LockWaitsRise == Spec => []WaitsRise
BY ControlMakesWaitsRise, ServiceControl, PTL

\* Advisory locks never deadlock two handlers.
THEOREM LockWaits == Spec => []LockWaitsAreNotCircular
<1>1. Control => LockWaitsAreNotCircular
  <2> SUFFICES ASSUME Control, NEW r \in Requests, NEW q \in Requests,
                      WaitsForLock(r, q), WaitsForLock(q, r)
               PROVE  FALSE
    BY DEF LockWaitsAreNotCircular
  <2>1. /\ LockOrder[NextLock(r)] < LockOrder[NextLock(q)]
        /\ LockOrder[NextLock(q)] < LockOrder[NextLock(r)]
    BY ControlMakesWaitsRise DEF WaitsRise, WaitsForLock
  <2>2. LockOrder[NextLock(r)] \in Nat /\ LockOrder[NextLock(q)] \in Nat
    BY NextLockFacts, ServiceAssumption DEF WaitsForLock
  <2> QED
    BY <2>1, <2>2
<1> QED
  BY <1>1, ServiceControl, PTL

-----------------------------------------------------------------------------
(* Every handler step is one step of the ledger, or none. *)

LEMMA LedgerCounts == \A S : Ledger!Cardinality(S) = Cardinality(S)
BY Zenon DEF Cardinality, Ledger!Cardinality, IsFiniteSet, Ledger!IsFiniteSet

\* The ledger ranks claims as the handlers do.
LEMMA LedgerRanks ==
  ASSUME NEW claims, NEW uses
  PROVE  /\ \A i : Ledger!HolderAt(claims, uses, i) = HolderAt(claims, uses, i)
         /\ Ledger!Disputed(claims, uses) = Disputed(claims, uses)
         /\ \A c : Ledger!ConflictSpec(c, claims, uses) = ConflictSpec(c, claims, uses)
<1>1. \A c, d : Ledger!Before(c, d) <=> Before(c, d)
  BY DEF Before, Ledger!Before
<1>2. \A c : Ledger!Rank(c, claims) = Rank(c, claims)
  <2> SUFFICES ASSUME NEW c PROVE Ledger!Rank(c, claims) = Rank(c, claims)
    OBVIOUS
  <2>1. {d \in claims : Ledger!Before(d, c)} = {d \in claims : Before(d, c)}
    BY <1>1
  <2> QED
    BY <2>1, LedgerCounts DEF Rank, Ledger!Rank
<1>3. Ledger!Assigned(claims, uses) = Assigned(claims, uses)
  BY <1>2 DEF Assigned, Ledger!Assigned
<1>4. Ledger!Losers(claims, uses) = Losers(claims, uses)
  BY <1>3 DEF Losers, Ledger!Losers
<1>5. Ledger!Reference(claims, uses) = Reference(claims, uses)
  BY <1>1, <1>3 DEF Reference, Ledger!Reference
<1>6. \A i : Ledger!HolderAt(claims, uses, i) = HolderAt(claims, uses, i)
  <2> SUFFICES ASSUME NEW i PROVE Ledger!HolderAt(claims, uses, i) = HolderAt(claims, uses, i)
    OBVIOUS
  <2>1. {c \in Ledger!Assigned(claims, uses) : Ledger!Rank(c, claims) = i}
        = {c \in Assigned(claims, uses) : Rank(c, claims) = i}
    BY <1>2, <1>3
  <2> DEFINE first(S) == IF S = {} THEN NoOp ELSE (CHOOSE c \in S : TRUE).op
  <2>2. HolderAt(claims, uses, i) = first({c \in Assigned(claims, uses) : Rank(c, claims) = i})
    BY Zenon DEF HolderAt
  <2>3. Ledger!HolderAt(claims, uses, i)
        = first({c \in Ledger!Assigned(claims, uses) : Ledger!Rank(c, claims) = i})
    BY Zenon DEF Ledger!HolderAt
  <2> HIDE DEF first
  <2> QED
    BY <2>1, <2>2, <2>3
<1>7. Ledger!Disputed(claims, uses) = Disputed(claims, uses)
  BY <1>3, <1>4 DEF Disputed, Ledger!Disputed
<1>8. \A c : Ledger!ConflictSpec(c, claims, uses) = ConflictSpec(c, claims, uses)
  BY <1>4, <1>5 DEF ConflictSpec, Ledger!ConflictSpec, ClassifyLoser, Ledger!ClassifyLoser
<1> QED
  BY <1>6, <1>7, <1>8

\* A refused admission says why, and no other row does.
Agreed(row) == row.kind = "refused" <=> row.verdict \in RefusalTypes
Agreement == Control /\ \A o \in Operations : logs[o] # NoLog => Agreed(logs[o])

\* What the ledger keeps of a journal row.
Entered(row) ==
  [group |-> row.group, terminal |-> row.terminal, at |-> row.at, suspect |-> row.suspect,
   kind |-> row.kind, verdict |-> row.verdict]

LEMMA EnteredFacts ==
  ASSUME NEW row \in LogRow, Agreed(row)
  PROVE  Entered(row) \in Ledger!Entry /\ Entered(row) # NoLog
<1>1. /\ row.group \in Groups /\ row.terminal \in Terminals /\ row.at \in Int
      /\ row.suspect \in BOOLEAN /\ row.kind \in {"claim", "refused", "evidence"}
      /\ row.verdict \in {"none", "LATE_REVOKED", "NOT_AUTHORIZED_SERVER_SIDE"}
  BY DEF LogRow
<1>2. Entered(row) \in Ledger!Entry
  BY <1>1 DEF Ledger!Entry, RefusalTypes, Agreed, Entered
<1> QED
  BY <1>2, TableAssumption

\* The ledger's journal, before and after a step.
LEMMA LedgerLogsFacts ==
  ASSUME Agreement
  PROVE  /\ \A o \in Operations :
              /\ logs[o] = NoLog => LedgerLogs[o] = NoLog
              /\ logs[o] # NoLog => /\ LedgerLogs[o] = Entered(logs[o]) /\ logs[o] \in LogRow
                                    /\ LedgerLogs[o] # NoLog /\ LedgerLogs[o] \in Ledger!Entry
         /\ \A g : Ledger!ClaimsOf(LedgerLogs, g) = ClaimsOf(g)
<1>1. \A o \in Operations :
        /\ logs[o] = NoLog => LedgerLogs[o] = NoLog
        /\ logs[o] # NoLog => LedgerLogs[o] = Entered(logs[o])
  BY DEF LedgerLogs, Entered
<1>2. \A o \in Operations : logs[o] # NoLog => logs[o] \in LogRow /\ Agreed(logs[o])
  BY DEF Agreement, Control, Shape
<1>3. \A o \in Operations : logs[o] # NoLog => LedgerLogs[o] # NoLog /\ LedgerLogs[o] \in Ledger!Entry
  BY <1>1, <1>2, EnteredFacts
<1>4. ASSUME NEW g PROVE Ledger!ClaimsOf(LedgerLogs, g) = ClaimsOf(g)
  <2> DEFINE rows == LedgerLogs
  <2>0. \A o \in Operations : logs[o] # NoLog =>
          /\ rows[o].group = logs[o].group /\ rows[o].kind = logs[o].kind
          /\ rows[o].terminal = logs[o].terminal /\ rows[o].at = logs[o].at
          /\ rows[o].suspect = logs[o].suspect
    <3>1. \A row : /\ Entered(row).group = row.group /\ Entered(row).kind = row.kind
                   /\ Entered(row).terminal = row.terminal /\ Entered(row).at = row.at
                   /\ Entered(row).suspect = row.suspect
      BY DEF Entered
    <3> HIDE DEF rows
    <3>2. \A o \in Operations : logs[o] # NoLog => rows[o] = Entered(logs[o])
      BY <1>1 DEF rows
    <3> QED
      BY <3>1, <3>2
  <2>1. \A o \in Operations : Ledger!IsClaim(LedgerLogs, o, g) <=>
          logs[o] # NoLog /\ logs[o].group = g /\ logs[o].kind = "claim"
    BY <1>1, <1>3, <2>0 DEF Ledger!IsClaim
  <2>2. \A o \in Operations : logs[o] # NoLog =>
          Ledger!ClaimOf(LedgerLogs, o) =
            [op |-> o, terminal |-> logs[o].terminal, at |-> logs[o].at, suspect |-> logs[o].suspect]
    BY <2>0 DEF Ledger!ClaimOf
  <2> QED
    BY <2>1, <2>2 DEF Ledger!ClaimsOf, ClaimsOf
<1> QED
  BY <1>1, <1>2, <1>3, <1>4

LEMMA NextKeepsAgreement ==
  ASSUME Agreement, [Next]_vars
  PROVE  Agreement'
<1>1. Control /\ Control'
  BY NextKeepsControl DEF Agreement
<1>2. ASSUME NEW r \in Requests, Commit(r), NEW o \in Operations, logs'[o] # NoLog
      PROVE  Agreed(logs'[o])
  <2>1. CASE \A i \in txn[r].inserted : input[r].items[i].op # o
    BY <1>1, <1>2, <2>1, CommitFacts DEF Agreement
  <2>2. CASE \E i \in txn[r].inserted : input[r].items[i].op = o
    <3>1. PICK i \in txn[r].inserted : input[r].items[i].op = o
      BY <2>2
    <3>2. logs'[o] = Row(r, i) /\ i \in txn[r].fresh /\ pc[r] = "commit"
      BY <1>1, <1>2, <3>1, CommitFacts DEF Control, Handler, JournalRead, Commit
    <3>3. Row(r, i).kind = Kind(r, i) /\ (Kind(r, i) = "refused" <=> Row(r, i).verdict \in RefusalTypes)
      BY <1>1, <3>2, RowFacts
    <3> QED
      BY <3>2, <3>3 DEF Agreed
  <2> QED
    BY <2>1, <2>2
<1>3. CASE \A r \in Requests : ~Commit(r)
  <2>1. UNCHANGED logs
    BY <1>3 DEF Next, Submit, Step, Crash, ReplayLookup, LoadReference, Lock, ReadJournal, InsertRow,
            Timeout, Rollback, Acknowledge, Edit, Tick, tables, vars
  <2> QED
    BY <1>1, <2>1 DEF Agreement
<1> QED
  BY <1>1, <1>2, <1>3 DEF Agreement

\* The rows that a commit makes visible, to the ledger.
LEMMA JustJournaledFacts ==
  ASSUME Agreement, Agreement', NEW r \in Requests, Commit(r)
  PROVE  LET new == JustJournaled
         IN  /\ DOMAIN new = {input[r].items[i].op : i \in txn[r].inserted}
             /\ \A i \in txn[r].inserted :
                  LET o == input[r].items[i].op
                  IN  /\ logs[o] = NoLog /\ new[o] = Entered(Row(r, i)) /\ new[o] \in Ledger!Entry
                      /\ new[o].group = GroupOf(input[r], i) /\ new[o].kind = Kind(r, i)
                      /\ new[o].terminal = input[r].terminal
                      /\ new[o].at = Clock(r, i).at /\ new[o].suspect = Clock(r, i).suspect
                      /\ Kind(r, i) = "refused" => new[o].verdict = txn[r].verdict[i].conflict
             /\ LedgerLogs' = Ledger!Journal(new)
<1> DEFINE new == JustJournaled
           b == input[r]
           mine == txn[r].inserted
<1>1. DOMAIN new = {p \in Operations : logs[p] = NoLog /\ logs'[p] # NoLog}
  BY DEF JustJournaled
<1>2. DOMAIN new = {b.items[i].op : i \in mine}
  <2>1. \A i \in mine : b.items[i].op \in DOMAIN new
    BY <1>1, CommitFacts DEF Agreement
  <2>2. \A o \in DOMAIN new : \E i \in mine : b.items[i].op = o
    BY <1>1, CommitFacts DEF Agreement
  <2> QED
    BY <2>1, <2>2
<1>3. \A o \in DOMAIN new : new[o] = LedgerLogs'[o]
  BY DEF JustJournaled
<1>4. \A o \in Operations :
        /\ logs'[o] = NoLog => LedgerLogs'[o] = NoLog
        /\ logs'[o] # NoLog => LedgerLogs'[o] = Entered(logs'[o])
  BY DEF LedgerLogs, Entered
<1>5. \A o \in Operations : logs'[o] # NoLog => logs'[o] \in LogRow /\ Agreed(logs'[o])
  BY DEF Agreement, Control, Shape
<1>6. ASSUME NEW i \in mine
      PROVE  LET o == b.items[i].op
             IN  /\ logs[o] = NoLog /\ new[o] = Entered(Row(r, i)) /\ new[o] \in Ledger!Entry
                 /\ new[o].group = GroupOf(b, i) /\ new[o].kind = Kind(r, i)
                 /\ new[o].terminal = b.terminal
                 /\ new[o].at = Clock(r, i).at /\ new[o].suspect = Clock(r, i).suspect
                 /\ Kind(r, i) = "refused" => new[o].verdict = txn[r].verdict[i].conflict
  <2> DEFINE o == b.items[i].op
  <2>1. o \in Operations /\ logs[o] = NoLog /\ logs'[o] = Row(r, i) /\ logs'[o] # NoLog
    BY CommitFacts DEF Agreement
  <2>2. new[o] = Entered(Row(r, i)) /\ o \in DOMAIN new
    BY <1>1, <1>3, <1>4, <2>1
  <2>3. new[o] \in Ledger!Entry
    BY <1>5, <2>1, <2>2, EnteredFacts
  <2>4. i \in txn[r].fresh /\ pc[r] = "commit" /\ Control
    BY DEF Agreement, Control, Handler, JournalRead, Commit
  <2> HIDE DEF o, new
  <2>5. /\ Row(r, i).group = GroupOf(input[r], i)
        /\ Row(r, i).terminal = input[r].terminal
        /\ Row(r, i).at = Clock(r, i).at /\ Row(r, i).suspect = Clock(r, i).suspect
        /\ Row(r, i).kind = Kind(r, i)
        /\ Kind(r, i) = "refused" => Row(r, i).verdict = txn[r].verdict[i].conflict
    BY <2>4, RowFacts
  <2>6. /\ new[o].group = Row(r, i).group /\ new[o].terminal = Row(r, i).terminal
        /\ new[o].at = Row(r, i).at /\ new[o].suspect = Row(r, i).suspect
        /\ new[o].kind = Row(r, i).kind /\ new[o].verdict = Row(r, i).verdict
    BY <2>2 DEF Entered
  <2> QED
    BY <2>1, <2>2, <2>3, <2>5, <2>6 DEF o
<1>7. LedgerLogs' = Ledger!Journal(new)
  <2>1. ASSUME NEW o \in Operations
        PROVE  LedgerLogs'[o] = IF o \in DOMAIN new THEN new[o] ELSE LedgerLogs[o]
    <3>1. CASE o \in DOMAIN new
      BY <1>3, <3>1
    <3>2. CASE o \notin DOMAIN new
      <4>1. logs'[o] = logs[o]
        BY <1>1, <3>2, CommitFacts DEF Agreement
      <4> QED
        BY <3>2, <4>1 DEF LedgerLogs
    <3> QED
      BY <3>1, <3>2
  <2>2. LedgerLogs' = [o \in Operations |-> LedgerLogs'[o]]
    BY DEF LedgerLogs
  <2> QED
    BY <2>1, <2>2 DEF Ledger!Journal
<1> QED
  BY <1>2, <1>6, <1>7, Zenon

\* fetch_claims once the rows of a commit are visible.
LEMMA ClaimsAfterCommit ==
  ASSUME Agreement, Agreement', NEW r \in Requests, Commit(r), NEW g
  PROVE  Ledger!ClaimsOf(LedgerLogs', g) =
           ClaimsOf(g) \cup
           {MyClaim(r, i) : i \in {j \in txn[r].inserted : GroupOf(input[r], j) = g
                                                           /\ Kind(r, j) = "claim"}}
<1> DEFINE b == input[r]
           mine == txn[r].inserted
           mineIn == {j \in mine : GroupOf(b, j) = g /\ Kind(r, j) = "claim"}
           after == LedgerLogs'
           claims == Ledger!ClaimsOf(after, g)
           old == ClaimsOf(g)
<1>1. /\ \A i \in mine :
           LET o == b.items[i].op
           IN  /\ o \in Operations /\ after[o] # NoLog /\ LedgerLogs[o] = NoLog
               /\ after[o].group = GroupOf(b, i) /\ after[o].kind = Kind(r, i)
               /\ after[o].terminal = b.terminal
               /\ after[o].at = Clock(r, i).at /\ after[o].suspect = Clock(r, i).suspect
      /\ \A o \in Operations : (\A i \in mine : b.items[i].op # o) => after[o] = LedgerLogs[o]
  <2> DEFINE new == JustJournaled
  <2>1. DOMAIN new = {b.items[i].op : i \in mine} /\ after = Ledger!Journal(new)
    BY JustJournaledFacts
  <2>2. /\ \A o \in Operations : after[o] = IF o \in DOMAIN new THEN new[o] ELSE LedgerLogs[o]
    BY <2>1 DEF Ledger!Journal
  <2>3. ASSUME NEW i \in mine
        PROVE  LET o == b.items[i].op
               IN  /\ o \in Operations /\ after[o] # NoLog /\ LedgerLogs[o] = NoLog
                   /\ after[o].group = GroupOf(b, i) /\ after[o].kind = Kind(r, i)
                   /\ after[o].terminal = b.terminal
                   /\ after[o].at = Clock(r, i).at /\ after[o].suspect = Clock(r, i).suspect
    <3> DEFINE o == b.items[i].op
    <3>1. o \in Operations /\ logs[o] = NoLog
      BY CommitFacts DEF Agreement
    <3>2. LedgerLogs[o] = NoLog
      BY <3>1, LedgerLogsFacts
    <3>3. /\ new[o] \in Ledger!Entry
          /\ new[o].group = GroupOf(b, i) /\ new[o].kind = Kind(r, i)
          /\ new[o].terminal = b.terminal
          /\ new[o].at = Clock(r, i).at /\ new[o].suspect = Clock(r, i).suspect
      BY JustJournaledFacts
    <3> HIDE DEF new, after
    <3>4. after[o] = new[o]
      BY <2>1, <2>2, <3>1
    <3> QED
      BY <3>1, <3>2, <3>3, <3>4, TableAssumption
  <2> HIDE DEF new, after
  <2> QED
    BY <2>1, <2>2, <2>3
<1> HIDE DEF after
<1>2. \A o : Ledger!ClaimOf(after, o) = [op |-> o, terminal |-> after[o].terminal,
                                         at |-> after[o].at, suspect |-> after[o].suspect]
  BY DEF Ledger!ClaimOf
<1>3. \A o : Ledger!IsClaim(after, o, g) <=>
               after[o] # NoLog /\ after[o].group = g /\ after[o].kind = "claim"
  BY DEF Ledger!IsClaim
<1>4. claims = {Ledger!ClaimOf(after, o) : o \in {p \in Operations : Ledger!IsClaim(after, p, g)}}
  BY DEF Ledger!ClaimsOf
<1>5. old = {Ledger!ClaimOf(LedgerLogs, o) :
               o \in {p \in Operations : Ledger!IsClaim(LedgerLogs, p, g)}}
  BY LedgerLogsFacts DEF Ledger!ClaimsOf
<1>6. \A o : Ledger!ClaimOf(LedgerLogs, o) =
        [op |-> o, terminal |-> LedgerLogs[o].terminal, at |-> LedgerLogs[o].at,
         suspect |-> LedgerLogs[o].suspect]
  BY DEF Ledger!ClaimOf
<1>7. \A o : Ledger!IsClaim(LedgerLogs, o, g) <=>
        LedgerLogs[o] # NoLog /\ LedgerLogs[o].group = g /\ LedgerLogs[o].kind = "claim"
  BY DEF Ledger!IsClaim
<1>8. \A i \in mine : MyClaim(r, i) = Ledger!ClaimOf(after, b.items[i].op)
  BY <1>1, <1>2 DEF MyClaim
<1>9. \A i \in mine : Ledger!IsClaim(after, b.items[i].op, g) <=> i \in mineIn
  BY <1>1, <1>3
<1>10. \A o \in Operations : (\A i \in mine : b.items[i].op # o) =>
         /\ Ledger!ClaimOf(after, o) = Ledger!ClaimOf(LedgerLogs, o)
         /\ Ledger!IsClaim(after, o, g) <=> Ledger!IsClaim(LedgerLogs, o, g)
  BY <1>1, <1>2, <1>3, <1>6, <1>7
<1>11. \A o \in Operations : Ledger!IsClaim(LedgerLogs, o, g) => \A i \in mine : b.items[i].op # o
  BY <1>1, <1>7
<1> DEFINE added == {MyClaim(r, i) : i \in mineIn}
<1>12. ASSUME NEW c \in claims PROVE c \in old \cup added
  <2>1. PICK o \in Operations : Ledger!IsClaim(after, o, g) /\ c = Ledger!ClaimOf(after, o)
    BY <1>4
  <2> QED
    BY <1>5, <1>8, <1>9, <1>10, <2>1
<1>13. ASSUME NEW c \in old PROVE c \in claims
  <2>1. PICK o \in Operations : Ledger!IsClaim(LedgerLogs, o, g) /\ c = Ledger!ClaimOf(LedgerLogs, o)
    BY <1>5
  <2> QED
    BY <1>4, <1>10, <1>11, <2>1
<1>14. ASSUME NEW c \in added PROVE c \in claims
  <2>1. PICK i \in mineIn : c = MyClaim(r, i)
    OBVIOUS
  <2>2. b.items[i].op \in Operations /\ Ledger!IsClaim(after, b.items[i].op, g)
    BY <1>1, <1>9
  <2> QED
    BY <1>4, <1>8, <2>1, <2>2
<1>15. claims = old \cup added
  <2> HIDE DEF claims, old, added
  <2> QED
    BY <1>12, <1>13, <1>14
<1> QED
  BY <1>15 DEF after

\* The groups that a commit resolves are those the ledger resolves, with all their claims and
\* with the uses of the rule.
LEMMA ResolvedFacts ==
  ASSUME Agreement, Agreement', NEW r \in Requests, Commit(r)
  PROVE  /\ Resolved(r) = Ledger!Touched(JustJournaled) /\ Resolved(r) \subseteq Groups
         /\ \A g \in Resolved(r) :
              /\ Competitors(r, g) = Ledger!ClaimsOf(LedgerLogs', g)
              /\ Uses(r, g) = MaxUses[g]
<1> DEFINE b == input[r]
           mine == txn[r].inserted
           new == JustJournaled
<1>1. /\ pc[r] = "commit" /\ ~Overtaken(r) /\ Control /\ JournalRead(r)
      /\ mine \subseteq txn[r].fresh /\ Loaded(r)
  BY DEF Agreement, Control, Handler, JournalRead, Commit, InTxn
<1>2. \A i \in txn[r].fresh : Claims(r, i) => i \in mine
  BY <1>1 DEF Overtaken
<1>3. \A i \in txn[r].fresh : Kind(r, i) = "claim" => Claims(r, i)
  BY DEF Kind
<1>4. ASSUME NEW g \in Resolved(r), NEW i \in Claimants(r, g) PROVE Kind(r, i) = "claim"
  <2>1. CASE b.kind = "online"
    <3>1. txn[r].fresh = {1}
      BY <1>1, <2>1 DEF JournalRead
    <3>2. \A j \in Claimants(r, g) : j = 1
      BY <3>1 DEF Claimants
    <3> QED
      BY <3>2 DEF Resolved
  <2>2. CASE b.kind # "online"
    BY <2>2 DEF Claimants, Kind
  <2> QED
    BY <2>1, <2>2
<1>5. ASSUME NEW g \in Resolved(r)
      PROVE  /\ g \in Groups /\ Uses(r, g) = MaxUses[g]
             /\ Competitors(r, g) = Ledger!ClaimsOf(LedgerLogs', g)
  <2>1. g \in txn[r].groups /\ g \in Groups
    BY <1>1 DEF Resolved, Loaded
  <2>2. PICK i \in Claimants(r, g) : Kind(r, i) = "claim"
    BY DEF Resolved
  <2>3. Uses(r, g) = MaxUses[g]
    <3>1. i \in txn[r].fresh /\ GroupOf(b, i) = g /\ Claims(r, i)
      BY DEF Claimants
    <3> QED
      BY <1>1, <3>1, RowFacts
  <2>4. txn[r].seen[g] = ClaimsOf(g)
    BY <1>1, <2>1 DEF JournalRead
  <2>5. Claimants(r, g) = {j \in mine : GroupOf(b, j) = g /\ Kind(r, j) = "claim"}
    BY <1>1, <1>2, <1>3, <1>4 DEF Claimants
  <2>6. Ledger!ClaimsOf(LedgerLogs', g) =
          ClaimsOf(g) \cup {MyClaim(r, j) : j \in {j \in mine : GroupOf(b, j) = g
                                                               /\ Kind(r, j) = "claim"}}
    BY ClaimsAfterCommit
  <2> QED
    BY <2>1, <2>3, <2>4, <2>5, <2>6 DEF Competitors
<1>6. DOMAIN new = {b.items[i].op : i \in mine}
  BY JustJournaledFacts
<1>7. \A i \in mine : /\ new[b.items[i].op].group = GroupOf(b, i)
                      /\ new[b.items[i].op].kind = Kind(r, i)
  BY JustJournaledFacts
<1>8. Ledger!Touched(new) =
        {g \in Groups : \E o \in DOMAIN new : new[o].group = g /\ new[o].kind = "claim"}
  BY DEF Ledger!Touched
<1> HIDE DEF new
<1>9. ASSUME NEW g \in Resolved(r) PROVE g \in Ledger!Touched(new)
  <2>1. PICK i \in Claimants(r, g) : Kind(r, i) = "claim"
    BY DEF Resolved
  <2>2. i \in mine /\ GroupOf(b, i) = g
    BY <1>2 DEF Claimants
  <2> QED
    BY <1>5, <1>6, <1>7, <1>8, <2>1, <2>2
<1>10. ASSUME NEW g \in Ledger!Touched(new) PROVE g \in Resolved(r)
  <2>1. PICK i \in mine : GroupOf(b, i) = g /\ Kind(r, i) = "claim"
    BY <1>6, <1>7, <1>8
  <2>2. i \in txn[r].fresh /\ Claims(r, i)
    BY <1>1, <1>3, <2>1
  <2>3. g \in txn[r].groups
    BY <1>1, <2>1, <2>2, RowFacts
  <2> QED
    BY <2>1, <2>2, <2>3 DEF Resolved, Claimants
<1> QED
  BY <1>5, <1>9, <1>10 DEF new

LEMMA DisputedAreClaims ==
  ASSUME NEW claims, NEW uses
  PROVE  Disputed(claims, uses) \subseteq claims
BY DEF Disputed, Losers

\* The resolutions that a commit writes name an operation at most once: under the group of
\* its row, if that was resolved and its claim is in dispute there.
LEMMA SpecsOfFacts ==
  ASSUME Agreement, Agreement', NEW r \in Requests, Commit(r), NEW o \in Operations
  PROVE  LET J      == LedgerLogs'
             g      == J[o].group
             claims == Ledger!ClaimsOf(J, g)
             claim  == Ledger!ClaimOf(J, o)
             named  == /\ J[o] # NoLog /\ g \in Resolved(r) /\ Ledger!IsClaim(J, o, g)
                       /\ claim \in Disputed(claims, MaxUses[g])
         IN  /\ named => SpecsOf(r, o) = {ConflictSpec(claim, claims, MaxUses[g])}
             /\ ~named => SpecsOf(r, o) = {}
<1> DEFINE J == LedgerLogs'
           g == J[o].group
           claimsOf(h) == Ledger!ClaimsOf(J, h)
           claim == Ledger!ClaimOf(J, o)
           named == /\ J[o] # NoLog /\ g \in Resolved(r) /\ Ledger!IsClaim(J, o, g)
                    /\ claim \in Disputed(claimsOf(g), MaxUses[g])
           specs(h) == {ConflictSpec(c, claimsOf(h), MaxUses[h]) :
                          c \in {d \in Disputed(claimsOf(h), MaxUses[h]) : d.op = o}}
<1>1. SpecsOf(r, o) = UNION {specs(h) : h \in Resolved(r)}
  BY ResolvedFacts DEF SpecsOf
<1>2. claim.op = o
  BY DEF Ledger!ClaimOf
<1>3. ASSUME NEW h, NEW c \in claimsOf(h), c.op = o
      PROVE  c = claim /\ Ledger!IsClaim(J, o, h) /\ h = g /\ J[o] # NoLog
  <2>1. PICK p \in Operations : Ledger!IsClaim(J, p, h) /\ c = Ledger!ClaimOf(J, p)
    BY DEF Ledger!ClaimsOf
  <2>2. p = o
    BY <1>3, <2>1 DEF Ledger!ClaimOf
  <2> QED
    BY <2>1, <2>2 DEF Ledger!IsClaim
<1> HIDE DEF J, claim, claimsOf
<1>4. ASSUME named PROVE SpecsOf(r, o) = {ConflictSpec(claim, claimsOf(g), MaxUses[g])}
  <2>1. {d \in Disputed(claimsOf(g), MaxUses[g]) : d.op = o} = {claim}
    BY <1>2, <1>3, <1>4, DisputedAreClaims
  <2>2. specs(g) = {ConflictSpec(claim, claimsOf(g), MaxUses[g])}
    BY <2>1
  <2>3. \A h \in Resolved(r) : h # g => specs(h) = {}
    BY <1>3, DisputedAreClaims
  <2> HIDE DEF specs
  <2> QED
    BY <1>1, <1>4, <2>2, <2>3
<1>5. ASSUME ~named PROVE SpecsOf(r, o) = {}
  <2>1. \A h \in Resolved(r) : specs(h) = {}
    BY <1>3, <1>5, DisputedAreClaims
  <2> HIDE DEF specs
  <2> QED
    BY <1>1, <2>1
<1> QED
  BY <1>4, <1>5 DEF J, claim, claimsOf

\* A commit writes one row for each refused admission that it journals.
LEMMA RefusalsOfFacts ==
  ASSUME Agreement, Agreement', NEW r \in Requests, Commit(r), NEW o \in Operations
  PROVE  LET new     == JustJournaled
             refused == o \in DOMAIN new /\ new[o].kind = "refused"
         IN  /\ refused => RefusalsOf(r, o) =
                             {[winner |-> NoOp, type |-> new[o].verdict, clock |-> new[o].suspect]}
             /\ ~refused => RefusalsOf(r, o) = {}
<1> DEFINE new == JustJournaled
           b == input[r]
           mine == txn[r].inserted
           these == {j \in mine : b.items[j].op = o /\ Kind(r, j) = "refused"}
           spec(i) == [winner |-> NoOp, type |-> txn[r].verdict[i].conflict,
                       clock |-> Clock(r, i).suspect]
<1>1. DOMAIN new = {b.items[i].op : i \in mine}
  BY JustJournaledFacts
<1>2. \A i \in mine : /\ new[b.items[i].op].kind = Kind(r, i)
                      /\ new[b.items[i].op].suspect = Clock(r, i).suspect
                      /\ Kind(r, i) = "refused" =>
                           new[b.items[i].op].verdict = txn[r].verdict[i].conflict
  BY JustJournaledFacts
<1>3. \A i, j \in mine : b.items[i].op = b.items[j].op => i = j
  <2>1. InputType(b) /\ mine \subseteq Parsed(b)
    BY DEF Agreement, Control, Handler, Called, JournalRead, Commit
  <2> QED
    BY <2>1, ParsedFacts
<1>4. RefusalsOf(r, o) = {spec(i) : i \in these}
  BY DEF RefusalsOf
<1> HIDE DEF new
<1>5. ASSUME o \in DOMAIN new, new[o].kind = "refused"
      PROVE  RefusalsOf(r, o) =
               {[winner |-> NoOp, type |-> new[o].verdict, clock |-> new[o].suspect]}
  <2>1. PICK i \in mine : b.items[i].op = o
    BY <1>1, <1>5
  <2>2. these = {i}
    BY <1>2, <1>3, <1>5, <2>1
  <2>3. spec(i) = [winner |-> NoOp, type |-> new[o].verdict, clock |-> new[o].suspect]
    BY <1>2, <1>5, <2>1
  <2> HIDE DEF these, spec
  <2> QED
    BY <1>4, <2>2, <2>3
<1>6. ASSUME ~(o \in DOMAIN new /\ new[o].kind = "refused") PROVE RefusalsOf(r, o) = {}
  <2>1. these = {}
    BY <1>1, <1>2, <1>6
  <2> QED
    BY <1>4, <2>1
<1> QED
  BY <1>5, <1>6 DEF new

\* A commit is one batch of the ledger.
LEMMA CommitIsRecord ==
  ASSUME Agreement, Agreement', NEW r \in Requests, Commit(r)
  PROVE  Ledger!Record(JustJournaled)
<1> DEFINE new == JustJournaled
           J == LedgerLogs'
           b == input[r]
           mine == txn[r].inserted
<1>1. DOMAIN new = {b.items[i].op : i \in mine} /\ J = Ledger!Journal(new)
  BY JustJournaledFacts
<1>2. \A i \in mine : /\ logs[b.items[i].op] = NoLog
                      /\ new[b.items[i].op].kind = Kind(r, i)
                      /\ new[b.items[i].op].group = GroupOf(b, i)
                      /\ new[b.items[i].op].terminal = b.terminal
  BY JustJournaledFacts
<1>3. mine \subseteq txn[r].fresh /\ pc[r] = "commit" /\ Control /\ DOMAIN new \subseteq Operations
  BY DEF Agreement, Control, Handler, JournalRead, Commit, JustJournaled
<1>4. /\ Resolved(r) = Ledger!Touched(new)
      /\ \A g \in Resolved(r) : Competitors(r, g) = Ledger!ClaimsOf(J, g) /\ Uses(r, g) = MaxUses[g]
  BY ResolvedFacts
<1>5. \A o \in DOMAIN new : LedgerLogs[o] = NoLog
  BY <1>1, <1>2, <1>3, LedgerLogsFacts
<1>6. \A i \in mine : Kind(r, i) = "claim" => MaxUses[GroupOf(b, i)] > 0
  BY <1>3, RowFacts
<1>7. Ledger!UpsertConsumptions(new)
  <2>1. ASSUME NEW g \in Groups, NEW i \in Slots
        PROVE  (IF g \in Resolved(r) /\ HolderAt(Competitors(r, g), Uses(r, g), i) # NoOp
                THEN HolderAt(Competitors(r, g), Uses(r, g), i)
                ELSE consumptions[g][i])
               = LET holder == Ledger!HolderAt(Ledger!ClaimsOf(Ledger!Journal(new), g), MaxUses[g], i)
                 IN  IF g \in Ledger!Touched(new) /\ holder # NoOp THEN holder
                     ELSE consumptions[g][i]
    <3> DEFINE claims == Ledger!ClaimsOf(Ledger!Journal(new), g)
               ours == Competitors(r, g)
               uses == Uses(r, g)
    <3>1. CASE g \in Resolved(r)
      <4>1. ours = claims /\ uses = MaxUses[g] /\ g \in Ledger!Touched(new)
        BY <1>1, <1>4, <3>1
      <4>2. Ledger!HolderAt(claims, MaxUses[g], i) = HolderAt(claims, MaxUses[g], i)
        BY LedgerRanks
      <4> HIDE DEF claims, ours, uses
      <4> QED
        BY <3>1, <4>1, <4>2 DEF claims, ours, uses
    <3>2. CASE g \notin Resolved(r)
      BY <1>4, <3>2
    <3> QED
      BY <3>1, <3>2
  <2> HIDE DEF new
  <2> QED
    BY <2>1 DEF Commit, WriteConsumptions, Ledger!UpsertConsumptions
<1>8. Ledger!UpsertConflicts(new)
  <2> DEFINE g(o) == J[o].group
             claims(o) == Ledger!ClaimsOf(J, g(o))
             claim(o) == Ledger!ClaimOf(J, o)
             named(o) == /\ J[o] # NoLog /\ g(o) \in Resolved(r) /\ Ledger!IsClaim(J, o, g(o))
                         /\ claim(o) \in Disputed(claims(o), MaxUses[g(o)])
             refused(o) == o \in DOMAIN new /\ new[o].kind = "refused"
             spec(o) == ConflictSpec(claim(o), claims(o), MaxUses[g(o)])
             refusal(o) == [winner |-> NoOp, type |-> new[o].verdict, clock |-> new[o].suspect]
  <2>1. ASSUME NEW o \in Operations
        PROVE  conflicts'[o] = IF named(o) THEN spec(o)
                               ELSE IF refused(o) THEN refusal(o) ELSE conflicts[o]
    <3>1. conflicts'[o] = IF SpecsOf(r, o) \cup RefusalsOf(r, o) # {}
                          THEN CHOOSE c \in SpecsOf(r, o) \cup RefusalsOf(r, o) : TRUE
                          ELSE conflicts[o]
      BY DEF Commit, WriteConflicts
    <3>2. (named(o) => SpecsOf(r, o) = {spec(o)}) /\ (~named(o) => SpecsOf(r, o) = {})
      BY SpecsOfFacts
    <3>3. /\ refused(o) => RefusalsOf(r, o) = {refusal(o)}
          /\ ~refused(o) => RefusalsOf(r, o) = {}
      BY RefusalsOfFacts
    <3>4. ~(named(o) /\ refused(o))
      <4>1. refused(o) => J[o] = new[o]
        BY <1>1 DEF Ledger!Journal
      <4>2. named(o) => J[o].kind = "claim"
        BY DEF Ledger!IsClaim
      <4> HIDE DEF new, J
      <4> QED
        BY <4>1, <4>2
    <3> HIDE DEF spec, refusal, named, refused
    <3> QED
      BY <3>1, <3>2, <3>3, <3>4
  <2>2. /\ \A o : spec(o) = Ledger!ConflictSpec(claim(o), claims(o), MaxUses[g(o)])
        /\ \A o : Disputed(claims(o), MaxUses[g(o)]) = Ledger!Disputed(claims(o), MaxUses[g(o)])
    BY LedgerRanks
  <2>3. conflicts' = [o \in Operations |-> conflicts'[o]]
    BY DEF Commit, WriteConflicts
  <2>4. conflicts' =
          [o \in Operations |->
             IF /\ J[o] # NoLog /\ g(o) \in Ledger!Touched(new) /\ Ledger!IsClaim(J, o, g(o))
                /\ claim(o) \in Ledger!Disputed(claims(o), MaxUses[g(o)])
             THEN Ledger!ConflictSpec(claim(o), claims(o), MaxUses[g(o)])
             ELSE IF refused(o) THEN refusal(o) ELSE conflicts[o]]
    <3> HIDE DEF refused, refusal, J, new, claim, claims, g, spec
    <3> QED
      BY <1>4, <2>1, <2>2, <2>3
  <2> QED
    BY <1>1, <2>4 DEF Ledger!UpsertConflicts
<1>9. UNCHANGED acknowledged
  BY DEF Commit
<1> HIDE DEF new, J
<1>10. \A o \in DOMAIN new : /\ LedgerLogs[o] = NoLog
                             /\ new[o].kind = "claim" => MaxUses[new[o].group] > 0
  BY <1>1, <1>2, <1>5, <1>6
<1>11. \A o, p \in DOMAIN new : new[o].terminal = new[p].terminal
  BY <1>1, <1>2
<1> QED
  BY <1>1, <1>7, <1>8, <1>9, <1>10, <1>11 DEF Ledger!Record, new, J

\* What the tables show of a step that is not a commit: nothing, or an acknowledgement.
LEMMA OtherStepsShowNothing ==
  ASSUME Next, \A r \in Requests : ~Commit(r)
  PROVE  UNCHANGED Ledger!vars \/ \E o \in Operations : Ledger!Acknowledge(o)
<1>1. CASE \E o \in Operations : Acknowledge(o)
  BY <1>1 DEF Acknowledge, Ledger!Acknowledge, LedgerLogs
<1>2. CASE ~\E o \in Operations : Acknowledge(o)
  <2>1. UNCHANGED <<logs, consumptions, conflicts, acknowledged>>
    BY <1>2 DEF Next, Submit, Step, Crash, ReplayLookup, LoadReference, Lock, ReadJournal, InsertRow,
            Timeout, Rollback, Edit, Tick, tables
  <2> QED
    BY <2>1 DEF Ledger!vars, LedgerLogs
<1> QED
  BY <1>1, <1>2

LEMMA LedgerInit == Init => Ledger!Init
BY DEF Init, Ledger!Init, LedgerLogs

LEMMA InitAgreement == Init => Agreement
BY InitControl DEF Agreement, Init

\* Where the handlers are, and rows that say why they refuse.
THEOREM ServiceAgreement == Spec => []Agreement
BY InitAgreement, NextKeepsAgreement, PTL DEF Spec

\* Whatever the interleaving of locks, reads, insertions, timeouts and crashes, each commit
\* is one batch of the ledger, ranked against all the claims before it (online_scan,
\* sync_batch).
THEOREM CommitsAreBatches == Spec => ImplementsLedger
<1>1. Agreement /\ Agreement' /\ [Next]_vars =>
        [\/ Ledger!Record(JustJournaled)
         \/ \E o \in Operations : Ledger!Acknowledge(o)]_(Ledger!vars)
  <2> SUFFICES ASSUME Agreement, Agreement', [Next]_vars
               PROVE  \/ Ledger!Record(JustJournaled)
                      \/ \E o \in Operations : Ledger!Acknowledge(o)
                      \/ UNCHANGED Ledger!vars
    OBVIOUS
  <2>1. CASE UNCHANGED vars
    BY <2>1 DEF vars, tables, Ledger!vars, LedgerLogs
  <2>2. ASSUME NEW r \in Requests, Commit(r) PROVE Ledger!Record(JustJournaled)
    BY <2>2, CommitIsRecord
  <2>3. CASE Next /\ \A r \in Requests : ~Commit(r)
    BY <2>3, OtherStepsShowNothing
  <2> QED
    BY <2>1, <2>2, <2>3
<1> QED
  BY <1>1, LedgerInit, ServiceAgreement, PTL DEF Spec, ImplementsLedger

\* The handlers implement the ledger: what holds of its behaviours holds of the tables.
THEOREM ServiceRefinesLedger == Spec => Ledger!Spec
<1>1. Agreement /\ Agreement' /\ [Next]_vars => [Ledger!Next]_(Ledger!vars)
  <2> SUFFICES ASSUME Agreement, Agreement', [Next]_vars
               PROVE  Ledger!Next \/ UNCHANGED Ledger!vars
    OBVIOUS
  <2>1. CASE UNCHANGED vars
    BY <2>1 DEF vars, tables, Ledger!vars, LedgerLogs
  <2>2. ASSUME NEW r \in Requests, Commit(r) PROVE Ledger!Next \/ UNCHANGED Ledger!vars
    <3> DEFINE new == JustJournaled
               N == DOMAIN new
    <3>1. Ledger!Record(new)
      BY <2>2, CommitIsRecord
    <3>2. N \in SUBSET {o \in Operations : LedgerLogs[o] = NoLog}
      <4>1. N \subseteq Operations
        BY DEF JustJournaled
      <4> QED
        BY <3>1, <4>1 DEF Ledger!Record
    <3>3. new \in [N -> Ledger!Entry]
      <4>1. N = {input[r].items[i].op : i \in txn[r].inserted}
        BY <2>2, JustJournaledFacts
      <4>2. \A i \in txn[r].inserted : new[input[r].items[i].op] \in Ledger!Entry
        BY <2>2, JustJournaledFacts
      <4>3. new = [o \in N |-> new[o]]
        BY DEF JustJournaled
      <4> HIDE DEF new
      <4> QED
        BY <4>1, <4>2, <4>3
    <3>4. Ledger!Cardinality(N) <= Cardinality(Operations)
      <4>1. N \subseteq Operations
        BY DEF JustJournaled
      <4>2. Cardinality(N) <= Cardinality(Operations)
        BY <4>1, FS_Subset, ServiceAssumption
      <4> QED
        BY <4>2, LedgerCounts
    <3>5. CASE N # {}
      <4> HIDE DEF new
      <4> QED
        BY <3>1, <3>2, <3>3, <3>4, <3>5 DEF Ledger!Next
    <3>6. CASE N = {}
      <4>1. LedgerLogs' = LedgerLogs
        BY <3>1, <3>6 DEF Ledger!Record, Ledger!Journal, LedgerLogs
      <4>2. Ledger!Touched(new) = {}
        BY <3>6 DEF Ledger!Touched
      <4>3. consumptions' = consumptions
        <5>1. consumptions = [g \in Groups |-> [i \in Slots |-> consumptions[g][i]]]
          BY DEF Agreement, Control, Shape
        <5> HIDE DEF new
        <5> QED
          BY <3>1, <4>2, <5>1 DEF Ledger!Record, Ledger!UpsertConsumptions
      <4>4. conflicts' = conflicts
        <5>1. conflicts = [o \in Operations |-> conflicts[o]]
          BY DEF Agreement, Control, Shape
        <5> HIDE DEF new
        <5> QED
          BY <3>1, <3>6, <4>2, <5>1 DEF Ledger!Record, Ledger!UpsertConflicts
      <4>5. acknowledged' = acknowledged
        BY <3>1 DEF Ledger!Record
      <4> QED
        BY <4>1, <4>3, <4>4, <4>5 DEF Ledger!vars
    <3> QED
      BY <3>5, <3>6
  <2>3. CASE Next /\ \A r \in Requests : ~Commit(r)
    BY <2>3, OtherStepsShowNothing DEF Ledger!Next
  <2> QED
    BY <2>1, <2>2, <2>3
<1> QED
  BY <1>1, LedgerInit, ServiceAgreement, PTL DEF Spec, Ledger!Spec

-----------------------------------------------------------------------------
(* What is proved of the ledger holds of the tables. *)

LP == INSTANCE CheckinLedgerProofs WITH
        logs <- LedgerLogs, Times <- Int, MaxBatch <- Cardinality(Operations)

\* Both instances are the same specification.
LEMMA SameLedger ==
  /\ Ledger!Init => LP!Init
  /\ Ledger!vars = LP!vars
  /\ Ledger!Next => LP!Next
<1>1. Ledger!vars = LP!vars
  BY DEF Ledger!vars, LP!vars
<1>2. Ledger!Init => LP!Init
  BY DEF Ledger!Init, LP!Init
<1>3. \A S : Ledger!Cardinality(S) = LP!Cardinality(S)
  BY Zenon DEF LP!Cardinality, Ledger!Cardinality, LP!IsFiniteSet, Ledger!IsFiniteSet
<1>4. Ledger!Entry = LP!Entry
  BY DEF Ledger!Entry, LP!Entry
<1>5. \A o : Ledger!Acknowledge(o) => LP!Acknowledge(o)
  BY DEF Ledger!Acknowledge, LP!Acknowledge
<1>6. /\ \A claims, uses, i : Ledger!HolderAt(claims, uses, i) = LP!HolderAt(claims, uses, i)
      /\ \A claims, uses : Ledger!Disputed(claims, uses) = LP!Disputed(claims, uses)
      /\ \A c, claims, uses : Ledger!ConflictSpec(c, claims, uses) = LP!ConflictSpec(c, claims, uses)
  <2>1. \A c, claims : Ledger!Rank(c, claims) = LP!Rank(c, claims)
    BY Zenon DEF Ledger!Rank, LP!Rank, Ledger!Before, LP!Before, Ledger!Cardinality, LP!Cardinality, Ledger!IsFiniteSet, LP!IsFiniteSet
  <2>2. \A claims, uses : Ledger!Assigned(claims, uses) = LP!Assigned(claims, uses)
    BY <2>1 DEF Ledger!Assigned, LP!Assigned
  <2>3. \A claims, uses : Ledger!Losers(claims, uses) = LP!Losers(claims, uses)
    BY <2>2 DEF Ledger!Losers, LP!Losers
  <2>4. \A claims, uses : Ledger!Reference(claims, uses) = LP!Reference(claims, uses)
    BY <2>2, Zenon DEF Ledger!Reference, LP!Reference, Ledger!Before, LP!Before
  <2>5. \A claims, uses, i : Ledger!HolderAt(claims, uses, i) = LP!HolderAt(claims, uses, i)
    <3> SUFFICES ASSUME NEW claims, NEW uses, NEW i
                 PROVE  Ledger!HolderAt(claims, uses, i) = LP!HolderAt(claims, uses, i)
      OBVIOUS
    <3> DEFINE first(S) == IF S = {} THEN NoOp ELSE (CHOOSE c \in S : TRUE).op
    <3>1. {c \in Ledger!Assigned(claims, uses) : Ledger!Rank(c, claims) = i}
          = {c \in LP!Assigned(claims, uses) : LP!Rank(c, claims) = i}
      BY <2>1, <2>2
    <3>2. /\ Ledger!HolderAt(claims, uses, i)
               = first({c \in Ledger!Assigned(claims, uses) : Ledger!Rank(c, claims) = i})
          /\ LP!HolderAt(claims, uses, i)
               = first({c \in LP!Assigned(claims, uses) : LP!Rank(c, claims) = i})
      BY Zenon DEF Ledger!HolderAt, LP!HolderAt
    <3> HIDE DEF first
    <3> QED
      BY <3>1, <3>2
  <2>6. \A claims, uses : Ledger!Disputed(claims, uses) = LP!Disputed(claims, uses)
    BY <2>2, <2>3 DEF Ledger!Disputed, LP!Disputed
  <2>7. \A c, claims, uses : Ledger!ConflictSpec(c, claims, uses) = LP!ConflictSpec(c, claims, uses)
    <3>1. \A loser, winner : Ledger!ClassifyLoser(loser, winner) = LP!ClassifyLoser(loser, winner)
      BY DEF Ledger!ClassifyLoser, LP!ClassifyLoser
    <3> SUFFICES ASSUME NEW c, NEW claims, NEW uses
                 PROVE  Ledger!ConflictSpec(c, claims, uses) = LP!ConflictSpec(c, claims, uses)
      OBVIOUS
    <3>2. /\ Ledger!Losers(claims, uses) = LP!Losers(claims, uses)
          /\ Ledger!Reference(claims, uses) = LP!Reference(claims, uses)
      BY <2>3, <2>4
    <3> QED
      BY <3>1, <3>2 DEF Ledger!ConflictSpec, LP!ConflictSpec
  <2> QED
    BY <2>5, <2>6, <2>7
<1>7. /\ \A new : Ledger!Journal(new) = LP!Journal(new) /\ Ledger!Touched(new) = LP!Touched(new)
      /\ \A J, g : Ledger!ClaimsOf(J, g) = LP!ClaimsOf(J, g)
      /\ \A J, o : Ledger!ClaimOf(J, o) = LP!ClaimOf(J, o)
      /\ \A J, o, g : Ledger!IsClaim(J, o, g) = LP!IsClaim(J, o, g)
  BY Zenon DEF Ledger!Journal, LP!Journal, Ledger!Touched, LP!Touched, Ledger!ClaimsOf, LP!ClaimsOf, Ledger!ClaimOf, LP!ClaimOf, Ledger!IsClaim, LP!IsClaim
<1>8. \A new : Ledger!Record(new) => LP!Record(new)
  <2> SUFFICES ASSUME NEW new, Ledger!Record(new) PROVE LP!Record(new)
    OBVIOUS
  <2>1. LP!UpsertConsumptions(new)
    <3>1. Ledger!UpsertConsumptions(new)
      BY DEF Ledger!Record
    <3> QED
      BY <1>6, <1>7, <3>1 DEF Ledger!UpsertConsumptions, LP!UpsertConsumptions
  <2>2. LP!UpsertConflicts(new)
    <3>1. Ledger!UpsertConflicts(new)
      BY DEF Ledger!Record
    <3> QED
      BY <1>6, <1>7, <3>1 DEF Ledger!UpsertConflicts, LP!UpsertConflicts
  <2> QED
    BY <1>7, <2>1, <2>2 DEF Ledger!Record, LP!Record
<1>9. Ledger!Next => LP!Next
  BY <1>3, <1>4, <1>5, <1>8 DEF Ledger!Next, LP!Next
<1> QED
  BY <1>1, <1>2, <1>9

\* The ledger's invariants, of the tables that the handlers keep.
THEOREM ServiceKeepsLedger ==
  Spec => [](LP!TypeOK /\ LP!AdmittedAreAccountedFor)
<1>1. Ledger!Spec => LP!Spec
  <2>1. [Ledger!Next]_(Ledger!vars) => [LP!Next]_(LP!vars)
    BY SameLedger DEF Ledger!vars, LP!vars
  <2> QED
    BY <2>1, SameLedger, PTL DEF Ledger!Spec, LP!Spec
<1>2. LP!LedgerAssumption /\ LP!DomainAssumption
  <2>1. LP!IsFiniteSet(Operations)
    BY ServiceAssumption, Zenon DEF IsFiniteSet, LP!IsFiniteSet
  <2>2. LP!Entry = Ledger!Entry /\ LP!Conflict = Ledger!Conflict
    BY DEF LP!Entry, Ledger!Entry, LP!Conflict, Ledger!Conflict
  <2>3. Cardinality(Operations) \in Nat
    BY ServiceAssumption, FS_CardinalityType
  <2> QED
    BY <2>1, <2>2, <2>3, ServiceAssumption, TableAssumption, DomainAssumption
<1>3. LP!Spec => []LP!TypeOK
  BY <1>2, LP!LedgerTypes
<1>4. LP!Spec => []LP!AdmittedAreAccountedFor
  BY <1>2, LP!EveryAdmissionIsAccountedFor
<1> QED
  BY <1>1, <1>3, <1>4, ServiceRefinesLedger, PTL

-----------------------------------------------------------------------------
(* What devices are told. *)

\* Request r was told that its item i is new.
Presented(r, i) ==
  /\ answer[r].status = "ok" /\ i \in DOMAIN answer[r].results
  /\ answer[r].results[i].status \in {"accepted", "conflict"}

\* It was told that somebody is in.
Admits(r, i) ==
  /\ answer[r].results[i] = Result("accepted", "valid")
  /\ input[r].kind = "online" \/ input[r].items[i].reported = "valid"

\* It was given the decision of a claim, for the content that was journaled as one.
AnswersClaim(r, i) ==
  LET row == logs[input[r].items[i].op]
  IN  /\ row.kind = "claim" /\ row.hash = Hash(input[r], i)
      /\ answer[r].results[i].decision \in {"valid", "already_scanned"}

\* What was presented as new is in the journal; an admission is there as a claim; a claim is
\* answered to one item only, and asked to be let in.
Answers ==
  /\ \A r \in Requests : pc[r] # "done" => answer[r].status = "none"
  /\ \A r \in Requests : \A i : Presented(r, i) =>
       LET o == input[r].items[i].op
       IN  /\ o \in Operations /\ logs[o] # NoLog
           /\ Admits(r, i) => logs[o].hash = Hash(input[r], i) /\ logs[o].kind = "claim"
  /\ \A r, q \in Requests : \A i, j :
       /\ Presented(r, i) /\ AnswersClaim(r, i) /\ Presented(q, j) /\ AnswersClaim(q, j)
       /\ input[r].items[i].op = input[q].items[j].op
       => r = q /\ i = j
  /\ \A o \in Operations : logs[o] # NoLog /\ logs[o].kind = "claim" =>
       logs[o].hash.kind = "online" \/ logs[o].hash.reported = "valid"

\* Only the rows that a handler found new are answered as new.
LEMMA NewResults ==
  ASSUME Control, NEW r \in Requests, pc[r] = "commit",
         NEW i \in DOMAIN BatchResults(r), BatchResults(r)[i].status \in {"accepted", "conflict"}
  PROVE  i \in txn[r].fresh /\ BatchResults(r)[i] = Result(AckOf(r, i), Decision(r, i))
<1>1. \A d : /\ Result("rejected", d).status = "rejected"
             /\ Result("already_processed", d).status = "already_processed"
  BY DEF Result
<1>2. \A j : Replay(r, j).status \in {"rejected", "already_processed"}
  BY <1>1 DEF Replay
<1>3. i \in Indices(input[r])
  BY DEF BatchResults
<1>4. CASE i \in Parsed(input[r])
  <2>1. BatchResults(r)[i] = ParsedResult(r, i)
    BY <1>3, <1>4 DEF BatchResults
  <2> QED
    BY <1>2, <2>1 DEF ParsedResult
<1>5. CASE i \notin Parsed(input[r])
  <2> DEFINE first == FirstOf(input[r], i)
             said == ParsedResult(r, first)
  <2>1. BatchResults(r)[i] =
          IF ~WellFormed(input[r], i) THEN Result("rejected", "invalid")
          ELSE IF Hash(input[r], i) # Hash(input[r], first)
               THEN Result("rejected", "operation_id_reuse")
               ELSE IF said.status = "rejected" THEN said
                    ELSE Result("already_processed", said.decision)
    BY <1>3, <1>5 DEF BatchResults
  <2> HIDE DEF said, first
  <2> QED
    BY <1>1, <2>1
<1> QED
  BY <1>4, <1>5

\* What a handler says of a row it found new, and of its journal row.
LEMMA NewRowAnswers ==
  ASSUME Control, NEW r \in Requests, Commit(r), NEW i \in txn[r].fresh
  PROVE  LET o == input[r].items[i].op
             result == Result(AckOf(r, i), Decision(r, i))
             asks == input[r].kind = "online" \/ input[r].items[i].reported = "valid"
         IN  /\ o \in Operations /\ logs'[o] # NoLog
             /\ result = Result("accepted", "valid") /\ asks =>
                  logs'[o].hash = Hash(input[r], i) /\ logs'[o].kind = "claim"
             /\ i \notin txn[r].inserted /\ Decision(r, i) \in {"valid", "already_scanned"} =>
                  logs[o] # NoLog /\ ~asks
             /\ Kind(r, i) = "claim" => asks
<1> DEFINE o == input[r].items[i].op
           asks == input[r].kind = "online" \/ input[r].items[i].reported = "valid"
           eligible == txn[r].verdict[i].eligible
<1>1. /\ InputType(input[r]) /\ JournalRead(r) /\ pc[r] = "commit" /\ ~Overtaken(r)
      /\ i \in Parsed(input[r]) /\ VerdictHolds(r, i) /\ txn[r].tried = txn[r].fresh
  BY DEF Control, Handler, Called, JournalRead, Commit, Loaded, InTxn
<1>2. o \in Operations
  BY <1>1, ParsedFacts
<1>3. CASE i \in txn[r].inserted
  <2>1. logs'[o] = Row(r, i) /\ logs'[o] # NoLog
    BY <1>3, CommitFacts
  <2>2. Row(r, i).hash = Hash(input[r], i) /\ Row(r, i).kind = Kind(r, i)
    BY DEF Row
  <2>3. Kind(r, i) = "claim" => asks
    BY DEF Kind, Claims
  <2>4. ASSUME Result(AckOf(r, i), Decision(r, i)) = Result("accepted", "valid"), asks
        PROVE  Kind(r, i) = "claim"
    <3>1. AckOf(r, i) = "accepted" /\ Decision(r, i) = "valid"
      <4>1. \A s, d : Result(s, d).status = s /\ Result(s, d).decision = d
        BY DEF Result
      <4> QED
        BY <2>4, <4>1
    <3>2. eligible
      <4>1. ~eligible => Decision(r, i) \in Refusals
        BY <1>1 DEF Decision, VerdictHolds
      <4> QED
        BY <3>1, <4>1 DEF Refusals
    <3>3. Claims(r, i)
      BY <2>4, <3>2 DEF Claims
    <3>4. TookSlot(r, i)
      BY <3>1, <3>2, <3>3 DEF Decision
    <3> QED
      BY <3>3, <3>4 DEF Kind
  <2> QED
    BY <1>2, <1>3, <2>1, <2>2, <2>3, <2>4
<1>4. CASE i \notin txn[r].inserted
  <2>1. logs[o] # NoLog
    BY <1>1, <1>4 DEF JournalRead
  <2>2. logs'[o] # NoLog
    BY <1>2, <2>1, CommitFacts
  <2>3. input[r].kind # "online" /\ ~Claims(r, i)
    BY <1>1, <1>4 DEF Overtaken
  <2>4. eligible => ~asks
    BY <2>3 DEF Claims
  <2>5. ~eligible => Decision(r, i) \in Refusals
    BY <1>1 DEF Decision, VerdictHolds
  <2>6. Decision(r, i) \in {"valid", "already_scanned"} => ~asks
    BY <1>1, <2>4, <2>5 DEF Refusals, VerdictHolds
  <2>7. Result(AckOf(r, i), Decision(r, i)) = Result("accepted", "valid") => Decision(r, i) = "valid"
    BY DEF Result
  <2>8. Kind(r, i) = "claim" => asks
    BY DEF Kind, Claims
  <2> QED
    BY <1>2, <1>4, <2>1, <2>2, <2>6, <2>7, <2>8
<1> QED
  BY <1>3, <1>4

\* Steps that answer nothing as new.
LEMMA AnswersFrame ==
  ASSUME Answers, UNCHANGED logs,
         \A q \in Requests : pc'[q] # "done" => answer'[q].status = "none",
         \A q \in Requests : \A i : Presented(q, i)' =>
           Presented(q, i) /\ answer'[q] = answer[q] /\ input'[q] = input[q]
  PROVE  Answers'
<1>1. ASSUME NEW q \in Requests, NEW i, Presented(q, i)'
      PROVE  /\ Presented(q, i) /\ input'[q].items[i].op = input[q].items[i].op
             /\ Admits(q, i)' = Admits(q, i) /\ AnswersClaim(q, i)' = AnswersClaim(q, i)
             /\ Hash(input[q], i)' = Hash(input[q], i)
  <2>1. Presented(q, i) /\ answer'[q] = answer[q] /\ input'[q] = input[q]
    BY <1>1
  <2>2. Hash(input[q], i)' = Hash(input[q], i)
    BY <2>1 DEF Hash
  <2> QED
    BY <2>1, <2>2 DEF Admits, AnswersClaim, Result
<1> QED
  BY <1>1 DEF Answers

\* A request that is answered stays so.
LEMMA AnsweredStay ==
  ASSUME Control, Answers, Next, NEW q \in Requests, answer'[q] = answer[q]
  PROVE  /\ \A i : Presented(q, i)' => Presented(q, i) /\ input'[q] = input[q]
         /\ pc[q] = "done" => pc'[q] = "done"
<1>1. CASE UNCHANGED <<input, pc>>
  BY <1>1 DEF Presented
<1>2. ASSUME NEW r \in Requests, Submit(r) PROVE
        /\ \A i : Presented(q, i)' => Presented(q, i) /\ input'[q] = input[q]
        /\ pc[q] = "done" => pc'[q] = "done"
  <2>1. CASE q = r
    <3>1. answer[q].status = "none"
      BY <1>2, <2>1 DEF Answers, Submit
    <3> QED
      BY <1>2, <2>1, <3>1 DEF Presented, Submit
  <2>2. CASE q # r
    <3>1. input'[q] = input[q] /\ pc'[q] = pc[q]
      BY <1>2, <2>2 DEF Submit, Goto, Control, Shape
    <3> QED
      BY <3>1 DEF Presented
  <2> QED
    BY <2>1, <2>2
<1>3. ASSUME NEW r \in Requests, Step(r) \/ Crash(r) PROVE
        /\ \A i : Presented(q, i)' => Presented(q, i) /\ input'[q] = input[q]
        /\ pc[q] = "done" => pc'[q] = "done"
  <2>1. UNCHANGED input
    BY <1>3 DEF Step, Crash, ReplayLookup, LoadReference, Lock, ReadJournal, InsertRow, Timeout,
            Commit, Rollback, End
  <2>2. pc[r] # "done"
    BY <1>3 DEF Step, Crash, ReplayLookup, LoadReference, Lock, ReadJournal, InsertRow, Timeout,
            Blocked, Commit, Rollback
  <2>3. q # r => pc'[q] = pc[q]
    BY <1>3 DEF Step, Crash, ReplayLookup, LoadReference, Lock, ReadJournal, InsertRow, Timeout,
            Commit, Rollback, End, Goto, Control, Shape
  <2> QED
    BY <2>1, <2>2, <2>3 DEF Presented
<1>4. CASE Edit \/ Tick \/ \E o \in Operations : Acknowledge(o)
  BY <1>4, <1>1 DEF Edit, Tick, Acknowledge
<1> QED
  BY <1>2, <1>3, <1>4 DEF Next

\* Steps that leave every answer as it is.
LEMMA QuietKeepsAnswers ==
  ASSUME Control, Control', Answers, Next, UNCHANGED <<logs, answer>>
  PROVE  Answers'
<1>1. ASSUME NEW q \in Requests, pc'[q] # "done" PROVE answer'[q].status = "none"
  <2>1. pc[q] # "done"
    BY <1>1, AnsweredStay
  <2> QED
    BY <2>1 DEF Answers
<1>2. \A q \in Requests : \A i : Presented(q, i)' =>
        Presented(q, i) /\ answer'[q] = answer[q] /\ input'[q] = input[q]
  BY AnsweredStay
<1> QED
  BY <1>1, <1>2, AnswersFrame

\* Ends that present nothing as new.
LEMMA EndKeepsAnswers ==
  ASSUME Control, Control', Answers, Next, NEW r \in Requests, pc[r] # "idle",
         NEW status \in {"ok", "busy", "lost"}, NEW results, End(r, status, results),
         UNCHANGED tables,
         status = "ok" => \A i \in DOMAIN results : results[i].status \notin {"accepted", "conflict"}
  PROVE  Answers'
<1>1. answer' = [answer EXCEPT ![r] = [status |-> status, results |-> results]] /\ pc'[r] = "done"
  BY EndKeeps
<1>2. DOMAIN answer = Requests /\ UNCHANGED logs
  BY DEF Control, Shape, tables
<1>3. /\ answer'[r] = [status |-> status, results |-> results]
      /\ \A q \in Requests \ {r} : answer'[q] = answer[q]
  BY <1>1, <1>2
<1>4. \A i : ~Presented(r, i)'
  BY <1>3 DEF Presented
<1>5. ASSUME NEW q \in Requests, pc'[q] # "done" PROVE answer'[q].status = "none"
  <2>1. q # r
    BY <1>1, <1>5
  <2>2. pc[q] # "done"
    BY <1>3, <1>5, <2>1, AnsweredStay
  <2> QED
    BY <1>3, <2>1, <2>2 DEF Answers
<1>6. ASSUME NEW q \in Requests, NEW i, Presented(q, i)'
      PROVE  Presented(q, i) /\ answer'[q] = answer[q] /\ input'[q] = input[q]
  <2>1. q # r
    BY <1>4, <1>6
  <2> QED
    BY <1>3, <1>6, <2>1, AnsweredStay
<1> QED
  BY <1>2, <1>5, <1>6, AnswersFrame

LEMMA CommitKeepsAnswers ==
  ASSUME Control, Control', Answers, Next, NEW r \in Requests, Commit(r)
  PROVE  Answers'
<1> DEFINE b == input[r]
           op(q, i) == input[q].items[i].op
<1>1. /\ answer' = [answer EXCEPT ![r] = [status |-> "ok", results |-> BatchResults(r)]]
      /\ pc'[r] = "done" /\ UNCHANGED input /\ pc[r] = "commit" /\ DOMAIN answer = Requests
  BY EndKeeps DEF Commit, Control, Shape
<1>2. /\ answer'[r] = [status |-> "ok", results |-> BatchResults(r)]
      /\ \A q \in Requests \ {r} : answer'[q] = answer[q]
  BY <1>1
<1>3. ASSUME NEW q \in Requests, pc'[q] # "done" PROVE answer'[q].status = "none"
  <2>1. q # r
    BY <1>1, <1>3
  <2>2. pc[q] # "done"
    BY <1>2, <1>3, <2>1, AnsweredStay
  <2> QED
    BY <1>2, <2>1, <2>2 DEF Answers
<1>4. ASSUME NEW i, Presented(r, i)'
      PROVE  i \in txn[r].fresh /\ answer'[r].results[i] = Result(AckOf(r, i), Decision(r, i))
  <2>1. i \in DOMAIN BatchResults(r) /\ BatchResults(r)[i].status \in {"accepted", "conflict"}
    BY <1>2, <1>4 DEF Presented
  <2>2. answer'[r].results[i] = BatchResults(r)[i]
    BY <1>2
  <2> QED
    BY <1>1, <2>1, <2>2, NewResults
<1>5. \A q \in Requests \ {r} : \A i : Presented(q, i)' => Presented(q, i)
  BY <1>2 DEF Presented
<1>6. \A q, i : Hash(input[q], i)' = Hash(input[q], i)
  BY <1>1 DEF Hash
<1>7. \A o \in Operations : logs[o] # NoLog => logs'[o] = logs[o]
  BY CommitFacts
<1>8. ASSUME NEW q \in Requests, NEW i, Presented(q, i)'
      PROVE  LET o == op(q, i)
             IN  /\ o \in Operations /\ logs'[o] # NoLog
                 /\ Admits(q, i)' => logs'[o].hash = Hash(input[q], i) /\ logs'[o].kind = "claim"
  <2>1. CASE q = r
    <3>1. i \in txn[r].fresh /\ answer'[r].results[i] = Result(AckOf(r, i), Decision(r, i))
      BY <1>4, <1>8, <2>1
    <3>2. Admits(r, i)' => /\ Result(AckOf(r, i), Decision(r, i)) = Result("accepted", "valid")
                           /\ b.kind = "online" \/ b.items[i].reported = "valid"
      BY <1>1, <3>1 DEF Admits, Result
    <3> QED
      BY <2>1, <3>1, <3>2, NewRowAnswers
  <2>2. CASE q # r
    <3>1. Presented(q, i) /\ answer'[q] = answer[q]
      BY <1>2, <1>5, <1>8, <2>2
    <3>2. Admits(q, i)' = Admits(q, i)
      BY <1>1, <3>1 DEF Admits, Result
    <3> QED
      BY <1>7, <3>1, <3>2 DEF Answers
  <2> QED
    BY <2>1, <2>2
<1>9. \A o \in Operations : logs'[o] # NoLog /\ logs'[o].kind = "claim" =>
        logs'[o].hash.kind = "online" \/ logs'[o].hash.reported = "valid"
  <2> SUFFICES ASSUME NEW o \in Operations, logs'[o] # NoLog, logs'[o].kind = "claim"
               PROVE  logs'[o].hash.kind = "online" \/ logs'[o].hash.reported = "valid"
    OBVIOUS
  <2>1. CASE \A i \in txn[r].inserted : b.items[i].op # o
    BY <2>1, CommitFacts DEF Answers
  <2>2. CASE \E i \in txn[r].inserted : b.items[i].op = o
    <3>1. PICK i \in txn[r].inserted : b.items[i].op = o
      BY <2>2
    <3>2. logs'[o] = Row(r, i) /\ i \in txn[r].fresh
      BY <1>1, <3>1, CommitFacts DEF Control, Handler, JournalRead
    <3>3. Row(r, i).kind = Kind(r, i) /\ Row(r, i).hash = Hash(b, i)
      BY DEF Row
    <3>4. b.kind = "online" \/ b.items[i].reported = "valid"
      BY <3>2, <3>3, NewRowAnswers
    <3> QED
      BY <3>2, <3>3, <3>4 DEF Hash
  <2> QED
    BY <2>1, <2>2
\* The answers of a claim are given by the commit that journals it.
<1>10. ASSUME NEW i, Presented(r, i)', AnswersClaim(r, i)'
       PROVE  i \in txn[r].fresh /\ logs[op(r, i)] = NoLog
  <2> DEFINE o == op(r, i)
  <2>1. i \in txn[r].fresh /\ answer'[r].results[i] = Result(AckOf(r, i), Decision(r, i))
    BY <1>4, <1>10
  <2>2. /\ logs'[o].kind = "claim" /\ logs'[o].hash = Hash(b, i)
        /\ Decision(r, i) \in {"valid", "already_scanned"}
    BY <1>1, <1>6, <1>10, <2>1 DEF AnswersClaim, Result
  <2>3. o \in Operations /\ logs'[o] # NoLog
    BY <2>1, NewRowAnswers
  <2>4. CASE i \in txn[r].inserted
    BY <2>1, <2>4, CommitFacts
  <2>5. CASE i \notin txn[r].inserted
    <3>1. ~(b.kind = "online" \/ b.items[i].reported = "valid")
      BY <2>1, <2>2, <2>5, NewRowAnswers
    <3>2. logs'[o].hash.kind = b.kind /\ logs'[o].hash.reported = b.items[i].reported
      BY <2>2 DEF Hash
    <3> QED
      BY <1>9, <2>2, <2>3, <3>1, <3>2
  <2> QED
    BY <2>4, <2>5
<1>11. ASSUME NEW q \in Requests \ {r}, NEW i, Presented(q, i)', AnswersClaim(q, i)'
       PROVE  /\ Presented(q, i) /\ AnswersClaim(q, i) /\ logs[op(q, i)] # NoLog
              /\ op(q, i) \in Operations
  <2>1. Presented(q, i) /\ answer'[q] = answer[q]
    BY <1>2, <1>5, <1>11
  <2>2. op(q, i) \in Operations /\ logs[op(q, i)] # NoLog
    BY <2>1 DEF Answers
  <2>3. logs'[op(q, i)] = logs[op(q, i)]
    BY <1>7, <2>2
  <2>4. AnswersClaim(q, i)
    BY <1>1, <1>6, <1>11, <2>1, <2>3 DEF AnswersClaim
  <2> QED
    BY <2>1, <2>2, <2>4
<1>12. ASSUME NEW p \in Requests, NEW q \in Requests, NEW i, NEW j,
              Presented(p, i)', AnswersClaim(p, i)', Presented(q, j)', AnswersClaim(q, j)',
              op(p, i) = op(q, j)
       PROVE  p = q /\ i = j
  <2>1. CASE p # r /\ q # r
    BY <1>11, <1>12, <2>1 DEF Answers
  <2>2. CASE p = r /\ q = r
    <3>1. InputType(b) /\ txn[r].fresh \subseteq Parsed(b)
      BY <1>1 DEF Control, Handler, Called, JournalRead
    <3> QED
      BY <1>10, <1>12, <2>2, <3>1, ParsedFacts
  <2>3. CASE p = r /\ q # r
    BY <1>10, <1>11, <1>12, <2>3
  <2>4. CASE p # r /\ q = r
    BY <1>10, <1>11, <1>12, <2>4
  <2> QED
    BY <2>1, <2>2, <2>3, <2>4
<1>13. input' = input
  BY <1>1
<1>14. \A q \in Requests : \A i : Presented(q, i)' =>
         LET o == input'[q].items[i].op
         IN  /\ o \in Operations /\ logs'[o] # NoLog
             /\ Admits(q, i)' => logs'[o].hash = Hash(input[q], i)' /\ logs'[o].kind = "claim"
  BY <1>6, <1>8, <1>13
<1>15. \A p, q \in Requests : \A i, j :
         /\ Presented(p, i)' /\ AnswersClaim(p, i)' /\ Presented(q, j)' /\ AnswersClaim(q, j)'
         /\ input'[p].items[i].op = input'[q].items[j].op
         => p = q /\ i = j
  BY <1>12, <1>13
<1> HIDE DEF op
<1> QED
  BY <1>3, <1>9, <1>14, <1>15 DEF Answers

LEMMA NextKeepsAnswers ==
  ASSUME Control, Control', Answers, [Next]_vars
  PROVE  Answers'
<1>1. CASE UNCHANGED vars
  <2>1. UNCHANGED <<logs, input, pc, answer>>
    BY <1>1 DEF vars, tables
  <2>2. \A q \in Requests : pc'[q] # "done" => answer'[q].status = "none"
    BY <2>1 DEF Answers
  <2>3. \A q \in Requests : \A i : Presented(q, i)' =>
          Presented(q, i) /\ answer'[q] = answer[q] /\ input'[q] = input[q]
    BY <2>1 DEF Presented
  <2> QED
    BY <2>1, <2>2, <2>3, AnswersFrame
<1>2. \A q, i : Replay(q, i).status \notin {"accepted", "conflict"}
  BY DEF Replay, Result
<1>3. ASSUME Next, NEW r \in Requests, Submit(r) \/ Step(r) \/ Crash(r) PROVE Answers'
  <2>1. CASE \/ Submit(r) \/ LoadReference(r) \/ Lock(r) \/ ReadJournal(r) \/ InsertRow(r)
             \/ ReplayLookup(r) /\ logs[input[r].items[1].op] = NoLog
    <3>1. UNCHANGED <<logs, answer>>
      BY <2>1 DEF Submit, LoadReference, Lock, ReadJournal, InsertRow, ReplayLookup, tables
    <3> QED
      BY <1>3, <3>1, QuietKeepsAnswers
  <2>2. CASE Commit(r)
    BY <1>3, <2>2, CommitKeepsAnswers
  <2>3. CASE Timeout(r)
    BY <1>3, <2>3, EndKeepsAnswers DEF Timeout, Blocked
  <2>4. CASE Crash(r)
    BY <1>3, <2>4, EndKeepsAnswers DEF Crash
  <2>5. CASE ReplayLookup(r) /\ logs[input[r].items[1].op] # NoLog
    <3> DEFINE results == <<Replay(r, 1)>>
    <3>1. End(r, "ok", results) /\ UNCHANGED tables /\ pc[r] # "idle"
      BY <2>5 DEF ReplayLookup
    <3>2. \A i \in DOMAIN results : results[i].status \notin {"accepted", "conflict"}
      BY <1>2
    <3> HIDE DEF results
    <3> QED
      BY <1>3, <3>1, <3>2, EndKeepsAnswers
  <2>6. CASE Rollback(r) /\ input[r].kind = "online"
    <3> DEFINE results == <<Replay(r, 1)>>
    <3>1. End(r, "ok", results) /\ UNCHANGED tables /\ pc[r] # "idle"
      BY <2>6 DEF Rollback
    <3>2. \A i \in DOMAIN results : results[i].status \notin {"accepted", "conflict"}
      BY <1>2
    <3> HIDE DEF results
    <3> QED
      BY <1>3, <3>1, <3>2, EndKeepsAnswers
  <2>7. CASE Rollback(r) /\ input[r].kind # "online"
    BY <1>3, <2>7, EndKeepsAnswers DEF Rollback
  <2> QED
    BY <1>3, <2>1, <2>2, <2>3, <2>4, <2>5, <2>6, <2>7 DEF Step
<1>4. CASE Edit \/ Tick \/ \E o \in Operations : Acknowledge(o)
  <2>1. Next /\ UNCHANGED <<logs, answer>>
    BY <1>4 DEF Next, Edit, Tick, Acknowledge, tables
  <2> QED
    BY <2>1, QuietKeepsAnswers
<1> QED
  BY <1>1, <1>3, <1>4 DEF Next

THEOREM ServiceAnswers == Spec => []Answers
<1>1. Init => Answers
  BY DEF Init, Answers, Presented
<1>2. Control /\ Control' /\ Answers /\ [Next]_vars => Answers'
  BY NextKeepsAnswers
<1> QED
  BY <1>1, <1>2, ServiceControl, PTL DEF Spec

\* What was answered and what was written agree: an admission that a device was told of is in
\* the journal as a claim, and either holds a slot now or has a conflict that says it lost
\* it; and the tables keep their shape (online_scan, sync_batch).
THEOREM AdmissionsAreAccounted == Spec => []ServiceIsSound
<1>1. Agreement /\ Answers /\ LP!TypeOK /\ LP!AdmittedAreAccountedFor => ServiceIsSound
  <2> SUFFICES ASSUME Agreement, Answers, LP!TypeOK, LP!AdmittedAreAccountedFor
               PROVE  ServiceIsSound
    OBVIOUS
  <2>1. Shape /\ \A r \in Requests : Called(r)
    BY DEF Agreement, Control, Handler
  <2>2. TypeOK
    <3>1. consumptions \in [Groups -> [Slots -> Operations \cup {NoOp}]]
      BY DEF LP!TypeOK
    <3>2. \A r \in Requests : input[r] # NoInput => InputType(input[r])
      BY <2>1 DEF Called
    <3> QED
      BY <2>1, <3>1, <3>2 DEF TypeOK, Shape
  <2>3. ASSUME NEW a \in Admissions
        PROVE  LET o == ItemOf(a).op
               IN  /\ logs[o] # NoLog /\ logs[o].hash = HashOf(a) /\ logs[o].kind = "claim"
                   /\ Ledger!HoldsSlot(o) <=> ~Ledger!LostOrRefused(o)
    <3> DEFINE o == ItemOf(a).op
    <3>1. PICK r, i : /\ r \in Requests /\ i \in DOMAIN answer[r].results
                     /\ answer[r].status = "ok" /\ a = <<r, i>>
      BY DEF Admissions, Told
    <3>2. /\ a[1] = r /\ a[2] = i /\ ItemOf(a) = input[r].items[i] /\ HashOf(a) = Hash(input[r], i)
          /\ ResultOf(a) = answer[r].results[i]
      BY <3>1 DEF ItemOf, HashOf, ResultOf
    <3>3. Presented(r, i) /\ Admits(r, i)
      BY <3>1, <3>2 DEF Admissions, Presented, Admits, Result
    <3>4. o \in Operations /\ logs[o] # NoLog /\ logs[o].hash = HashOf(a) /\ logs[o].kind = "claim"
      BY <3>1, <3>2, <3>3 DEF Answers
    <3>5. LedgerLogs[o] = Entered(logs[o]) /\ LedgerLogs[o] # NoLog
      BY <3>4, LedgerLogsFacts
    <3>6. LedgerLogs[o].kind # "evidence"
      BY <3>4, <3>5 DEF Entered
    <3>7. LP!HoldsSlot(o) <=> ~LP!LostOrRefused(o)
      BY <3>4, <3>5, <3>6 DEF LP!AdmittedAreAccountedFor
    <3> QED
      BY <3>4, <3>7 DEF LP!HoldsSlot, Ledger!HoldsSlot, LP!LostOrRefused, Ledger!LostOrRefused
  <2> QED
    BY <2>2, <2>3 DEF ServiceIsSound, AdmissionsAreAccountedFor
<1> QED
  BY <1>1, ServiceAgreement, ServiceAnswers, ServiceKeepsLedger, PTL

\* A claim is answered as new once, whatever the retries and copies of its request
\* (find_operations, the unique operation_id, the rollback of an overtaken claim).
THEOREM ClaimsAreAnswered == Spec => []ClaimsAreAnsweredOnce
<1>1. Answers => ClaimsAreAnsweredOnce
  <2> SUFFICES ASSUME Answers, NEW o \in Operations, logs[o] # NoLog, logs[o].kind = "claim"
               PROVE  Cardinality(ClaimAnswers(o)) <= 1
    BY DEF ClaimsAreAnsweredOnce
  <2>1. ASSUME NEW a \in ClaimAnswers(o), NEW c \in ClaimAnswers(o) PROVE a = c
    <3>1. PICK r, i : /\ r \in Requests /\ i \in DOMAIN answer[r].results
                     /\ answer[r].status = "ok" /\ a = <<r, i>>
      BY DEF ClaimAnswers, FirstAnswers, Told
    <3>2. PICK q, j : /\ q \in Requests /\ j \in DOMAIN answer[q].results
                     /\ answer[q].status = "ok" /\ c = <<q, j>>
      BY DEF ClaimAnswers, FirstAnswers, Told
    <3>3. Presented(r, i) /\ AnswersClaim(r, i) /\ input[r].items[i].op = o
      BY <3>1 DEF ClaimAnswers, FirstAnswers, Presented, AnswersClaim, ItemOf, HashOf, ResultOf
    <3>4. Presented(q, j) /\ AnswersClaim(q, j) /\ input[q].items[j].op = o
      BY <3>2 DEF ClaimAnswers, FirstAnswers, Presented, AnswersClaim, ItemOf, HashOf, ResultOf
    <3>5. r = q /\ i = j
      BY <3>1, <3>2, <3>3, <3>4 DEF Answers
    <3> QED
      BY <3>1, <3>2, <3>5
  <2>2. CASE ClaimAnswers(o) = {}
    BY <2>2, FS_EmptySet
  <2>3. CASE ClaimAnswers(o) # {}
    <3>1. PICK a \in ClaimAnswers(o) : TRUE
      BY <2>3
    <3>2. ClaimAnswers(o) = {a}
      BY <2>1
    <3> QED
      BY <3>2, FS_Singleton
  <2> QED
    BY <2>2, <2>3
<1> QED
  BY <1>1, ServiceAnswers, PTL
=============================================================================
