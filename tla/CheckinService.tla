---------------------------- MODULE CheckinService ----------------------------
(***************************************************************************)
(* The check-in handlers as they interleave on PostgreSQL: online_scan     *)
(* (backend/checkin/service.py) and sync_batch (sync_service.py), over the *)
(* statements of repository.py.  A request is one invocation.  Each of its *)
(* database statements that another transaction can get ahead of is an     *)
(* action: the replay lookup, the reference reads, each advisory lock, the *)
(* journal reads, each unique-index insertion, and the commit that makes   *)
(* its rows visible.  What it wrote before that commit is visible to       *)
(* nobody, so consumptions and conflicts are written by the commit action. *)
(*                                                                         *)
(* A lost reply needs no action of its own: a terminal that has no answer  *)
(* sends the same input again, and any request may carry any input.        *)
(***************************************************************************)
EXTENDS CheckinDomain, Sequences

CONSTANTS
  Operations, Terminals, Tickets, Stations,
  Requests,           \* handler invocations
  Scenarios,          \* what one behaviour may do, a set of records: how many
                      \* requests are made, of which inputs (InputType), whether a
                      \* server process may die inside one, how often organizers void,
                      \* mint or switch stations meanwhile
  MaxUses,            \* max_uses of each group while its station is allowed
  Slots,              \* every use_index that a rule allows
  LockOrder,          \* rank of each group's key in sorted(keys)
  InitialTickets,     \* the tickets table at the start, each a set of <= 1 row
  Event,              \* the event being checked in
  NoTicket,           \* ticket_id IS NULL
  NoLog, NoConflict, NoInput, Free,
  MaxNow,             \* bound: the server clock stops here
  LockTimeouts        \* whether lock_timeout and deadlock detection may fire

Groups == (Tickets \cup {NoTicket}) \X Stations

ASSUME ServiceAssumption ==
  /\ Operations \subseteq Nat /\ IsFiniteSet(Operations)
  /\ Slots \subseteq Nat
  /\ MaxUses \in [Groups -> Nat]
  /\ \A g \in Groups : 0 .. (MaxUses[g] - 1) \subseteq Slots
  /\ LockOrder \in [Groups -> Nat]
  /\ \A g, h \in Groups : LockOrder[g] = LockOrder[h] => g = h
  /\ LockTimeouts \in BOOLEAN
  /\ MaxNow \in Nat
  /\ Free \notin Requests
  /\ \A s \in Scenarios : s.requests \in Nat /\ s.crashes \in BOOLEAN /\ s.edits \in Nat

VARIABLES
  logs, consumptions, conflicts, acknowledged,   \* the tables of CheckinLedger
  tickets,            \* the tickets table
  rules,              \* what load_rules says of each group today
  now,                \* rt.clock()
  scenario,           \* which of Scenarios this behaviour follows
  edits,              \* organizer actions so far
  locks,              \* advisory locks: who holds each group
  keys,               \* operation_id index entries of uncommitted transactions
  pc, input, received,
  txn,                \* the local variables of each handler
  answer

tables  == <<logs, consumptions, conflicts, acknowledged>>
facts   == <<tickets, rules, now, scenario, edits>>
vars    == <<tables, facts, locks, keys, pc, input, received, txn, answer>>

-----------------------------------------------------------------------------
(* What a request carries.  An online scan has one item and no device      *)
(* clock; a batch has the device's sending time, as a delay before its     *)
(* reception.  `capability` is the outcome of verifying the QR:            *)
(* tickets/capability.py decides it from signatures that are not modelled. *)

Item ==
  [op : Operations, ticket : Tickets \cup {NoTicket}, station : Stations \cup {"unknown"},
   evaluated : Int, reported : {"valid", "other"},
   capability : {"none", "true", "false", "expired", "other_event"}]

InputType(b) ==
  /\ b.kind \in {"online", "sync"}
  /\ b.terminal \in Terminals
  /\ b.delay \in Int
  /\ b.items \in Seq(Item) /\ b.items # << >>
  /\ b.kind = "online" =>
       Len(b.items) = 1 /\ b.items[1].station \in Stations /\ b.items[1].reported = "other"

ASSUME InputAssumption == \A s \in Scenarios : \A b \in s.inputs : InputType(b)

Indices(b) == DOMAIN b.items

\* payload_hash: an online request is hashed without its QR, hence without the ticket.
Hash(b, i) ==
  [kind |-> b.kind, terminal |-> b.terminal, station |-> b.items[i].station,
   evaluated |-> b.items[i].evaluated, reported |-> b.items[i].reported,
   ticket |-> IF b.kind = "online" THEN NoTicket ELSE b.items[i].ticket]

\* Items that pass validation: known station, and a ticket if somebody was admitted.
WellFormed(b, i) ==
  /\ b.items[i].station \in Stations
  /\ b.items[i].reported = "valid" => b.items[i].ticket # NoTicket

\* Only the first well-formed item of an operation_id goes further (first_idx).
Parsed(b) ==
  {i \in Indices(b) :
     /\ WellFormed(b, i)
     /\ \A j \in Indices(b) : j < i /\ WellFormed(b, j) => b.items[j].op # b.items[i].op}

FirstOf(b, i) == CHOOSE j \in Parsed(b) : b.items[j].op = b.items[i].op

GroupOf(b, i) == <<b.items[i].ticket, b.items[i].station>>

\* correct_clock: the instant and the suspicion that are frozen into row i.
Clock(r, i) ==
  IF input[r].kind = "online" THEN [at |-> received[r], suspect |-> FALSE]
  ELSE CorrectClock(input[r].items[i].evaluated, received[r] - input[r].delay, received[r])
-----------------------------------------------------------------------------
(* Eligibility as the two handlers compute it from today's reference rows. *)

Explicit(ticket) == [s \in Stations |-> rules[<<ticket, s>>]]

Verdict(r, i) ==
  LET online  == input[r].kind = "online"
      item    == input[r].items[i]
      row     == IF item.ticket = NoTicket THEN {} ELSE tickets[item.ticket]
      checked == CheckEligibility(row, Event, item.station, Explicit(item.ticket),
                                  Clock(r, i).at,
                                  IF item.capability = "expired" THEN "true"
                                  ELSE IF item.capability = "other_event" THEN "false"
                                  ELSE item.capability)
  IN  CASE online /\ item.capability = "expired"     -> Ineligible("expired", "none")
        [] online /\ item.capability = "other_event" -> Ineligible("wrong_event", "none")
        [] online /\ item.capability \in {"none", "false"}
                                                               -> Ineligible("invalid", "none")
        [] ~online /\ item.capability = "expired" /\ checked.eligible
                                     -> Ineligible("expired", "NOT_AUTHORIZED_SERVER_SIDE")
        [] OTHER                     -> checked

\* _Op.claims; an online scan always asks to be let in.
Claims(r, i) ==
  /\ input[r].kind = "online" \/ input[r].items[i].reported = "valid"
  /\ txn[r].verdict[i].eligible

MyClaim(r, i) ==
  [op |-> input[r].items[i].op, terminal |-> input[r].terminal,
   at |-> Clock(r, i).at, suspect |-> Clock(r, i).suspect]

-----------------------------------------------------------------------------
(* fetch_claims, and the resolution of a group inside one transaction. *)

ClaimsOf(g) ==
  {[op |-> o, terminal |-> logs[o].terminal, at |-> logs[o].at, suspect |-> logs[o].suspect] :
     o \in {p \in Operations : /\ logs[p] # NoLog
                              /\ logs[p].group = g
                              /\ logs[p].kind = "claim"}}

\* The new rows of r that claim group g (claimants).
Claimants(r, g) == {i \in txn[r].fresh : GroupOf(input[r], i) = g /\ Claims(r, i)}

Competitors(r, g) == txn[r].seen[g] \cup {MyClaim(r, i) : i \in Claimants(r, g)}

Uses(r, g) == txn[r].uses[g]

TookSlot(r, i) ==
  LET g == GroupOf(input[r], i)
  IN  MyClaim(r, i) \in Assigned(Competitors(r, g), Uses(r, g))

\* is_claim: an online scan that finds no slot is journaled as evidence only.
Kind(r, i) ==
  CASE input[r].kind = "online" -> IF Claims(r, i) /\ TookSlot(r, i) THEN "claim" ELSE "evidence"
    [] OTHER -> IF Claims(r, i) THEN "claim"
                ELSE IF input[r].items[i].reported = "valid" THEN "refused" ELSE "evidence"

\* server_decision of a new row.
Decision(r, i) ==
  LET g    == GroupOf(input[r], i)
      full == Cardinality(Assigned(Competitors(r, g), Uses(r, g))) >= Uses(r, g)
  IN  IF ~txn[r].verdict[i].eligible THEN txn[r].verdict[i].decision
      ELSE IF Claims(r, i) THEN IF TookSlot(r, i) THEN "valid" ELSE "already_scanned"
      ELSE IF full THEN "already_scanned" ELSE "valid"

Row(r, i) ==
  [hash |-> Hash(input[r], i), group |-> GroupOf(input[r], i), terminal |-> input[r].terminal,
   at |-> Clock(r, i).at, suspect |-> Clock(r, i).suspect, kind |-> Kind(r, i),
   verdict |-> IF Kind(r, i) = "refused" THEN txn[r].verdict[i].conflict ELSE "none",
   decision |-> Decision(r, i)]

\* The groups whose resolution is written.
Resolved(r) == {g \in txn[r].groups : \E i \in Claimants(r, g) : Kind(r, i) = "claim"}

-----------------------------------------------------------------------------
(* Answers. *)

Result(status, decision) == [status |-> status, decision |-> decision]

AckOf(r, i) ==
  IF Kind(r, i) = "refused" \/ (Kind(r, i) = "claim" /\ ~TookSlot(r, i))
  THEN "conflict" ELSE "accepted"

\* A row that was journaled before: its first result, or a rejection if it was
\* another scan that used this operation_id.
Replay(r, i) ==
  LET stored == logs[input[r].items[i].op]
  IN  IF stored.hash = Hash(input[r], i) THEN Result("already_processed", stored.decision)
      ELSE Result("rejected", "operation_id_reuse")

ParsedResult(r, i) ==
  IF i \in txn[r].fresh THEN Result(AckOf(r, i), Decision(r, i)) ELSE Replay(r, i)

BatchResults(r) ==
  [i \in Indices(input[r]) |->
     IF i \in Parsed(input[r]) THEN ParsedResult(r, i)
     ELSE IF ~WellFormed(input[r], i) THEN Result("rejected", "invalid")
     ELSE LET first == FirstOf(input[r], i)
          IN  IF Hash(input[r], i) # Hash(input[r], first)
              THEN Result("rejected", "operation_id_reuse")
              ELSE IF ParsedResult(r, first).status = "rejected" THEN ParsedResult(r, first)
              ELSE Result("already_processed", ParsedResult(r, first).decision)]

NoTxn == [verdict |-> << >>, uses |-> << >>, groups |-> {}, seen |-> << >>,
          fresh |-> {}, tried |-> {}, inserted |-> {}]

\* The handler ends: locks and index entries are released, its locals are gone.
End(r, status, results) ==
  /\ locks' = [g \in Groups |-> IF locks[g] = r THEN Free ELSE locks[g]]
  /\ keys' = [o \in Operations |-> IF keys[o] = r THEN Free ELSE keys[o]]
  /\ pc' = [pc EXCEPT ![r] = "done"]
  /\ txn' = [txn EXCEPT ![r] = NoTxn]
  /\ answer' = [answer EXCEPT ![r] = [status |-> status, results |-> results]]
  /\ UNCHANGED <<facts, input, received>>

Goto(r, label) == pc' = [pc EXCEPT ![r] = label]

-----------------------------------------------------------------------------
Init ==
  /\ logs = [o \in Operations |-> NoLog]
  /\ consumptions = [g \in Groups |-> [i \in Slots |-> NoOp]]
  /\ conflicts = [o \in Operations |-> NoConflict]
  /\ acknowledged = {}
  /\ tickets = InitialTickets
  /\ rules = MaxUses
  /\ now = 0
  /\ scenario \in Scenarios
  /\ edits = 0
  /\ locks = [g \in Groups |-> Free]
  /\ keys = [o \in Operations |-> Free]
  /\ pc = [r \in Requests |-> "idle"]
  /\ input = [r \in Requests |-> NoInput]
  /\ received = [r \in Requests |-> 0]
  /\ txn = [r \in Requests |-> NoTxn]
  /\ answer = [r \in Requests |-> [status |-> "none", results |-> << >>]]

\* A request reaches its handler, which reads the clock and validates the items.
Submit(r) ==
  /\ pc[r] = "idle"
  /\ Cardinality({q \in Requests : pc[q] # "idle"}) < scenario.requests
  /\ \E b \in scenario.inputs :
       /\ input' = [input EXCEPT ![r] = b]
       /\ Goto(r, IF b.kind = "online" THEN "replay" ELSE "load")
  /\ received' = [received EXCEPT ![r] = now]
  /\ UNCHANGED <<tables, facts, locks, keys, txn, answer>>

\* online_scan looks its operation_id up before it reads anything else.
ReplayLookup(r) ==
  /\ pc[r] = "replay"
  /\ IF logs[input[r].items[1].op] = NoLog
     THEN /\ Goto(r, "load")
          /\ UNCHANGED <<facts, locks, keys, input, received, txn, answer>>
     ELSE End(r, "ok", <<Replay(r, 1)>>)
  /\ UNCHANGED tables

\* load_tickets and load_rules, in a read transaction that ends before the locks
\* are taken.
LoadReference(r) ==
  /\ pc[r] = "load"
  /\ LET parsed == Parsed(input[r])
         known  == {i \in parsed : /\ input[r].items[i].ticket # NoTicket
                                   /\ tickets[input[r].items[i].ticket] # {}}
         locked == IF input[r].kind = "sync" THEN known
                   ELSE {i \in known : Verdict(r, i).eligible}
     IN  txn' = [txn EXCEPT ![r] =
           [@ EXCEPT !.verdict = [i \in parsed |-> Verdict(r, i)],
                     !.groups  = {GroupOf(input[r], i) : i \in locked},
                     !.uses    = [g \in {GroupOf(input[r], i) : i \in parsed} |->
                                    AllowedMaxUses(g[2], Explicit(g[1]))]]]
  /\ Goto(r, "lock")
  /\ UNCHANGED <<tables, facts, locks, keys, input, received, answer>>

\* pg_advisory_xact_lock on the smallest key that r still lacks.
Wanted(r) == {g \in txn[r].groups : locks[g] # r}

\* Mutated form: locks in the order the items were received.
NextLockAsReceived(r) ==
  CHOOSE g \in Wanted(r) : \E i \in Indices(input[r]) :
    /\ GroupOf(input[r], i) = g
    /\ \A j \in Indices(input[r]) : GroupOf(input[r], j) \in Wanted(r) => i <= j

NextLock(r) == CHOOSE g \in Wanted(r) : \A h \in Wanted(r) : LockOrder[g] <= LockOrder[h]

\* Mutated form: no lock is taken.
LockNothing(r) ==
  /\ pc[r] = "lock"
  /\ Goto(r, "read")
  /\ UNCHANGED <<tables, facts, locks, keys, input, received, txn, answer>>

Lock(r) ==
  /\ pc[r] = "lock"
  /\ IF Wanted(r) = {}
     THEN Goto(r, "read") /\ UNCHANGED locks
     ELSE /\ locks[NextLock(r)] = Free
          /\ locks' = [locks EXCEPT ![NextLock(r)] = r]
          /\ UNCHANGED pc
  /\ UNCHANGED <<tables, facts, keys, input, received, txn, answer>>

\* find_operations and fetch_claims, under the locks.
ReadJournal(r) ==
  /\ pc[r] = "read"
  /\ txn' = [txn EXCEPT ![r] =
       [@ EXCEPT !.fresh = IF input[r].kind = "online" THEN {1}
                           ELSE {i \in Parsed(input[r]) : logs[input[r].items[i].op] = NoLog},
                 !.seen  = [g \in DOMAIN txn[r].uses |->
                              IF g \in txn[r].groups THEN ClaimsOf(g) ELSE {}]]]
  /\ Goto(r, "insert")
  /\ UNCHANGED <<tables, facts, locks, keys, input, received, answer>>

\* INSERT ... ON CONFLICT (operation_id) DO NOTHING, row by row: it waits for a
\* transaction that inserted the same key, and skips a key that is committed.
NextRow(r) == CHOOSE i \in txn[r].fresh \ txn[r].tried :
                \A j \in txn[r].fresh \ txn[r].tried : i <= j

InsertRow(r) ==
  /\ pc[r] = "insert"
  /\ IF txn[r].tried = txn[r].fresh
     THEN Goto(r, "commit") /\ UNCHANGED <<keys, txn>>
     ELSE LET i  == NextRow(r)
              op == input[r].items[i].op
          IN  /\ keys[op] = Free
              /\ txn' = [txn EXCEPT ![r].tried = @ \cup {i},
                                    ![r].inserted = IF logs[op] = NoLog THEN @ \cup {i} ELSE @]
              /\ keys' = IF logs[op] = NoLog THEN [keys EXCEPT ![op] = r] ELSE keys
              /\ UNCHANGED pc
  /\ UNCHANGED <<tables, facts, locks, input, received, answer>>

\* Mutated form: a wait on the unique index never times out.
BlockedOnLock(r) == pc[r] = "lock" /\ Wanted(r) # {} /\ locks[NextLock(r)] # Free

Blocked(r) ==
  \/ pc[r] = "lock" /\ Wanted(r) # {} /\ locks[NextLock(r)] # Free
  \/ /\ pc[r] = "insert" /\ txn[r].tried # txn[r].fresh
     /\ keys[input[r].items[NextRow(r)].op] # Free

\* LockNotAvailable or DeadlockDetected: rollback, 503 service_busy.
Timeout(r) ==
  /\ LockTimeouts
  /\ Blocked(r)
  /\ End(r, "busy", << >>)
  /\ UNCHANGED tables

\* The process, or its connection, dies: rollback, no answer.
Crash(r) ==
  /\ scenario.crashes
  /\ pc[r] \notin {"idle", "done"}
  /\ End(r, "lost", << >>)
  /\ UNCHANGED tables

-----------------------------------------------------------------------------
(* What a commit writes. *)

WriteLogs(r) ==
  logs' = [o \in Operations |->
             IF \E i \in txn[r].inserted : input[r].items[i].op = o
             THEN Row(r, CHOOSE i \in txn[r].inserted : input[r].items[i].op = o)
             ELSE logs[o]]

\* apply_resolution, or the bulk upserts of sync_batch.
WriteConsumptions(r) ==
  consumptions' =
    [g \in Groups |-> [i \in Slots |->
       IF g \in Resolved(r) /\ HolderAt(Competitors(r, g), Uses(r, g), i) # NoOp
       THEN HolderAt(Competitors(r, g), Uses(r, g), i)
       ELSE consumptions[g][i]]]

SpecsOf(r, o) ==
  UNION {{ConflictSpec(c, Competitors(r, g), Uses(r, g)) :
            c \in {d \in Disputed(Competitors(r, g), Uses(r, g)) : d.op = o}} :
         g \in Resolved(r)}

RefusalsOf(r, o) ==
  {[winner |-> NoOp, type |-> txn[r].verdict[i].conflict, clock |-> Clock(r, i).suspect] :
     i \in {j \in txn[r].inserted : input[r].items[j].op = o /\ Kind(r, j) = "refused"}}

\* Mutated form: only the rows of this transaction get a conflict.
WriteConflictsOfOwnRows(r) ==
  conflicts' = [o \in Operations |->
                  IF /\ \E i \in txn[r].inserted : input[r].items[i].op = o
                     /\ SpecsOf(r, o) \cup RefusalsOf(r, o) # {}
                  THEN CHOOSE c \in SpecsOf(r, o) \cup RefusalsOf(r, o) : TRUE
                  ELSE conflicts[o]]

WriteConflicts(r) ==
  conflicts' = [o \in Operations |->
                  IF SpecsOf(r, o) \cup RefusalsOf(r, o) # {}
                  THEN CHOOSE c \in SpecsOf(r, o) \cup RefusalsOf(r, o) : TRUE
                  ELSE conflicts[o]]

\* Mutated form: an online scan does not look at what was inserted.
OvertakenBatch(r) ==
  \E i \in txn[r].fresh \ txn[r].inserted : input[r].kind = "sync" /\ Claims(r, i)

\* A row was skipped by the insertion although it claims, or is an online scan:
\* the transaction is rolled back.
Overtaken(r) ==
  \E i \in txn[r].fresh \ txn[r].inserted : input[r].kind = "online" \/ Claims(r, i)

Commit(r) ==
  /\ pc[r] = "commit"
  /\ ~Overtaken(r)
  /\ WriteLogs(r)
  /\ WriteConsumptions(r)
  /\ WriteConflicts(r)
  /\ UNCHANGED acknowledged
  /\ End(r, "ok", BatchResults(r))

\* online_scan answers as for a replay (_Concurrent); sync_batch asks for a retry.
Rollback(r) ==
  /\ pc[r] = "commit"
  /\ Overtaken(r)
  /\ IF input[r].kind = "online" THEN End(r, "ok", <<Replay(r, 1)>>) ELSE End(r, "busy", << >>)
  /\ UNCHANGED tables

-----------------------------------------------------------------------------
(* The organizers and the supervisor. *)

Acknowledge(o) ==
  /\ conflicts[o] # NoConflict
  /\ acknowledged' = acknowledged \cup {o}
  /\ UNCHANGED <<logs, consumptions, conflicts, facts, locks, keys, pc, input, received, txn, answer>>

\* The access flag of a station is switched off, or on again.
ToggleStation(g) ==
  /\ rules' = [rules EXCEPT ![g] = IF @ = 0 THEN MaxUses[g] ELSE 0]
  /\ UNCHANGED <<tickets, now>>

VoidTicket(t) ==
  /\ tickets[t] # {}
  /\ tickets' = [tickets EXCEPT ![t] =
                   {[f EXCEPT !.status = "void", !.voided_at = now] :
                      f \in {row \in @ : row.status = "valid"}}
                   \cup {row \in @ : row.status # "valid"}]
  /\ UNCHANGED <<rules, now>>

\* An order is settled: its ticket appears.
MintTicket(t) ==
  /\ tickets[t] = {}
  /\ tickets' = [tickets EXCEPT ![t] = {[event |-> Event, status |-> "valid", voided_at |-> NoTime]}]
  /\ UNCHANGED <<rules, now>>

Edit ==
  /\ edits < scenario.edits
  /\ edits' = edits + 1
  /\ \/ \E g \in Tickets \X Stations : ToggleStation(g)
     \/ \E t \in Tickets : VoidTicket(t) \/ MintTicket(t)
  /\ UNCHANGED <<tables, scenario, locks, keys, pc, input, received, txn, answer>>

Tick ==
  /\ now < MaxNow
  /\ now' = now + 1
  /\ UNCHANGED <<tables, tickets, rules, scenario, edits, locks, keys, pc, input, received, txn, answer>>

Step(r) ==
  \/ ReplayLookup(r) \/ LoadReference(r) \/ Lock(r) \/ ReadJournal(r) \/ InsertRow(r)
  \/ Timeout(r) \/ Commit(r) \/ Rollback(r)

Next ==
  \/ \E r \in Requests : Submit(r) \/ Step(r) \/ Crash(r)
  \/ \E o \in Operations : Acknowledge(o)
  \/ Edit
  \/ Tick

Spec == Init /\ [][Next]_vars

\* A request that was received is run by its thread until it is answered.
FairSpec == Spec /\ \A r \in Requests : WF_vars(Step(r))
-----------------------------------------------------------------------------
(* Properties. *)

LogRow ==
  [hash : [kind : {"online", "sync"}, terminal : Terminals, station : Stations,
           evaluated : Int, reported : {"valid", "other"}, ticket : Tickets \cup {NoTicket}],
   group : Groups, terminal : Terminals, at : Int, suspect : BOOLEAN,
   kind : {"claim", "refused", "evidence"},
   verdict : {"none", "LATE_REVOKED", "NOT_AUTHORIZED_SERVER_SIDE"},
   decision : {"valid", "already_scanned", "not_authorized", "invalid", "expired",
               "unknown", "wrong_event", "revoked"}]

\* The three tables, the locks and index entries, and where each request is.
TypeOK ==
  /\ logs \in [Operations -> LogRow \cup {NoLog}]
  /\ consumptions \in [Groups -> [Slots -> Operations \cup {NoOp}]]
  /\ rules \in [Groups -> Nat] /\ now \in 0 .. MaxNow
  /\ locks \in [Groups -> Requests \cup {Free}]
  /\ keys \in [Operations -> Requests \cup {Free}]
  /\ pc \in [Requests -> {"idle", "replay", "load", "lock", "read", "insert", "commit", "done"}]
  /\ \A r \in Requests : input[r] # NoInput => InputType(input[r])
  /\ \A r \in Requests : answer[r].status \in {"none", "ok", "busy", "lost"}

\* The tables as the ledger sees them: what was hashed and answered is its own business.
LedgerLogs ==
  [o \in Operations |->
     IF logs[o] = NoLog THEN NoLog
     ELSE [group |-> logs[o].group, terminal |-> logs[o].terminal, at |-> logs[o].at,
           suspect |-> logs[o].suspect, kind |-> logs[o].kind, verdict |-> logs[o].verdict]]

Ledger == INSTANCE CheckinLedger WITH
            logs <- LedgerLogs, Times <- Int, MaxBatch <- Cardinality(Operations)

\* No row is none.
ASSUME TableAssumption ==
  NoLog \notin LogRow /\ NoLog \notin Ledger!Entry /\ NoConflict \notin Ledger!Conflict

\* The rows that a step makes visible: the witness of Ledger!Next.
JustJournaled ==
  [o \in {p \in Operations : logs[p] = NoLog /\ logs'[p] # NoLog} |-> LedgerLogs'[o]]

\* Every handler step is one ledger step or none: whatever the interleaving of
\* locks, reads, timeouts and crashes, committed transactions leave the tables as if
\* they had run one after the other, each ranking all the claims before it.
ImplementsLedger ==
  /\ Ledger!Init
  /\ [][\/ Ledger!Record(JustJournaled)
        \/ \E o \in Operations : Ledger!Acknowledge(o)]_(Ledger!vars)

\* What a device was told: a pair of a request and an index.
Told ==
  UNION {{<<r, i>> : i \in DOMAIN answer[r].results} :
           r \in {q \in Requests : answer[q].status = "ok"}}

ResultOf(a) == answer[a[1]].results[a[2]]
ItemOf(a)   == input[a[1]].items[a[2]]
HashOf(a)   == Hash(input[a[1]], a[2])

\* The answers that say "somebody is in": an online scan answered valid, or an
\* offline admission accepted.
Admissions ==
  {a \in Told : /\ ResultOf(a) = Result("accepted", "valid")
               /\ \/ input[a[1]].kind = "online"
                  \/ ItemOf(a).reported = "valid"}

\* Whoever was told that somebody is in can find that scan in the journal as a claim,
\* and the scan either holds a slot now or has a conflict that says it lost it.
AdmissionsAreAccountedFor ==
  \A a \in Admissions :
    LET o == ItemOf(a).op
    IN  /\ logs[o] # NoLog /\ logs[o].hash = HashOf(a) /\ logs[o].kind = "claim"
        /\ Ledger!HoldsSlot(o) <=> ~Ledger!LostOrRefused(o)

\* What was answered and what was written agree, in tables that keep their shape.
ServiceIsSound == TypeOK /\ AdmissionsAreAccountedFor

\* The answers that present operation o, with the content that was journaled, as new; and
\* those among them that are given to a claim: it holds a slot, or came too late for one.
FirstAnswers(o) ==
  {a \in Told : /\ ItemOf(a).op = o /\ HashOf(a) = logs[o].hash
               /\ ResultOf(a).status \in {"accepted", "conflict"}}
ClaimAnswers(o) == {a \in FirstAnswers(o) : ResultOf(a).decision \in {"valid", "already_scanned"}}

\* A claim is presented as new once: a request that is sent again, even while the
\* first one still runs, learns that it was already processed.
ClaimsAreAnsweredOnce ==
  \A o \in Operations :
    logs[o] # NoLog /\ logs[o].kind = "claim" => Cardinality(ClaimAnswers(o)) <= 1

\* Not kept, and checked by no run (TLC refutes it when CheckinServiceRace.cfg lists it).
\* sync_batch looks up a row that a concurrent copy of the batch inserted first, in order to
\* answer already_processed (sync_service.py:306), and then answers it as new: a copy that
\* read the ticket before it existed answers "conflict, unknown" for a claim.
ClaimsAreNeverRefusedAsNew ==
  \A o \in Operations :
    logs[o] # NoLog /\ logs[o].kind = "claim" => Cardinality(FirstAnswers(o)) <= 1

WaitsForLock(r, q) ==
  pc[r] = "lock" /\ Wanted(r) # {} /\ locks[NextLock(r)] = q

\* Advisory locks never deadlock: no two requests wait for a lock of each other, in
\* whatever order their batches name the tickets (lock_groups sorts the keys).
LockWaitsAreNotCircular ==
  \A r, q \in Requests : ~(WaitsForLock(r, q) /\ WaitsForLock(q, r))

\* Every request ends, with an answer or with its process.
EveryRequestIsAnswered ==
  \A r \in Requests : pc[r] # "idle" ~> pc[r] = "done"

\* The test test_concurrent_scans_of_the_same_ticket_admit_exactly_one: online scans
\* of one ticket at one station, even when each reads the clock at an instant of its
\* own, are answered valid at most max_uses times.
OnlineAdmitsAtMostMaxUses ==
  \A g \in Groups :
    LET admitted == {a \in Admissions : /\ input[a[1]].kind = "online"
                                       /\ GroupOf(input[a[1]], a[2]) = g}
    IN  Cardinality({received[a[1]] : a \in admitted}) <= MaxUses[g]
=============================================================================
