------------------------------- MODULE Scanner -------------------------------
(***************************************************************************)
(* The offline gate scanner of the web application: the IndexedDB database *)
(* of one device (lib/scan-store.ts), the decision about a presented       *)
(* ticket (lib/scan-decision.ts) and the verification of its token         *)
(* (lib/capability.ts).  Several tabs of the device share the database.    *)
(* The scan engine that calls these functions and the server that receives *)
(* the batches are not in the repository's web application: LoadBundle,    *)
(* Deliver, OtherGateAdmits and Revoke stand for them.                     *)
(***************************************************************************)
EXTENDS Integers, FiniteSets

CONSTANTS
  Events, Doors,                \* all events; those this device is scanning for
  Tickets, EventOf,             \* the event of each ticket
  NoTicket, NoBundle, BrokenKey,
  Elsewhere, Nobody,            \* winners of a ticket other than a row of this device
  Ids,                          \* primary keys: random, so in no relation to time
  Tabs,
  Presented,                    \* the tokens that are held to a camera
  Keys,                         \* key id -> public key, as bundles pin them
  LegacyQueues,                 \* what a version 1 database may hold
  Flags,                        \* values of ticket_index_present that servers send
  MaxTime,                      \* bound on clocks
  MaxBatches, MaxFacts          \* bounds: uploads, and changes on the server

ASSUME ScannerAssumption ==
  /\ Doors \subseteq Events
  /\ Ids \subseteq Nat /\ IsFiniteSet(Ids) /\ IsFiniteSet(Tabs)
  /\ EventOf \in [Tickets -> Events] /\ NoTicket \notin Tickets
  /\ Elsewhere # Nobody /\ {Elsewhere, Nobody} \cap Ids = {}
  /\ MaxTime \in Nat /\ MaxBatches \in Nat /\ MaxFacts \in Nat /\ Flags \subseteq BOOLEAN

Times == 1 .. MaxTime
Unparsable == 0                 \* Date.parse(scanned_at) is NaN, in legacy rows
Unsequenced == 0                \* a row of version 1 has no seq
CurrentVersion == 1
Results == {"admitted", "duplicate", "invalid", "wrong_event"}

\* asof, indexed: history, the issue of the bundle the verdict was based on.
Row == [event : Events, ticket : Tickets \cup {NoTicket}, result : Results,
        at : 0 .. MaxTime, seq : Nat, synced : BOOLEAN, asof : Nat, indexed : BOOLEAN]

IsQueue(q) == q \in [DOMAIN q -> Row] /\ DOMAIN q \subseteq Ids

\* Version 1 admitted the tickets of the event it scanned for, too.
ASSUME LegacyAssumption ==
  \A q \in LegacyQueues :
    /\ IsQueue(q)
    /\ \A i \in DOMAIN q : q[i].result = "admitted" =>
         q[i].ticket \in Tickets /\ EventOf[q[i].ticket] = q[i].event

\* uuid() never repeats an id, not even one that was deleted.
LegacyIds == UNION {DOMAIN q : q \in LegacyQueues}

Bundle == [present : BOOLEAN, index : SUBSET Tickets, admitted : SUBSET Tickets, issued : Nat]

VARIABLES
  version,   \* version of the device's database
  rows,      \* object store "admissions": id -> row
  bundles,   \* object store "bundles": event -> bundle
  gate,      \* what the engine of a tab holds in memory: [event, bundle]
  scan,      \* the scan a tab is deciding or recording
  wire,      \* batches that were sent: they arrive late, or more than once
  server,    \* applied ids; winner, and instants of admission and revocation, per ticket
  born       \* history: the order in which rows were recorded, 0 for legacy rows

vars == <<version, rows, bundles, gate, scan, wire, server, born>>

-----------------------------------------------------------------------------
\* Tokens.  A token has a form, the key id it names, the key that signed it and
\* the fields of its payload; 0 is an absent nbf or exp.

Unreadable(tok) == tok.form \in {"bad_segments", "no_object", "kid_not_text"}

ValidPayloadShape(tok) == tok.form # "unknown_or_ill_typed_field"

VerifyCapability(tok, key, now) ==
  IF key = BrokenKey \/ tok.form = "bad_signature_length" THEN "malformed"
  ELSE IF tok.signer # key THEN "bad_signature"
  ELSE IF ~ValidPayloadShape(tok) THEN "malformed"
  ELSE IF tok.v # CurrentVersion THEN "unsupported_version"
  ELSE IF tok.nbf # 0 /\ now < tok.nbf THEN "not_yet_valid"
  ELSE IF tok.exp # 0 /\ now >= tok.exp THEN "expired"
  ELSE "verified"

VerifyWithRing(tok, ring, now) ==
  IF Unreadable(tok) THEN "malformed"
  ELSE IF tok.kid \notin DOMAIN ring THEN "unknown_kid"
  ELSE VerifyCapability(tok, ring[tok.kid], now)

\* Issuers sign the ids of tickets, for the event of the ticket.
ASSUME IssuersSignTickets ==
  \A tok \in Presented, now \in Times :
    VerifyWithRing(tok, Keys, now) = "verified" =>
      tok.tid \in Tickets /\ EventOf[tok.tid] = tok.eid

-----------------------------------------------------------------------------
\* The order of the checks of decideAdmission; "ask" leaves the answer to the
\* look-up in the local database.

Verdict(result, ticket) == [result |-> result, ticket |-> ticket]

ExamineOfIndex(tok, event, bundle, now) ==        \* mutated form: an empty index is none
  IF VerifyWithRing(tok, Keys, now) # "verified" THEN Verdict("invalid", NoTicket)
  ELSE IF tok.eid # event THEN Verdict("wrong_event", tok.tid)
  ELSE IF bundle.index # {} /\ tok.tid \notin bundle.index THEN Verdict("invalid", NoTicket)
  ELSE IF tok.tid \in bundle.admitted THEN Verdict("duplicate", tok.tid)
  ELSE Verdict("ask", tok.tid)

Examine(tok, event, bundle, now) ==
  IF VerifyWithRing(tok, Keys, now) # "verified" THEN Verdict("invalid", NoTicket)
  ELSE IF tok.eid # event THEN Verdict("wrong_event", tok.tid)
  ELSE IF bundle.present /\ tok.tid \notin bundle.index THEN Verdict("invalid", NoTicket)
  ELSE IF tok.tid \in bundle.admitted THEN Verdict("duplicate", tok.tid)
  ELSE Verdict("ask", tok.tid)

WasSynced(event, ticket) ==                       \* mutated form: what the server has
  \E i \in DOMAIN rows : /\ rows[i].event = event
                         /\ rows[i].ticket = ticket
                         /\ rows[i].result = "admitted" /\ rows[i].synced

WasAdmitted(event, ticket) ==
  \E i \in DOMAIN rows : /\ rows[i].event = event
                         /\ rows[i].ticket = ticket
                         /\ rows[i].result = "admitted"

-----------------------------------------------------------------------------
\* Orders on stored rows.  An unparsable clock sorts last; ids break ties.

LegacyBefore(q, i, j) ==
  \/ q[i].at # Unparsable /\ q[j].at = Unparsable
  \/ q[i].at # Unparsable /\ q[j].at # Unparsable /\ q[i].at < q[j].at
  \/ q[i].at = q[j].at /\ i < j

\* The position of a row in an upload: orderForUpload.
PrecedesByClock(q, i, j) ==                       \* mutated form: the clock, not the number
  q[i].at < q[j].at \/ (q[i].at = q[j].at /\ i < j)

Precedes(q, i, j) ==
  \/ q[i].seq = Unsequenced /\ q[j].seq = Unsequenced /\ LegacyBefore(q, i, j)
  \/ q[i].seq = Unsequenced /\ q[j].seq # Unsequenced
  \/ q[i].seq # Unsequenced /\ q[j].seq # Unsequenced /\ q[i].seq < q[j].seq
  \/ q[i].seq # Unsequenced /\ q[i].seq = q[j].seq /\ i < j

\* One more than the highest number in the index by_seq.

IsNextSeq(s) ==
  /\ \A i \in DOMAIN rows : rows[i].seq < s
  /\ s = 1 \/ \E i \in DOMAIN rows : rows[i].seq + 1 = s

-----------------------------------------------------------------------------
Idle == [pc |-> "idle", event |-> NoTicket, ticket |-> NoTicket, result |-> "none",
         asof |-> 0, indexed |-> FALSE]

\* The server knows what version 1 had sent.
SyncedAdmissions(k) ==
  {i \in DOMAIN rows : rows[i].ticket = k /\ rows[i].result = "admitted" /\ rows[i].synced}

Init ==
  /\ version = 1
  /\ rows \in LegacyQueues
  /\ bundles = [e \in Events |-> NoBundle]
  /\ gate = [t \in Tabs |-> NoBundle]
  /\ scan = [t \in Tabs |-> Idle]
  /\ wire = {}
  /\ \E winner \in [Tickets -> Ids \cup {Elsewhere, Nobody}] :
       /\ \A k \in Tickets : IF SyncedAdmissions(k) = {} THEN winner[k] = Nobody
                              ELSE winner[k] \in SyncedAdmissions(k) \cup {Elsewhere}
       /\ server = [applied |-> {i \in DOMAIN rows : rows[i].synced}, winner |-> winner, now |-> 0,
                    admitted |-> [k \in Tickets |-> 0], revoked |-> [k \in Tickets |-> 0]]
  /\ born = [i \in Ids |-> 0]

\* The first open of the new code migrates the queue in one versionchange transaction.
Upgrade ==
  /\ version = 1
  /\ version' = 2
  /\ rows' = [i \in DOMAIN rows |->
       [rows[i] EXCEPT !.seq =
          1 + Cardinality({j \in DOMAIN rows : LegacyBefore(rows, j, i)})]]
  /\ UNCHANGED <<bundles, gate, scan, wire, server, born>>

\* A bundle as the server builds it now, fetched and cached.
SaveBundle(e) ==
  /\ version = 2
  /\ \E flag \in Flags :
       bundles' = [bundles EXCEPT ![e] =
         [present |-> flag,
          index |-> {k \in Tickets : EventOf[k] = e /\ flag /\ server.revoked[k] = 0},
          admitted |-> {k \in Tickets : EventOf[k] = e /\ server.winner[k] # Nobody},
          issued |-> server.now]]
  /\ UNCHANGED <<version, rows, gate, scan, wire, server, born>>

\* The engine of a tab reads the cached bundle and keeps it in memory.
LoadBundle(t, e) ==
  /\ version = 2
  /\ scan[t] = Idle
  /\ bundles[e] # NoBundle
  /\ gate' = [gate EXCEPT ![t] = [event |-> e, bundle |-> bundles[e]]]
  /\ UNCHANGED <<version, rows, bundles, scan, wire, server, born>>

\* deleteBundle: the bundle and every row of the event, sent or not.
DeleteBundle(e) ==
  /\ version = 2
  /\ bundles' = [bundles EXCEPT ![e] = NoBundle]
  /\ rows' = [i \in {j \in DOMAIN rows : rows[j].event # e} |-> rows[i]]
  /\ UNCHANGED <<version, gate, scan, wire, server, born>>

\* A ticket is presented: everything decideAdmission does before its await.
Present(t, tok, now) ==
  /\ scan[t] = Idle
  /\ gate[t] # NoBundle
  /\ LET verdict == Examine(tok, gate[t].event, gate[t].bundle, now)
     IN scan' = [scan EXCEPT ![t] =
          [pc |-> IF verdict.result = "ask" THEN "lookup" ELSE "record",
           event |-> gate[t].event, ticket |-> verdict.ticket, result |-> verdict.result,
           asof |-> gate[t].bundle.issued, indexed |-> gate[t].bundle.present]]
  /\ UNCHANGED <<version, rows, bundles, gate, wire, server, born>>

\* wasAdmitted answers, from a transaction of its own.
LookUp(t) ==
  /\ scan[t].pc = "lookup"
  /\ scan' = [scan EXCEPT ![t].pc = "record",
                          ![t].result = IF WasAdmitted(scan[t].event, scan[t].ticket)
                                          THEN "duplicate" ELSE "admitted"]
  /\ UNCHANGED <<version, rows, bundles, gate, wire, server, born>>

\* wasAdmitted rejects: the store is gone or full, and the ticket is refused.
LookUpFails(t) ==
  /\ scan[t].pc = "lookup"
  /\ scan' = [scan EXCEPT ![t].pc = "record", ![t].result = "invalid", ![t].ticket = NoTicket]
  /\ UNCHANGED <<version, rows, bundles, gate, wire, server, born>>

\* recordScan: the number and the row in one readwrite transaction.
RecordScan(t, i, s, at) ==
  /\ scan[t].pc = "record"
  /\ i \notin LegacyIds /\ born[i] = 0
  /\ IsNextSeq(s)
  /\ rows' = [j \in DOMAIN rows \cup {i} |->
       IF j # i THEN rows[j]
       ELSE [event |-> scan[t].event, ticket |-> scan[t].ticket, result |-> scan[t].result,
             at |-> at, seq |-> s, synced |-> FALSE,
             asof |-> scan[t].asof, indexed |-> scan[t].indexed]]
  /\ born' = [born EXCEPT ![i] = 1 + Cardinality({j \in Ids : born[j] # 0})]
  /\ scan' = [scan EXCEPT ![t] = Idle]
  /\ UNCHANGED <<version, bundles, gate, wire, server>>

\* The transaction of recordScan aborts, or the tab is closed: nothing is written.
CloseTab(t) ==
  /\ scan[t] # Idle
  /\ scan' = [scan EXCEPT ![t] = Idle]
  /\ gate' = [gate EXCEPT ![t] = NoBundle]
  /\ UNCHANGED <<version, rows, bundles, wire, server, born>>

\* getPendingSync: the rows of the event that are not synced, and their upload.
PendingOf(e) == {i \in DOMAIN rows : rows[i].event = e /\ ~rows[i].synced}

SendBatch(e) ==
  /\ version = 2
  /\ Cardinality(wire) < MaxBatches
  /\ PendingOf(e) # {}
  /\ wire' = wire \cup {[claims |-> [i \in PendingOf(e) |-> rows[i]], delivered |-> FALSE]}
  /\ UNCHANGED <<version, rows, bundles, gate, scan, server, born>>

MarkEventSynced(b) ==                             \* mutated form: every row of the events
  /\ b.delivered
  /\ rows' = [i \in DOMAIN rows |->
       IF \E j \in DOMAIN b.claims : b.claims[j].event = rows[i].event
         THEN [rows[i] EXCEPT !.synced = TRUE] ELSE rows[i]]
  /\ UNCHANGED <<version, bundles, gate, scan, wire, server, born>>

\* markSynced with the ids of a batch that was answered; deleted rows are skipped.
MarkSynced(b) ==
  /\ b.delivered
  /\ rows' = [i \in DOMAIN rows |->
       IF i \in DOMAIN b.claims THEN [rows[i] EXCEPT !.synced = TRUE] ELSE rows[i]]
  /\ UNCHANGED <<version, bundles, gate, scan, wire, server, born>>

\* The server applies a batch in array order: the first claim of a ticket that has
\* no winner wins.
Claims(b, k) == {i \in DOMAIN b.claims : b.claims[i].ticket = k /\ b.claims[i].result = "admitted"}
First(b, k) == {i \in Claims(b, k) : \A j \in Claims(b, k) \ {i} : Precedes(b.claims, i, j)}

Deliver(b) ==
  /\ ~b.delivered
  /\ wire' = (wire \ {b}) \cup {[b EXCEPT !.delivered = TRUE]}
  /\ \E winner \in [Tickets -> Ids \cup {Elsewhere, Nobody}] :
       /\ \A k \in Tickets : IF server.winner[k] # Nobody \/ Claims(b, k) = {}
                               THEN winner[k] = server.winner[k]
                               ELSE winner[k] \in First(b, k)
       /\ server' = [server EXCEPT
            !.applied = @ \cup DOMAIN b.claims,
            !.winner = winner,
            !.now = IF winner = server.winner THEN @ ELSE @ + 1,
            !.admitted = [k \in Tickets |-> IF winner[k] = server.winner[k] THEN @[k]
                                              ELSE server.now + 1]]
  /\ UNCHANGED <<version, rows, bundles, gate, scan, born>>

\* Another gate's admission reaches the server first; an organizer refunds a ticket.
OtherGateAdmits(k) ==
  /\ server.now < MaxFacts
  /\ server.winner[k] = Nobody
  /\ server' = [server EXCEPT !.winner[k] = Elsewhere, !.now = @ + 1, !.admitted[k] = server.now + 1]
  /\ UNCHANGED <<version, rows, bundles, gate, scan, wire, born>>

Revoke(k) ==
  /\ server.now < MaxFacts
  /\ server.revoked[k] = 0
  /\ server' = [server EXCEPT !.revoked[k] = server.now + 1, !.now = @ + 1]
  /\ UNCHANGED <<version, rows, bundles, gate, scan, wire, born>>

Next ==
  \/ Upgrade
  \/ \E e \in Doors : SaveBundle(e) \/ \E t \in Tabs : LoadBundle(t, e)
  \/ \E e \in Events : DeleteBundle(e) \/ SendBatch(e)
  \/ \E t \in Tabs, tok \in Presented, now \in Times : Present(t, tok, now)
  \/ \E t \in Tabs : LookUp(t) \/ LookUpFails(t) \/ CloseTab(t)
  \/ \E t \in Tabs, i \in Ids, s \in 1 .. Cardinality(Ids), at \in Times : RecordScan(t, i, s, at)
  \/ \E b \in wire : Deliver(b) \/ MarkSynced(b)
  \/ \E k \in Tickets : OtherGateAdmits(k) \/ Revoke(k)

Spec == Init /\ [][Next]_vars

-----------------------------------------------------------------------------
\* The database, the gates and the messages keep their types.
TypeOK ==
  /\ version \in {1, 2}
  /\ IsQueue(rows)
  /\ bundles \in [Events -> Bundle \cup {NoBundle}]
  /\ born \in [Ids -> Nat]
  /\ \A t \in Tabs : scan[t].pc \in {"idle", "lookup", "record"}
  /\ \A b \in wire : IsQueue(b.claims) /\ b.delivered \in BOOLEAN

\* Sequence numbers of a migrated database (upgrade, nextSeq) follow the order in
\* which the rows were recorded, whatever the clocks and the primary keys say, and
\* legacy rows come before them all: two rows never share a number.
SeqFollowsRecording ==
  version = 2 =>
    \A i, j \in DOMAIN rows :
      /\ rows[i].seq # Unsequenced
      /\ i # j => rows[i].seq # rows[j].seq
      /\ born[i] < born[j] => rows[i].seq < rows[j].seq

\* An upload lists the scans of its event oldest first (getPendingSync), even when the
\* device's clock went back between them.
UploadsFollowRecording ==
  \A b \in wire : \A i, j \in DOMAIN b.claims :
    born[i] < born[j] => Precedes(b.claims, i, j) /\ ~Precedes(b.claims, j, i)

\* The winner of a ticket that this device contests is the first of its scans that are
\* still stored: batches that overlap, repeat or overtake each other do not change it.
FirstScanWins ==
  \A k \in Tickets : \A i, j \in DOMAIN rows :
    /\ server.winner[k] = j
    /\ rows[i].ticket = k /\ rows[i].result = "admitted" /\ rows[j].ticket = k
    => ~(born[i] < born[j])

\* A scan is marked as sent (markSynced) only when the server has it.
SyncedScansReachedTheServer ==
  \A i \in DOMAIN rows : rows[i].synced => i \in server.applied

\* What wasAdmitted reads may be old when recordScan writes: a ticket is admitted twice
\* by one device, but never more often, scans about to be recorded included, than the
\* device has tabs.
AdmittedBy(e, k) ==
  {i \in DOMAIN rows : rows[i].event = e /\ rows[i].ticket = k
                       /\ rows[i].result = "admitted" /\ born[i] # 0}

Admitting(e, k) ==
  {t \in Tabs : scan[t].pc = "record" /\ scan[t].event = e /\ scan[t].ticket = k
                /\ scan[t].result = "admitted"}

AdmissionsPerTab ==
  \A e \in Events, k \in Tickets :
    Cardinality(AdmittedBy(e, k)) + Cardinality(Admitting(e, k)) <= Cardinality(Tabs)

\* An admission contradicts the server (another gate admitted the ticket, or it was
\* revoked) only if the bundle it was decided on is older than that fact; an empty
\* authoritative index admits nobody (decideAdmission).
AdmissionsAreAsFreshAsTheirBundle ==
  \A i \in DOMAIN rows :
    rows[i].result = "admitted" /\ born[i] # 0 =>
      LET k == rows[i].ticket
      IN /\ server.admitted[k] = 0 \/ server.admitted[k] > rows[i].asof
         /\ rows[i].indexed => server.revoked[k] = 0 \/ server.revoked[k] > rows[i].asof

\* Only ids that a key of the bundle signed are recorded (decideAdmission: a refused
\* token leaves no ticket id in the log).
Signed == {tok.tid : tok \in {p \in Presented : p.kid \in DOMAIN Keys /\ p.signer = Keys[p.kid]}}
RecordedTicketsWereSigned ==
  \A i \in DOMAIN rows : born[i] # 0 => rows[i].ticket \in Signed \cup {NoTicket}

\* The migration keeps every queued scan as it is: it only adds numbers, in the order of
\* the clock where it can be read, and no later step renumbers a scan.
ScansAreNotRewritten ==
  [][\A i \in DOMAIN rows \cap DOMAIN rows' :
       /\ [rows[i] EXCEPT !.seq = 0, !.synced = FALSE] = [rows'[i] EXCEPT !.seq = 0, !.synced = FALSE]
       /\ rows[i].synced => rows'[i].synced
       /\ rows[i].seq # rows'[i].seq => version = 1
       /\ version' # version => DOMAIN rows \subseteq DOMAIN rows'
       /\ version' # version => \A j \in DOMAIN rows :
            /\ rows[i].at # Unparsable
            /\ rows[j].at = Unparsable \/ rows[i].at < rows[j].at
            => rows'[i].seq < rows'[j].seq]_vars
=============================================================================
