--------------------------- MODULE MCCheckinService ---------------------------
(***************************************************************************)
(* TLC instances of CheckinService.  Tickets a and b belong to the event   *)
(* and are valid, u is not in the database, x belongs to another event.    *)
(***************************************************************************)
EXTENDS CheckinService, TLC

CONSTANTS a, b, u, x, t1, t2

E == "EVENT_ENTRY"

MCMaxUses == [g \in Groups |-> IF g[1] = NoTicket THEN 0 ELSE 1]

MCTickets ==
  [t \in Tickets |->
     CASE t = u -> {}
       [] t = x -> {[event |-> "other", status |-> "valid", voided_at |-> NoTime]}
       [] OTHER -> {[event |-> Event, status |-> "valid", voided_at |-> NoTime]}]

\* Text order of "ticket:station" keys: by ticket.
MCLockOrder ==
  [g \in Groups |-> CASE g[1] = a -> 1 [] g[1] = b -> 2 [] g[1] = u -> 3
                     [] g[1] = x -> 4 [] OTHER -> 5]

\* Scans.
Admit(op, ticket, at) ==
  [op |-> op, ticket |-> ticket, station |-> E, evaluated |-> at, reported |-> "valid",
   capability |-> "none"]
Refuse(op, ticket, at) == [Admit(op, ticket, at) EXCEPT !.reported = "other"]
QR(op, ticket) == [Admit(op, ticket, 0) EXCEPT !.reported = "other", !.capability = "true"]

Online(terminal, scan) ==
  [kind |-> "online", terminal |-> terminal, delay |-> 0, items |-> <<scan>>]
Batch(terminal, delay, scans) ==
  [kind |-> "sync", terminal |-> terminal, delay |-> delay, items |-> scans]

\* One ticket, fought for online and offline; one offline scan is older, one has an
\* unreliable clock, one is sent twice in its batch.
RaceInputs ==
  {Online(t1, QR(1, a)), Online(t2, QR(2, a)),
   Batch(t2, 0, <<Admit(3, a, -1), Admit(3, a, -1)>>),
   Batch(t2, 0, <<Refuse(2, a, 0), Admit(3, a, -1)>>),
   Batch(t1, 3, <<Admit(1, a, -1)>>)}

\* The same ticket at two doors, both online.
OnlineInputs == {Online(t1, QR(1, a)), Online(t2, QR(2, a))}

\* Two tickets in both orders, so that advisory locks are wanted in both orders;
\* scans without a row in tickets, which take no advisory lock, so that two batches
\* can only wait for each other on the unique index.
LockInputs ==
  {Batch(t1, 0, <<Admit(1, a, 0), Admit(2, b, 0)>>),
   Batch(t2, 0, <<Admit(4, b, 0), Admit(3, a, 0)>>),
   Batch(t1, 0, <<Refuse(2, NoTicket, 0), Admit(4, u, 0)>>),
   Batch(t2, 0, <<Admit(4, u, 0), Refuse(2, NoTicket, 0)>>)}

\* Scans whose eligibility can change while they are on their way.
EditInputs ==
  {Online(t1, QR(1, a)), Online(t1, [QR(1, a) EXCEPT !.capability = "expired"]),
   Batch(t2, 1, <<Admit(2, a, 0), Refuse(3, u, 0)>>),
   Batch(t1, 0, <<Admit(3, u, 0)>>),
   Batch(t1, 0, <<[Admit(4, x, 0) EXCEPT !.station = "unknown"], Admit(4, a, -2),
                  [Admit(2, a, 0) EXCEPT !.capability = "false"]>>)}

Quiet(requests, inputs) ==
  [requests |-> requests, inputs |-> inputs, crashes |-> FALSE, edits |-> 0]

\* Three requests race over what organizers left alone, and may die; two, while they edit.
RaceScenarios ==
  {[Quiet(3, RaceInputs) EXCEPT !.crashes = TRUE], [Quiet(2, EditInputs) EXCEPT !.edits = 2]}
OnlineScenarios == {Quiet(2, OnlineInputs)}
LockScenarios == {Quiet(3, LockInputs)}

Symmetry == Permutations(Requests)
=============================================================================
