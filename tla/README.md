# A verification project for Chantier-3A

Chantier-3A sells tickets for an event and checks people in at its stations. The
server (`backend/`, Python, PostgreSQL) holds the orders, the tickets and the
check-in journal; the web application (`frontend-web/`, React) is the shop, the
administration, and an offline scanner that uploads later what it scanned.

This directory holds TLA+ modules translated from that source, TLC
configurations that check them on small instances, and theorems about them that
TLAPS checks for every value of the constants.

## 1. Inventory

| Component | State | Operations | Interacts with |
|---|---|---|---|
| Check-in rules (`checkin/domain.py`) | none | `check_eligibility`, `correct_clock`, `resolve`, `classify_loser` | called by the two handlers below |
| Check-in journal (`checkin/repository.py`, migration 0018) | `scan_logs`, `station_consumptions`, `scan_conflicts` | `insert_logs`, `upsert_consumptions`, `upsert_conflicts`, `acknowledge_conflict`, advisory locks | PostgreSQL, one transaction per request |
| Online scan and batch synchronisation (`checkin/service.py`, `sync_service.py`) | locals of a request | `online_scan`, `sync_batch` | rules, journal, tickets, station rules, clock |
| Check-in snapshot, runtime, adapters | entitlements, cursors, ETag; rate limiter, TTL caches | refresh, read since a cursor; allow, verify | tickets, every check-in route |
| Order transactions (`store/orders.py`) | `orders`, `order_items`, `ticket_types.quantity_sold`, `tickets` | `create_order_with_items`, `cancel_order_release_inventory`, `settle_order` | called by the order service |
| Order service and payment routes (`orders/service.py`, `http_layer/routes`) | none of their own | create, settle, mark_failed; verify, webhook, mark-paid, mark-failed | order transactions, providers, mail |
| Payment providers (`payments/`) | manual: `payment_records` and a cache; free: a set in memory; FedaPay: a remote transaction; seen webhook events in memory | begin, verify, mark, handle_webhook | order service |
| Ticket types and events (`events/service.py`, `store/ticket_types.py`) | `ticket_types`, `events` | create, update, delete, default passes; update, publish | orders, administration |
| Sessions (`auth/service.py`) | one refresh token per user | issue, refresh, sign-up by invitation | every authenticated route |
| Members and invitations (`store/orgs.py`, `routes/orgs.py`, `extras.py`) | `org_members`, `org_invites` | invite, accept, revoke, change a role | administration |
| Database connection (`store/store.py`) | one connection, the depth of its transactions | `transaction`, `execute`, `fetch` | every thread of the application |
| Legacy admission scan (`scan/admission.py`) | `admissions` | scan, import of offline scans | tickets, offline scanner |
| Registration form (`RegistrationWizard.tsx`, `registration-form.ts`) | form, step, errors; a draft in sessionStorage | type, choose, toggle, next, back, finish, restore | storefront; `orders/registration.py` validates again |
| Storefront checkout (`App.tsx`, `InscriptionPage.tsx`, `lib/*checkout*`) | page, dialogs, cached catalogue, calls under way | submit, pay in a widget, verify, recover, download | orders, FedaPay |
| Cart and money (`use-cart.tsx`, `money.ts`) | lines, in memory and in localStorage | add, update, remove, clear; conversions | shared by the tabs |
| Offline scanner (`scan-store.ts`, `scan-decision.ts`, `capability.ts`) | bundles and a queue in IndexedDB | save and delete a bundle, decide, record, upload, mark as synced, migrate | the server's bundles and imports |
| Administration session (`admin/services/api.ts`, `AuthContext.tsx`) | tokens in memory and in localStorage, the user | fetch, refresh and retry, login, logout, load the user | other tabs, other devices, the server |
| Administration pages (`admin/pages`) | rows, filters, editors, toasts | read, edit, invite, search, poll, export, send again | all of the server |
| Organisations, media, public pages, statistics, migrations | rows edited one at a time, files | CRUD, read-only queries, start-up | — |

What makes the behaviour hard, and what would make it correct:

* **Check-in.** Terminals work offline and upload days later, in any order, twice,
  while others scan online. The slots of a ticket at a station must go to the best
  ranked claims of the *whole* journal, an earlier winner may be displaced, and
  whoever was let in must hold a slot or show up as a conflict. Each request is a
  transaction under advisory locks that may time out, but reads its reference data
  and the clock before the locks.
* **Orders.** Buyers compete for stock and for one order per email; four routes
  (verify, webhook, mark-paid, mark-failed) act on one order at once; the provider
  may fail after the stock was taken; minting may fail; some of the state that
  confirms a payment is lost with the process. The counter of sold places must stay
  the number of places held, and an order must be served exactly if it was paid.
* **Offline scanner.** Two tabs of a phone share a queue; the clock of the phone goes
  back; batches overlap, are repeated or lost; the database is migrated with scans in
  it. The first scan must win, no scan may be lost between "sent" and "synced", and a
  ticket may be admitted twice by one device only as often as its tabs allow.
* **Storefront.** A submission awaits the catalogue, an order, a widget and a
  verification while the visitor goes elsewhere; the payment may be accepted although
  the widget was closed, or unknown although it was paid. What a dialog says must be
  true, a draft must not be lost for nothing, and no button may stay busy for ever.
* **Registration form.** The wizard and the API validate separately, over drafts that
  are restored and answers whose condition has changed: what one lets through the other
  should accept. Two pages host the wizard and treat it differently after a success.
* **Administration.** Every tab keeps its tokens in memory and all share one storage;
  the server keeps one refresh token per user. Pages send a request per change and show
  whichever answer comes last; the server writes back whole rows it read earlier. A
  request must be made as the user that is shown; lists must end with what their filters
  say; a row must stay valid whoever else saves it; a team must keep an owner.
* **Everything on the 3A application shares one database connection**, so that
  transactions of different requests may nest in each other (section 7).

`PROJECT.json` lists each hazard at its line with the properties that watch it, or the
reason why none does.

## 2. Modules

```
CheckinDomain -> CheckinLedger -> CheckinConvergence
     |               ^  (refinement, proved and checked)
     +-------> CheckinService
OrderStore    -> Orders                       (refinement, proved and checked)

Scanner                      Storefront                      AdminSession
Money -> Cart --+
                +-> BuyerForms
Registration ---+
AdminCatalog, AdminTeam, AdminLists, AdminDashboard, AdminExports -> Administration

CheckinLedgerProofs (and CheckinDomain) -> CheckinConvergenceProofs
CheckinServiceProofs                       OrdersProofs
ScannerProofs      StorefrontProofs        AdminSessionProofs      AdministrationProofs
```

### Server

**`CheckinDomain`** — `domain.py` as operators. An operation id is a natural number
(only equality and text order matter), instants are integers. `Before` is
`Claim.sort_key`, `Rank` the position in the sorted list, `HolderAt` what `resolve`
writes to a `use_index`, `ConflictSpec` the conflict it emits for a claim of
`Disputed`.

**`CheckinLedger`** — the abstract specification of the journal: batches are recorded
one after the other, each atomically (`Record`), and a supervisor acknowledges
conflicts. `logs`, `consumptions` and `conflicts` are the three tables keyed by
operation. The upserts are those of the code: a slot that the ranking does not fill
keeps its row, a conflict that is not mentioned keeps its row, only groups that
received a claim are resolved again.

**`CheckinConvergence`** — two ledgers that receive the same batches, each in its own
order: the setting of the convergence claim of `docs/checkin/ADR-001-conflits.md`.

**`CheckinService`** — `online_scan` and `sync_batch` as they interleave. `pc[r]` is the
statement request `r` is at: `replay` (replay look-up), `load` (`load_tickets`,
`load_rules`), `lock` (`lock_groups`, one key at a time in sorted order), `read`
(`find_operations`, `fetch_claims`), `insert` (row by row into the unique index, which
waits for an uncommitted row of the same operation), `commit`. `txn[r]` holds the
handler's locals (the verdicts and rules it read before the locks, the claims it read
under them). What a transaction writes becomes visible at its commit, so consumptions
and conflicts are written by `Commit`. `Timeout` is `lock_timeout` or deadlock
detection, `Crash` the loss of the process or connection; `Edit` is an organizer who
voids or mints a ticket or switches a station, `Tick` the clock. Signature
verification is an attribute of the input (`capability`). `Scenarios` says how many
requests come, with which inputs, and whether there are crashes and edits.

**`OrderStore`** — the three transactions of `store/orders.py` and the edit of totals,
in any order and by anybody: the abstract specification `BookSpec` of the tables.

**`Orders`** — the handlers: `Create`/`Insert`/`Begin`/`Release` is `OrdersService.create`,
with a provider that may fail; `Verify`, `Webhook`, `MarkPaid`/`RecordPaid` lead to
`Settle`/`Commit`/`Mail`, which is `OrdersService.settle`; `MarkFailed`/`RecordFailed`/
`Fail` is mark-failed; `ReadType`/`UpdateType` is `update_ticket_type`. A step ends where
another request can get in between. `Restart` forgets what lives in memory (the free
provider's orders, the seen webhook events) and ends the running requests; the manual
provider loads its records again. `GatewayDecides` is the buyer at FedaPay.

### Web application

JavaScript runs one callback at a time: a step of these modules is the code between two
`await`s, timers or events, and everything else may happen in between.

**`Scanner`** — IndexedDB of one device with several tabs. `Present` is `decideAdmission`
up to its `await` (`Examine` is its sequence of checks, `VerifyWithRing` that of
`capability.ts`), `LookUp`/`LookUpFails` the rest, `RecordScan` the write in its own
transaction, `SendBatch`/`MarkSynced` the two sides of an upload, `Upgrade` the migration
of the database. The engine of a tab and the server are external: `LoadBundle`,
`Deliver`, `OtherGateAdmits`, `Revoke` do what comments of `scan-store.ts` say of them.

**`Registration`** — a form is a record of its fields, a text one of six kinds (empty,
blank, text, padded, too long, an address with a capital): what the code does to a text is
trimming it, lowering it (the e-mail), and, on the server only, measuring it.
`StepErrors` is `validateRegistrationStep`, `ApiAccepts` is `normalize_full_form` of the
server with the lengths of `_check_len` (`Limited`), `Normalized` what the server stores; the
steps of the wizard, the draft, a reload and the way between the pages are actions. `host` is
the page that shows the wizard: `App` closes its dialog after a success,
`InscriptionPage` erases the draft and leaves the form on the screen (`SubmissionSucceeds`). A
submission outlives its page (`older`) and may erase the draft of another form
(`OlderSubmissionEnds`); `erased` is the history of that.

**`Storefront`** — both pages that sell, with the modules behind their form. A `checkout`
is one submission with its own program counter, that outlives the page it came from;
`page.visit` tells one mount from the next. `Error` is what `ApiError` keeps, and
`CheckoutFailureCopy` what the visitor reads of it. The server is reduced to its answers
and to `orders`, one per address; the webhook and the gateway act on their own.

**`Money`**, **`Cart`** — the conversions between minor units and text, digit by digit, since
padding and cutting is all they do; the reducer, the totals, and a storage shared by tabs
and left by older versions or by an edit. What is found there may have a fractional quantity
(`part` says that something is beyond the whole units) and any price or none (`NoPrice`), since
`isValidCartItem` looks at neither; `found` keeps it as history. No route mounts the provider at
this commit.

**`BuyerForms`** — the form or the cart: they keep their state apart, so a behaviour is one
of the form that is open, and one run covers both.

**`AdminSession`** — `ApiClient` and `AuthProvider` in each tab, localStorage between them,
the server's sessions. A refresh is three steps (look-up, issue, answer), any other
request two. `LoginElsewhere` and `OtherTab` stand for devices and tabs outside.

**`AdminCatalog`** — passes and event settings: pages, calls in slots, and the server's
`update_ticket_type`, `delete_ticket_type`, `create`, `ensure_festival_pass_products`,
`update` and `publish`, each a read and a write of a whole row. Others sell, release and
edit meanwhile. The form of the settings has one value per field: what nobody typed and no read
filled is empty, and is sent with the rest. `settings.typed` is the set of fields typed over,
`filled` whether a read filled the form, `blind` the history that a form was saved unfilled.

**`AdminTeam`** — the team pages of several people over one table of members and one of
invitations; `accept_invite` and `signup_with_invite` statement by statement.

**`AdminLists`** — five lists with their filters and pages, two detail pages, the search
of the header, the poll of the admissions; requests joined by `Promise.all` and
`allSettled` are read one by one, and answers come in any order.

**`AdminDashboard`** — the loads of the dashboard, its figures and bars, the card and the table of
recent orders and the toasts, whose coming and going starts the effect again. A load that
fails ends the loading in one step and the effect that loads again is another (`due`): the page
is rendered in between, without figures. `told` is how the request for recent orders ended.

**`AdminExports`** — downloads, files built in the browser, e-mails sent again, on the six
pages that have such a button: calls that outlive their page, retried once after a
renewal by `fetch` and not at all by `download`. `Says` is who is told: `NexusNightPage` awaits
nothing and tells nobody.

**`Administration`** — the five parts above behind the routes of `AdminApp`. They share the
session, which `AdminSession` has, and nothing else: one part is open in a behaviour. What
a person, the network or somebody else does spends the budget of the part; answers and
timers do not, and are fair.

Deliberate abstractions: one event (the scanner has several); amounts, currencies and
signatures are reduced to their outcome except in `Money` and `Registration`; a ticket is
its type and its number in the order; the providers `stub` and `remote` behave like `free`
and `fedapay`; the statements inside one `store/orders.py` transaction are one step,
because the row locks of its `UPDATE`s and the unique index serialise them; names,
wording and layout are left out, and a search term is the set of orders it finds.

## 3. Runs

| Run | Question | What it shows |
|---|---|---|
| `CheckinLedger` | Do the upserts keep what the ledger promises? | slots follow the ranking; losers and refusals are reported with the right winner; admissions are accounted for; a loser never comes back |
| `CheckinConvergence` | Does the arrival order matter? | not for consumptions, nor for lost or refused scans |
| `CheckinServiceRace` | Do the handlers implement the ledger when three requests fight for one ticket, with timeouts and crashes, and when two run while tickets are voided or minted and stations switched? | yes (`ImplementsLedger`), what devices were told is in the journal (`ServiceIsSound`), and at most one copy of a claim is told that it was admitted or came too late (`ClaimsAreAnsweredOnce`) |
| `CheckinServiceLocks` | Can requests block each other for ever? | advisory locks never wait in a circle; batches without a ticket row may wait in a circle on the unique index, and the timeout ends it |
| `CheckinOnlineRace` (violation) | A test says concurrent online scans admit one | not when the scan that read the clock first gets the lock second: both are answered valid (a conflict row does record it) |
| `OrdersSale` | Do the order handlers obey the tables' specification, and serve exactly the paid orders? | yes, with two orders, every kind of request, failing providers and mints, and a restart: a paid order has every ticket it bought, student passes included, and no other but the one that comes with a VIP pass |
| `OrdersWebhookRetry` (violation) | 200 to a webhook means processed | not when the first delivery failed after it was marked as seen |
| `Scanner` | Can a device lose scans, upload them in another order than they happened, or let somebody in twice? | uploads follow the recording and the first scan wins; a synced row reached the server; a ticket is admitted at most once per tab, and only against facts younger than the bundle |
| `Storefront` | Are visitors told the truth, whatever fails and wherever they go? | a confirmed payment is a paid order; a dialog that confirms names the right pass, one that announces a ticket is of an approved payment; a draft is erased only while some submission of the browser has its order; every submission ends |
| `AdminSession` | Do tabs that share tokens stay the same person? | pairs are whole, a retry carries another token, requests are made as the user shown; nothing stays loading |
| `BuyerForms` | Is what the wizard submits accepted? Is the draft what is on the screen? Does a cart add up? | accepted unless a text is too long, and only then refused; the administration displays every answer; the draft is current until a success erases it; lines of a cart are within the limit, what is unsound in them was found in localStorage, and a sound cart adds up and reads back |
| `Administration` | Do the pages say and write what is true, with overlapping, lost and late calls? | passes stay valid and ordered ones are kept; an owner remains; invitations count once; lists follow their filters; whoever is admitted is listed in the end while the page that would show it is in front; a dashboard that knows its event has figures in the end, and no figures stay unread once it neither loads nor is about to; a form of the settings that a read filled erases no venue; files of participants, orders and tickets are complete; a toast of success comes with its file, or with an e-mail that was given to the mail service |

The two violation runs state what a document or a test of the repository says; TLC finds
the counterexample, and `findings` quotes the line.

`HandlersAreSound`, `ServiceIsSound`, `SessionsAreSound`, `DialogsAreTrue`, `WizardIsSound`,
`CartIsSound`, `CatalogIsSound`, `TeamIsSound`, `ListsAreSound`, `DashboardIsSound` and
`ExportsAreSound` are conjunctions of a type invariant and named properties, each with its
comment in the module; TLC is given one of them per component, and its trace tells which
conjunct fails when the conjunction is listed part by part.

### Bounds

* `CheckinLedger`: three operations of two terminals, two instants, batches of at most
  two, a group of one use and one of two. Three claims are the least in which a displaced
  winner is displaced again and in which a group of two uses has a loser; two equal
  instants make the operation id decide.
* `CheckinConvergence`: all assignments of contents to three operations and all their
  groupings.
* `CheckinServiceRace` and `CheckinServiceLocks`: three requests, since two suffice for a
  race or a circle and the third meets its outcome; the inputs (in `MCCheckinService`)
  contain a scan older than the others, an unreliable clock, a scan sent twice in a batch,
  and one operation sent with different contents; two requests with two edits, which is one
  edit between any two statements of both. `MaxNow` lets the clock move once, so that
  requests read equal or different instants.
* `OrdersSale`: two orders, three requests, stock of one for the priced types, one restart; one
  buyer asks for a student pass, which is free, another for a VIP pass, which brings one.
* `Scanner`: two tabs, two events, two rows queued by the old version (one with a clock
  that cannot be read) and two free ids, two batches under way, one fact of another gate or
  organizer. `CONSTRAINT Scenario` (in `MCScanner`) keeps two bounded scenarios of this
  space: uploads, with the bundle of the start and scans of one ticket; and the freshness of
  bundles, with one scan and no upload. The two questions share no state: uploads never look
  at a bundle, and a decision never at the wire. The proofs cover the whole space.
* `Storefront`: two submissions of one address over two mounts of a page, one edit, two
  attempts of a verification. Two submissions are the least that can be confused, two mounts
  the least over which one can be late.
* `AdminSession`: one tab in detail, two users, two requests, two issued pairs; `OtherTab`
  and `LoginElsewhere` do whatever a second tab or device can do to what is shared.
* `BuyerForms`: seven fields that vary, one for each kind of input and condition, over drafts
  that fill in the others in every offered way, one with a text that is too long in a field that
  is not shown any more; one older submission; three currencies (no, two, three decimals),
  four ticket types of three events, two tabs, five actions; a stored cart of another version, and
  one that was edited, with quantities that are not whole and prices that are none.
* `Administration`: `Budgets` is two or three initiatives per part, from pages that have just
  loaded or are in use (the editor of a pass already typed in), with two calls under way:
  one page's call and another's between its read and its write, and a failure. Answers and timers are not bounded.

**Symmetry** is used for requests, tabs and terminals, which are only compared for
equality, and never in a run with a liveness property.

### Fairness

* `CheckinService`: weak fairness of each request's own steps: a request that was received
  is run by its thread until it ends. That includes `Timeout`, which is enabled only while
  the request is blocked: PostgreSQL's `lock_timeout` ends such a wait.
* `Storefront`: weak fairness of the calls of a submission and of the loading of the widget's
  script: a `fetch` or a script ends, with an answer or an error. Strong fairness of
  `WidgetCloses` and weak of `CloseDialog`: the buyer does not leave the widget or a dialog
  open for ever; without it `SubmissionsEnd` would say something of the buyer, not of the
  code.
* `AdminSession`: weak fairness of the answers, successful or not, of each call.
* `Administration`: weak fairness of the next answer of each read, of the ten-second poll
  and of the timers of toasts. Failures are bounded by the budget, so that a network that fails for
  ever is not assumed away but simply not waited for.

Submissions, edits, crashes, trades and clocks are never fair.

**Deadlock** checking is off everywhere: a system whose requests are all answered, whose
ids are all used or whose visitors have all left, stops.

## 4. Proofs

`CheckinLedgerProofs` begins with the ranking: `Before` is a strict total order on the
claims of a group, so `Rank` is injective and strictly increasing (`RankIncreases`,
`RankIsInjective`), hence, as an injection between finite sets of equal size, onto
`0 .. n-1` (`RankIsOnto`). So slots are filled without holes (`SlotsAreFilledInOrder`),
the reference a loser is compared with exists (`ReferenceIsAssigned`), and claims that
come in leave losers losers (`LosersAreMonotone`).

It goes on to prove every property of the ledger for any number of operations,
terminals, groups, slots and batches: `TypeOK`, `ConsumptionsFollowRanking`,
`LosersAreReported`, `AdmittedAreAccountedFor`, `LosersStayLosers`, `ConflictsAreKept`.
The inductive invariant `IInv` is needed because `upsert_*` leave rows alone: that a slot
the new ranking does not fill needs no rewriting holds only because it was never filled
(a slot has a holder exactly when there are enough claims, and claims only grow); that a
conflict row nobody mentions is still right holds only because each row implies
something about the journal (`ConflictsAreJustified`) that later batches cannot undo.
`ClaimsHaveUses` excludes claims in groups without a rule: there `resolve` would emit
nothing for the losers.

`OrdersProofs` first proves of `BookSpec` that `quantity_sold` is the number of places held
(by counting the set of places: a creation adds a disjoint set of as many elements, a
cancellation removes it), one active order per email, tickets for paid orders only,
final outcomes, and that no sale goes beyond a total. Typing and `StockIsHeld` go
together: the counters are natural numbers only because they count.

It then proves `Spec => BookSpec`: each step of the handlers is one step of the
tables, or none. It needs to know what a handler holds at each step (`Control`). All
theorems about `BookSpec` then hold of the handlers. What the handlers add to the tables
needs a second invariant, `Handlers`: the order of a request is its own while it is being
created and begun (ids are new, and begin is done once), so that nobody else can have paid
or cancelled it; a manual record, a free order in memory and a FedaPay transaction exist
only for orders that were begun in that way, and stay decided; of the requests that settle
an order, only the one whose commit changed it goes on to the mail. From it follow what
refused creations leave (`OrdersHandlersAreSound`), what the verification of an order of FedaPay
or a free one answers (`OrdersConfirmTruly`; that webhooks do not is `OrdersWebhookRetry`), and
that a paid order is served, exactly and once (`OrdersServeOnce`): what `settle` mints holds what
was bought and one student pass more at most (`MintedServes`), and no later step changes the
tickets of a paid order (`StepServes`).

The last sections of `OrdersProofs` are about `BuyerForms`, for any drafts and stored carts.
`RegInv` is the invariant of the wizard. That the API accepts a form it lets through exactly if no
text is too long rests on comparing the two validations: the choices the API knows are those that
are offered (`ChoicesAgree`), what the wizard requires of a step is what the API requires, lengths
apart (`CompleteFormsAreAccepted`), and no answer is dropped on the way to what is stored
(`FormsAreKept`, `CompleteFormsAreDisplayed`). Errors beside their fields need `Examined`:
an error is only ever of a field that is required or the preferred channel, and those are
shown whatever other answers become, the channel as long as its question is answered yes. The
draft is what is on the screen, or nothing since a success erased it (`DraftIsCurrent`): which
form that success was of, nobody can say.

`CartsInv` is the invariant of the cart: open tabs hold carts (each line within the limit, whole
and at a price of its ticket type unless the line that was found in `localStorage` at first was
not), and the tab that wrote last shows what is in `localStorage`. Reload and types follow
directly. That totals of sound carts agree and read back is about what folds and a recursive
function compute. The sum of some lines is the number of their minor units, counted
as a set (`Weight`); sets that are apart add up, so the events of a currency partition its
total, and a cart is at most as large as `CartAssumption` allows. `FoldSet` and `FoldLeft`
are shown to be defined and to compute the sum in whatever order they take, and `DigitsOf`
to be defined, by minimal counterexamples (`MinimalSets`, `LeastNumbers`, from the
well-founded orders of the library, since the induction theorems cannot be instantiated).
Then digits, behind any zeros, read as their number (`NumberOfDigits`), and the
point splits them into two parts that make up the whole (`SplitDigits`): amounts read back
(`AnAmountReadsBack`).

`CheckinServiceProofs` proves that the interleaved transactions of the check-in implement
the ledger, for any number of requests, inputs, edits and crashes. `Control` says of each
transaction what it read under its locks (`find_operations`, `fetch_claims`) and why that
is still so when it commits: whoever else would add a claim to one of its groups needs a
lock it holds, and whoever else would insert one of its operations waits at the unique
index. At its commit the rows it resolves are then those that the ledger would
(`CommitsAreBatches`), every other step leaves the tables alone, and
`ServiceRefinesLedger` follows; hence all theorems of the ledger, and with them what
devices were told (`AdmissionsAreAccounted`): an answer of "admitted" was the decision of
the journaled row, whose slot or conflict the ledger keeps. `ClaimsAreAnswered` uses that
the transaction that inserted the row is the only one that decided it. Locks are taken in
ascending order, so that a circle of waiting requests would be an ascending circle
(`LockWaits`).

`CheckinConvergenceProofs` instantiates the invariant of the ledger for both servers
(`BothKeepTheLedger`) and adds that they agree on the content of every scan both have.
Equal journals then give equal rankings and readings (`SameRanking`, `SameReading`), and
since consumptions, lost and refused rows are functions of these, they are equal too.

`AdministrationProofs` proves the two properties of the team and those of the lists, of the
exports, of the dashboard and of the catalogue, for any number of people, invitations, orders,
passes, reads, calls, loads and initiatives. `TeamInv` relates each call under way to the tables (what it read of an
invitation is still its address and role; whoever accepts has an account) and each list to
whoever it was given to (a manager). Two things are never undone: nobody who is a member
stops being one, and no address leaves an invitation that is not free; so the primary key of
`org_members` makes an invitation count once, although `accept_invite` reads, adds and marks
in three statements. `OrganisationKeepsAnOwner` does not follow from what the API checks,
since it counts the owners in one statement and demotes in another. It is proved from
`StaysOwner`: an owner from the start is an owner in every list that anybody has, since it was
one when the list was read; no page offers to change an owner it shows; hence no request
under way is about that owner.

For the lists, `ListInv` follows the reads: what a request of a read has found paid is paid
still (`ReadsWereTrue`), so that a row joined from two requests of different times is of
somebody who holds tickets; each read under way is a search or of the page that is open
(`ReadsAreOfThePage`), since a page that is left takes its reads along; and the read that was
sent last asks what the filters are, as do the rows it brings (`AnswersAreInOrder`), although
an answer that overtakes it takes the place of the rows whatever was asked since. A page is
never longer than its list because no two rows are of one order (`RowsAreFinite`,
`PagesArePartial`).

For the exports, `ExportInv` says that each answer a call has holds at least the rows that
were there at the click, since orders only move towards being listed (`OwedGrows`,
`SoundnessLasts`); that the e-mails of an order that were given to the server and those that
calls still ask for are together not more than the clicks (`EmailsAreCounted`, by counting the
set of calls: a loss takes a call from the set, whether the server served it or not, and a
renewal does not add one); that the page in front waits for one call at most
(`ButtonsWait`). That a list is complete needs the limit of 100000 rows to be above the
number of orders (`LimitIsNoLimit`). Whoever exports from `NexusNightPage` is told nothing, and a toast that tickets
were sent says that the mail service was given the e-mail, which it may skip or fail to send; the
file of admissions is left out of what is complete, since its page builds it from whichever of its
requests were answered.

For the dashboard, `DashboardInv` says of every load under way, not only of the last, that
it asks for the charts after it has brought the figures (`FiguresComeFirst`): any of several
loads that overlap may be the one that ends the waiting. When nothing is loading and no
effect is due, the figures were read and the recent orders were read or lost: the zeros of the page
are not more than that, as section 5 shows. The effect of the page either starts a load or, without
an event, changes nothing (`EffectsLoad`). That the bars are the days they name is
arithmetic (`DaysAndHours`): of an order whose day is one of the last seven, the age in hours
divided by 24 is between 0 and 6 exactly when the order is not of the future.

For the catalogue, `CatalogInv` has to say when cards may be out of date, since nothing pushes
the changes of the server to the page. A change of the page's own is *owed* from the moment
the server applies it until its answer is taken, which sends a read of the list (`Owed`). While
nothing is owed and nothing failed, the cards that no read is about to replace are the table,
and so is what a read that is still to be trusted has found (`CardsAreCurrent`): a read that
another one overlaps, or that the table left behind, is not trusted (`Trusted`), and takes
`catalog.current` away when it is applied. Steps are about one call; `Moves` says what they may do
to the others, which is only to outdate them, so that each part of the invariant has to be
shown for the call that moved (`Alike`). The venue of an event is in the table, in every answer
and in every form that a read has filled until somebody types over it (`VenuesAreKept`), or saves a
form that no read has filled: one with a title erases the venue (`FailedReadsEraseNothing`, not
kept), one without is refused before it writes. The editor waits
for exactly one saving (`SavesAreAlone`). Student passes stay free although an update
writes a body over a row that an earlier statement read (`UpdatesFit`): price and tier of the
result were validated together, whichever of them the body leaves out, and are written together.

`AdminSessionProofs` proves the safety properties of the administration's session for any
number of tabs, users, requests and issued pairs. `ServerIsSound` says that whatever is kept
was issued before (`Known`), so that a pair that is issued is new to everybody
(`IssuesAreNew`); hence a retry never carries the token that was refused: `Holds` keeps, of
a pair that was renewed and is not stored yet, that no request of the tab was sent with it.
`BelongsTo` says of one tab that its pair, its user and the calls under way that no later
login or logout made old belong to one user. The pair it reads from localStorage may
belong to anybody: it is read by a page that loads, which has nothing else. An answer that
is applied although its call is old is what `late` records, and where the theorem
`TheTabsActAsTheUserTheyShow` promises nothing.

`ScannerProofs` proves typing and eight properties of the offline scanner for any number of tabs,
ids, tickets, keys, batches and facts, without the bounds and the constraint of the run.
`Typed` is the inductive typing invariant. `Recording` says what `born`, the history of
recordings, has to do with the rows: the rows of the old version have none, and the number
a new scan gets is above all others; from it follow the order of numbers
(`NumbersFollowRecording`) and of every batch, which was cut from the queue at some earlier
time (`UploadsAreInOrder`), that scans are not rewritten (`QueuedScansAreKept`), and
`AdmissionsAreBoundedByTabs`, where each recorded admission is charged to the tab that was
deciding when the local look-up found none. `Fresh` says of every bundle, stored or held by
a tab, what it knew of the server when it was issued; the instants of the server's facts
only grow (`ServerLearns`, `FreshnessLasts`), hence `AdmissionsAreFresh`. `Contest` says that whatever
lists a scan of a ticket lists the earlier ones that are still queued, unless the ticket has
its winner: hence `TheFirstScanWins`. That the ids in
the log were signed (`OnlySignedTicketsAreRecorded`) needs nothing but the order of the
checks of `decideAdmission`.

`StorefrontProofs` proves the safety properties of the checkout for any number of
addresses, links, submissions, mounts of a page and edits of the catalogue. A dialog says
what was true when the chain of calls behind it went on, while the server, other
submissions and the organizers move. `Claims` says of each step of the chain what the server
holds by then: an order of this address for this pass from the widget on, a price while the
widget is loaded (the cached catalogue may call free what the server sells, never the
reverse here, since the server gives a free order no token), a payment when it is
called paid, an approved transaction when a ticket is on its way. `Progress` says that the
server never takes such a fact back. `Alone` says that a page whose form is free has no
checkout under way, hence one at a time, although dialogs close and open meanwhile. From
them follow `ConfirmedPaymentsAreTrue`, `TheDialogsAreTrue` and `DraftsAreClearedForOrders`.

Assumptions are the named `ASSUME`s of the modules (finite sets of orders, operations and
tabs, natural numbers, absent values that are no values, inputs of the right shape and
within `MaxQuantity`, drafts that a wizard of this version made (at whatever step), stored
carts of one line per ticket type whose quantity is a number (whole or not) and whose price is a
number or missing, full carts at the prices of the server within the integers a browser holds
exactly, issuers that sign ids of tickets for their event, teams that start
with an owner, catalogues that start with free student passes and an official student price
of 0, changes that fit the form of a pass, refusals of a creation that announce no ticket, no more
orders than an export lists, loads of which one is the first, scans that have one content
however often they are sent to two servers); TLC evaluates them for its instances.

Some theorems are about properties that no configuration lists, since the proof covers
every instance: `TypeOK` and `ConflictsAreKept` of the ledger, `OneActiveOrderPerEmail`,
`TicketsArePaidFor`, `OutcomesAreFinal`, and `TypeOK`, `SeqFollowsRecording`,
`RecordedTicketsWereSigned`, `ScansAreNotRewritten` of the scanner. They hold in the runs
when they are added there.

Only model-checked: liveness under fairness (`EveryRequestIsAnswered`, `SubmissionsEnd`,
`NothingHangs`, `AdmissionsCatchUp`, `DashboardRecovers`), which is out of the prover's reach,
and the two disagreements of section 3. That the sums of `Demand` stay within
`MaxQuantity` is an assumption on the inputs (`OrdersAssumption`), not a result.

## 5. Statements the code does not keep

Two have a run of their own (section 3). The others are stated in their module, next to
the properties, and TLC refutes each of them when it is added to the configuration named
here.

| Statement | Says | Where it is written | What happens | Configuration |
|---|---|---|---|---|
| `ConflictsConverge` | all arrival orders give the same conflict rows | `docs/checkin/ADR-001-conflits.md` | a `CLOCK_SUSPECT` row written early is never withdrawn | `CheckinConvergence.cfg` |
| `ClaimsAreNeverRefusedAsNew` | a copy of a batch learns that its operations were already processed | `sync_service.py:306` | a copy that read a ticket before it was minted answers "conflict, unknown" for a claim that another one journaled | `CheckinServiceRace.cfg` |
| `ConfirmedOrdersArePaid` | mark-paid answers with a paid order | `docs/API-FRONTEND.md` | mark-failed comes between its read and its transaction | `OrdersSale.cfg` |
| `FreeOrdersCanBeSettled` | a free pass is settled at its creation, or can be | `docs/API-FRONTEND.md` | after a restart nothing confirms it any more | `OrdersSale.cfg` |
| `FreeConfirmationsAreTrue` | a free pass is settled when it is announced | `billetterie-checkout.ts:70` | the verification failed, and its error is ignored | `Storefront.cfg` |
| `FormsFitTheSchema` | keys and values are those the API validates | `registration-form.ts:3` | no text is limited, and the API refuses one that is too long (`orders/registration.py:260`), even in a field that is not shown any more | `BuyerForms.cfg` |
| `RefreshLosesNothing` | the draft is for going on after a refresh | `registration-form.ts:307` | after a success `InscriptionPage` keeps the form and has erased the draft; a submission of a page that was left erases the draft of the next form | `BuyerForms.cfg` |
| `LoadedLinesAreSound` | the actual type of every field is checked | `use-cart.tsx:47` | a quantity of 2.5 passes, and nothing looks at the price | `BuyerForms.cfg` |
| `DraftSurvivesFailedPayments` | the draft is erased in case of success only | `RegistrationWizard.tsx:102` | it is erased when the widget is closed without a payment | `Storefront.cfg` |
| `EventIsServed` | an offer can be closed and read afterwards | `TicketTypesPage.tsx:224` | closing sends no name and is answered 500 (`events/service.py:474`) | `Administration.cfg` |
| `UpdatesDoNotUnpublish` | only publish publishes, update may only cancel | `events/service.py:298` | an update that read the draft writes it over the publication | `Administration.cfg` |
| `FailedReadsEraseNothing` | what is saved is what was modified | `EventSettingsPage.tsx:52` | the read of the form failed or is late; a title is typed and saved, and the empty venue with it | `Administration.cfg` |
| `CardsAwaitFigures` | cards show "..." until figures are there | `DashboardPage.tsx:121` | the page is rendered between the end of a failed load and its effect, with zeros | `Administration.cfg` |
| `RecentCardAwaitsOrders` | the card of recent orders shows a number that was read | `DashboardPage.tsx:169` | its request is lost, `allSettled` leaves no orders, and the card shows 0 | `Administration.cfg` |
| `DonutAwaitsFigures` | the donut shows a number that was read | `DashboardPage.tsx:166` | it does not look at `loading` and shows 0 from the start | `Administration.cfg` |
| `ParticipantsExportsAreTold` | whoever exports participants is told how it went | `ParticipantsPage.tsx`, `DashboardPage.tsx` | `NexusNightPage.tsx:20` neither awaits nor catches its download | `Administration.cfg` |
| `StaffStayInTheAdministration` | pages of the administration lead to each other | `admin/pages/ParticipantsPage.tsx:205` | absolute paths lead to the storefront when the administration is mounted below a route | `Administration.cfg` |

Two more were met without a property: an operation id that is used again online with
another QR is answered as a replay, since `payload_hash` leaves the QR out; and a refused
row that two concurrent uploads of one batch carry is answered as new to both.

## 6. Not modelled

* Snapshot, statistics and terminals of the check-in module; the rate limiter; the caches of
  sessions and key rings (`checkin/adapters.py`), which honour what was revoked until they expire.
* A rule that is *lowered* while a ticket has more uses than it then allows: the slots
  beyond keep their rows. In `CheckinService` a station is allowed with a fixed number
  of uses, or not at all.
* The legacy admission scan of the server; `Scanner` has what its comments promise devices.
* Passwords, reset, OAuth and the audit of sessions; CRUD of organisations; speakers,
  programme, media, public pages, contact, statistics: one row or one query at a time.
* Functions of the web application that no route uses any more (`use-auth`, `use-toast`,
  `lib/host`, most of `lib/api.ts`), and pages without state.
* Cryptography of tickets and keys, SMTP, HTTP; migrations, which run before any request.

## 7. What the models take for granted

`Orders` assumes that the transactions of two requests are isolated from each other. The
3A application opens one connection and shares it between the threads that run its
routes (`store/store.py`), so blocks of two requests may nest: the inner one becomes a
savepoint of the outer one. That is a property of `Store.transaction`, not of the
orders, and gets a module of its own. `CheckinService` needs no such assumption: the
check-in module has a pool and each request its own connection.

`Storefront` reduces the server to answers that `Orders` can give; `Scanner` takes the
server's side of an upload from the contract quoted in `scan-store.ts`; `Administration`
takes the token of each call for granted, except that it may expire, as `AdminSession`
shows it does.

## 8. Plan

1. `StoreConnection` — one connection, several threads: transaction blocks, savepoints,
   implicit transactions, failures. Abstract specification: isolated transactions.
   Property: what a block was told is committed is not lost with another's rollback.
2. `CheckinSnapshot` — entitlement refresh, cursors and ETag against edits. Property: a
   device that follows the cursor ends with today's entitlements (liveness), and never
   skips a change.
3. `Admissions` — the legacy scan and its offline import, composed with `Scanner`: every
   recorded scan is imported (liveness) and counted once.
4. Station rules that are lowered, in `CheckinLedger` with `MaxUses` as a variable.
5. Reset of passwords and OAuth, in `AdminSession`.

Every safety property of the runs that is expected to hold is a theorem. To come with the
modules above: isolation in `StoreConnection` where it holds, and the sums of `Demand`, by
the lemmas that the totals of a cart use.
