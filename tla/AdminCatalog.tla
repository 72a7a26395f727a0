------------------------------ MODULE AdminCatalog ------------------------------
(***************************************************************************)
(* The catalogue of the event in the administration: TicketTypesPage and   *)
(* EventSettingsPage with their services, EventContext, and what the       *)
(* server does with their requests (backend/events/service.py), beside     *)
(* buyers, visitors of the storefront and another administrator.           *)
(*                                                                         *)
(* A request is a call in a slot: sent, perhaps read (the server has read  *)
(* the row it will write), done or refused, and taken by the page.  Rows   *)
(* lose their order.  The text of a pass is the tier it is the official    *)
(* text of, or "own".                                                      *)
(***************************************************************************)
EXTENDS Integers, FiniteSets

CONSTANTS
  Passes,           \* ids of ticket types
  OfficialPrice,    \* PASS_TIER_PRICE_MINOR
  Catalogues,       \* the tables ticket_types to start from
  Changes,          \* what may be typed into the editor, see Typed
  MaxSold,          \* bound: reservations of one pass
  Calls,            \* bound: slots for requests under way
  NoPass, NoCall

Tiers == {"student", "standard", "vip"}
Empty == ""            \* a field nothing was typed in
Text == Tiers \cup {Empty, "none", "own"}
PassRow ==
  [tier : Tiers \cup {"none"}, kind : {"ticket", "goodie"}, name : Text, description : Text,
   price : Nat, total : Nat, sold : 0 .. MaxSold, status : {"active", "inactive"}]
Draft ==
  [tier : Tiers \cup {"none"}, kind : {"ticket", "goodie"}, name : Text, description : Text,
   price : Nat, total : Nat, status : {"active", "inactive"}]
Untiered ==
  [kind : {"ticket", "goodie"}, name : Text, description : Text, price : Nat, total : Nat,
   status : {"active", "inactive"}]
Setting == {Empty, "own", "kept"}
EventRow == [title : Setting, venue : Setting, status : {"draft", "published"}]

\* A request: what it asks for, what has become of it and what it has found.
NoBody == <<>>
PassBody == Draft \cup Untiered \cup [status : {"inactive"}]
Body == PassBody \cup [title : Setting, venue : Setting] \cup {NoBody}
Entry == [id : Passes, pass : PassRow]
Request ==
  [op : {"list", "save", "create", "close", "delete", "patch", "event", "read", "write", "publish"},
   id : Passes \cup {NoPass}, body : Body, step : {"sent", "read", "done", "refused"},
   found : PassRow \cup EventRow \cup (SUBSET Entry) \cup {NoPass}, alone : BOOLEAN, fresh : BOOLEAN]

VARIABLES
  page,             \* the page of the administration that is open
  passes,           \* table ticket_types
  ordered,          \* the passes order_items refer to
  event,            \* the row of the event
  served,           \* the server's last answer to GET /events/{slug}
  calls,
  eventId, resolving,       \* EventContext: whether it has the event; loading
  catalog,          \* TicketTypesPage: rows, loading, error; history: current
  editor,           \* TicketTypesPage: editorOpen, editingId, draft, saving
  settings          \* EventSettingsPage: fields, event?.status, saving; history: the fields
                    \* that were typed in, filled (by a read) and blind (saved when not filled)

catalogServer == <<passes, ordered, event, served>>
catalogPage == <<catalog, editor>>
catalogVars == <<page, catalogServer, calls, eventId, resolving, catalogPage, settings>>

-----------------------------------------------------------------------------
(* Ticket types on the server. *)

Get(body, field, default) == IF field \in DOMAIN body THEN body[field] ELSE default
Rows(table) == {[id |-> i, pass |-> table[i]] : i \in {j \in Passes : table[j] # NoPass}}

\* _validate_ticket_type_input, on what distinguishes bodies here.
ValidInput(price, tier) == tier = "student" => price = 0

\* update_ticket_type: a body without a name raises KeyError, after the other checks.
Accepts(body, row) ==
  /\ ValidInput(Get(body, "price", row.price), Get(body, "tier", row.tier))
  /\ Get(body, "total", row.total) >= row.sold
  /\ "name" \in DOMAIN body

EmptyDraft == [name |-> Empty, description |-> Empty, price |-> 0, total |-> 0, tier |-> "student",
               status |-> "active", kind |-> "ticket"]

\* The row update_ticket_type writes: what it read, with the body over it, all columns
\* but quantity_sold.
Overlay(body, row) == [f \in DOMAIN row |-> Get(body, f, row[f])]
ChangedColumns(body, read, row) == Overlay(body, row)           \* mutated form
UpdatedRow(body, read, row) ==
  [Overlay(body, read) EXCEPT !.sold = row.sold, !.description = Get(body, "description", "none")]

ASSUME CatalogAssumption ==
  /\ OfficialPrice \in [Tiers -> Nat] /\ ValidInput(OfficialPrice["student"], "student")
  /\ Catalogues \subseteq [Passes -> PassRow \cup {NoPass}] /\ NoPass \notin PassRow \cup Passes
  /\ \A table \in Catalogues : \A i \in Passes :
       table[i] # NoPass => ValidInput(table[i].price, table[i].tier)
  /\ \A change \in Changes, draft \in {EmptyDraft} : Overlay(change, draft) \in Draft
  /\ MaxSold \in Nat /\ Calls \subseteq Nat /\ {1, 2} \subseteq Calls /\ NoCall \notin Request

\* ensure_festival_pass_products, for one tier.  Of several passes of a tier it takes the
\* last one listed.
EnsureTier(acc, tier) ==
  LET table == acc.passes
      mine == {i \in Passes : table[i] # NoPass /\ table[i].tier = tier}
      free == {i \in Passes : table[i] = NoPass}
      official == [tier |-> tier, kind |-> "ticket", name |-> tier, description |-> tier,
                   price |-> OfficialPrice[tier], total |-> 0, sold |-> 0, status |-> "active"]
  IN IF acc.failed \/ (mine = {} /\ free = {}) THEN acc
     ELSE IF mine = {} THEN [acc EXCEPT !.passes[CHOOSE i \in free : TRUE] = official]
     ELSE LET i == CHOOSE j \in mine : TRUE
              row == table[i]
              wrong == {f \in {"price", "name", "description"} : row[f] # official[f]}
              patch == [f \in wrong |-> official[f]]
          IN IF wrong = {} THEN acc
             ELSE IF ~Accepts(patch, row) THEN [acc EXCEPT !.failed = TRUE]
             ELSE [acc EXCEPT !.passes[i] = UpdatedRow(patch, row, row)]

\* GET /events/{slug} for everybody: the storefront and EventContext.
Ensured ==
  LET before == [passes |-> passes, failed |-> FALSE]
  IN EnsureTier(EnsureTier(EnsureTier(before, "student"), "standard"), "vip")
GetEvent(ok) ==
  IF event.status # "published"
  THEN ok = TRUE /\ UNCHANGED <<passes, served>>        \* an administrator's
  ELSE /\ ok = ~Ensured.failed
       /\ passes' = Ensured.passes
       /\ served' = IF ok THEN "event" ELSE "error"

-----------------------------------------------------------------------------
(* Requests. *)

Call(op, id, body) == [op |-> op, id |-> id, body |-> body, step |-> "sent", found |-> NoPass,
                       alone |-> TRUE, fresh |-> TRUE]
Under(op) == {c \in Calls : calls[c] # NoCall /\ calls[c].op = op}
Sent(c, op) == c \in Under(op) /\ calls[c].step = "sent"
ReadBy(c, op) == c \in Under(op) /\ calls[c].step = "read"
Answer(c, step, found) == calls' = [calls EXCEPT ![c].step = step, ![c].found = found]

\* A change by somebody else: lists that were read before no longer show it.
Outdated(cs) == [c \in Calls |-> IF cs[c] = NoCall THEN NoCall ELSE [cs[c] EXCEPT !.fresh = FALSE]]
SomebodyElse ==
  /\ calls' = Outdated(calls)
  /\ catalog' = [catalog EXCEPT !.current = FALSE]

\* loadData in slot c: without an event, requireEventId throws.  Two lists under way may
\* come in any order.
LoadData(c, known) ==
  IF ~known
  THEN /\ calls' = [calls EXCEPT ![c] = NoCall]
       /\ catalog' = [catalog EXCEPT !.loading = FALSE, !.error = TRUE]
  ELSE /\ calls' = [d \in Calls |->
            IF d = c THEN [Call("list", NoPass, NoBody) EXCEPT !.alone = Under("list") \ {c} = {}]
            ELSE IF d \in Under("list") THEN [calls[d] EXCEPT !.alone = FALSE]
            ELSE calls[d]]
       /\ catalog' = [catalog EXCEPT !.loading = TRUE, !.error = FALSE]

\* GET /events/{id}/ticket-types.
ListTicketTypes(c) ==
  /\ Sent(c, "list")
  /\ calls' = [calls EXCEPT ![c].step = "done", ![c].found = Rows(passes), ![c].fresh = TRUE]
  /\ UNCHANGED <<catalogServer, eventId, resolving, catalogPage, settings>>

\* PATCH /ticket-types/{id}: "save" of the page, "close" its closeSales, "patch" of another
\* administrator.  The row is read and checked, then written.
ReadPass(c) ==
  /\ \E op \in {"save", "close", "patch"} : Sent(c, op)
  /\ LET row == passes[calls[c].id]
     IN IF row # NoPass /\ Accepts(calls[c].body, row)
        THEN Answer(c, "read", row) ELSE Answer(c, "refused", NoPass)
  /\ UNCHANGED <<catalogServer, eventId, resolving, catalogPage, settings>>

WritePass(c) ==
  /\ \E op \in {"save", "close", "patch"} : ReadBy(c, op)
  /\ LET call == calls[c] row == passes[call.id]
         own == call.op # "patch"
         answered == [calls EXCEPT ![c].step = IF row = NoPass THEN "refused" ELSE "done"]
     IN /\ passes' = IF row = NoPass THEN passes
                     ELSE [passes EXCEPT ![call.id] = UpdatedRow(call.body, call.found, row)]
        /\ calls' = IF own THEN answered ELSE Outdated(answered)
        /\ catalog' = [catalog EXCEPT !.current = @ /\ own]
  /\ UNCHANGED <<ordered, event, served, eventId, resolving, editor, settings>>

NewRow(body) ==
  [tier |-> Get(body, "tier", "none"), kind |-> body.kind, name |-> body.name,
   description |-> body.description, price |-> body.price, total |-> body.total, sold |-> 0,
   status |-> body.status]

CreatePass(c) ==
  /\ Sent(c, "create")
  /\ LET row == NewRow(calls[c].body)
     IN IF ValidInput(row.price, row.tier)
        THEN /\ \E i \in Passes : passes[i] = NoPass /\ passes' = [passes EXCEPT ![i] = row]
             /\ Answer(c, "done", NoPass)
        ELSE Answer(c, "refused", NoPass) /\ UNCHANGED passes
  /\ UNCHANGED <<ordered, event, served, eventId, resolving, catalogPage, settings>>

\* DELETE /ticket-types/{id}: refused for a pass that has sales, by the check or by the
\* foreign key of order_items.
ReadDeleted(c) ==
  /\ Sent(c, "delete")
  /\ LET row == passes[calls[c].id]
     IN IF row # NoPass /\ row.sold = 0 THEN Answer(c, "read", row)
        ELSE Answer(c, "refused", NoPass)
  /\ UNCHANGED <<catalogServer, eventId, resolving, catalogPage, settings>>

DeletePass(c) ==
  /\ ReadBy(c, "delete")
  /\ IF calls[c].id \in ordered \/ passes[calls[c].id] = NoPass
     THEN Answer(c, "refused", NoPass) /\ UNCHANGED passes
     ELSE /\ passes' = [passes EXCEPT ![calls[c].id] = NoPass]
          /\ Answer(c, "done", NoPass)
  /\ UNCHANGED <<ordered, event, served, eventId, resolving, catalogPage, settings>>

\* GET /events/{id} of EventContext ("event") and of EventSettingsPage ("read").
ReadEvent(c) ==
  /\ Sent(c, "event") \/ Sent(c, "read")
  /\ \E ok \in BOOLEAN :
       /\ GetEvent(ok)
       /\ calls' = [(IF passes' = passes THEN calls ELSE Outdated(calls))
                     EXCEPT ![c].step = IF ok THEN "done" ELSE "refused", ![c].found = event]
  /\ catalog' = [catalog EXCEPT !.current = @ /\ passes' = passes]
  /\ UNCHANGED <<ordered, event, eventId, resolving, editor, settings>>

\* PATCH /events/{id}: update reads the row, checks the title, and writes every column.

UpdateEvent(c) ==
  /\ Sent(c, "write")
  /\ IF calls[c].body.title = Empty THEN Answer(c, "refused", NoPass) ELSE Answer(c, "read", event)
  /\ UNCHANGED <<catalogServer, eventId, resolving, catalogPage, settings>>

WriteEvent(c) ==
  /\ ReadBy(c, "write")
  /\ event' = Overlay(calls[c].body, calls[c].found)
  /\ Answer(c, "done", event')
  /\ UNCHANGED <<passes, ordered, served, eventId, resolving, catalogPage, settings>>

PublishEvent(c) ==
  /\ Sent(c, "publish")
  /\ event' = [event EXCEPT !.status = "published"]
  /\ Answer(c, "done", event')
  /\ UNCHANGED <<passes, ordered, served, eventId, resolving, catalogPage, settings>>

\* The network fails, before the server acted or after.
CallFails(c) ==
  /\ calls[c] # NoCall /\ calls[c].step \in {"sent", "done"}
  /\ LET lost == calls[c].step = "done"
     IN /\ calls' = [(IF lost THEN Outdated(calls) ELSE calls) EXCEPT ![c].step = "refused"]
        /\ catalog' = [catalog EXCEPT !.current = @ /\ ~lost]
  /\ UNCHANGED <<catalogServer, eventId, resolving, editor, settings>>

-----------------------------------------------------------------------------
(* Somebody else. *)

\* Buyers reserve a pass, and their reservation is given back.
Sell(i) ==
  /\ passes[i] # NoPass /\ passes[i].status = "active" /\ passes[i].sold < MaxSold
  /\ passes[i].total = 0 \/ passes[i].sold < passes[i].total
  /\ passes' = [passes EXCEPT ![i].sold = @ + 1]
  /\ ordered' = ordered \cup {i}
  /\ SomebodyElse
  /\ UNCHANGED <<event, served, eventId, resolving, editor, settings>>

Release(i) ==
  /\ passes[i] # NoPass /\ passes[i].sold > 0
  /\ passes' = [passes EXCEPT ![i].sold = @ - 1]
  /\ SomebodyElse
  /\ UNCHANGED <<ordered, event, served, eventId, resolving, editor, settings>>

Visit ==
  /\ event.status = "published"
  /\ \E ok \in BOOLEAN : GetEvent(ok)
  /\ IF passes' = passes THEN UNCHANGED <<calls, catalog>> ELSE SomebodyElse
  /\ UNCHANGED <<ordered, event, eventId, resolving, editor, settings>>

-----------------------------------------------------------------------------
(* TicketTypesPage. *)

\* isPublicCatalogTicket: what formatCatalogTicketTypes leaves of the rows.
Shown(rows) == {r \in rows : r.pass.kind = "goodie" \/ r.pass.tier \in {"student", "vip"}}

\* computeTicketTypeGauge.
Gauge(pass) ==
  IF pass.total <= 0 THEN [unlimited |-> TRUE, bar |-> IF pass.sold > 0 THEN 100 ELSE 0]
  ELSE LET percent == (200 * pass.sold + pass.total) \div (2 * pass.total)
       IN [unlimited |-> FALSE, bar |-> IF percent > 100 THEN 100 ELSE percent]
Remaining(pass) == IF pass.total > pass.sold THEN pass.total - pass.sold ELSE 0
SoldOut(pass) == ~Gauge(pass).unlimited /\ Remaining(pass) = 0

CatalogView ==
  IF catalog.loading THEN "skeleton"
  ELSE IF catalog.error THEN "error"
  ELSE IF Shown(catalog.rows) = {} THEN "empty" ELSE "cards"

\* The rows whose card is on the page.
Cards == IF CatalogView = "cards" THEN Shown(catalog.rows) ELSE {}

\* A request takes the first slot that is free.
Free(c) == calls[c] = NoCall /\ \A d \in Calls : d < c => calls[d] # NoCall
Send(c, call) == Free(c) /\ calls' = [calls EXCEPT ![c] = call]

NoEditor == [open |-> FALSE, editing |-> NoPass, draft |-> EmptyDraft, origin |-> NoPass,
             saving |-> FALSE]

OpenCreate ==
  /\ editor' = [editor EXCEPT !.open = TRUE, !.editing = NoPass, !.draft = EmptyDraft,
                              !.origin = NoPass]
  /\ UNCHANGED <<catalogServer, calls, eventId, resolving, catalog, settings>>

DraftOf(pass) == [f \in DOMAIN EmptyDraft |-> pass[f]]
OpenEdit(row) ==
  /\ row \in Cards
  /\ editor' = [editor EXCEPT !.open = TRUE, !.editing = row.id, !.draft = DraftOf(row.pass),
                              !.origin = row.id]
  /\ UNCHANGED <<catalogServer, calls, eventId, resolving, catalog, settings>>

Cancel ==
  /\ editor.open
  /\ editor' = [editor EXCEPT !.open = FALSE]
  /\ UNCHANGED <<catalogServer, calls, eventId, resolving, catalog, settings>>

\* The fields of the editor: choosing the student tier makes the pass free, and hides its
\* price.
Typed(draft, change) ==
  LET next == Overlay(change, draft)
  IN IF "tier" \in DOMAIN change /\ next.tier = "student" THEN [next EXCEPT !.price = 0] ELSE next
MayType(draft, change) == "price" \in DOMAIN change => draft.tier # "student"

Type(change) ==
  /\ editor.open /\ MayType(editor.draft, change)
  /\ editor' = [editor EXCEPT !.draft = Typed(@, change)]
  /\ UNCHANGED <<catalogServer, calls, eventId, resolving, catalog, settings>>

\* saveDraft; a pass without a tier is saved without that field.
BodyOf(draft) ==
  [f \in IF draft.tier = "none" THEN DOMAIN draft \ {"tier"} ELSE DOMAIN draft |->
     IF f = "price" /\ draft.tier = "student" THEN 0 ELSE draft[f]]

SaveDraft(c) ==
  /\ editor.open /\ ~editor.saving /\ eventId /\ editor.draft.name # Empty
  /\ Send(c, Call(IF editor.editing = NoPass THEN "create" ELSE "save", editor.editing,
                  BodyOf(editor.draft)))
  /\ editor' = [editor EXCEPT !.saving = TRUE]
  /\ UNCHANGED <<catalogServer, eventId, resolving, catalog, settings>>

CloseSales(c, row) ==
  /\ row \in Cards /\ row.pass.status = "active"
  /\ Send(c, Call("close", row.id, [status |-> "inactive"]))
  /\ UNCHANGED <<catalogServer, eventId, resolving, catalogPage, settings>>

RemovePass(c, row) ==
  /\ row \in Cards /\ row.pass.sold = 0
  /\ Send(c, Call("delete", row.id, NoBody))
  /\ UNCHANGED <<catalogServer, eventId, resolving, catalogPage, settings>>

\* onRetry of the error.
RetryCatalog(c) ==
  /\ CatalogView = "error" /\ Free(c)
  /\ LoadData(c, eventId)
  /\ UNCHANGED <<catalogServer, eventId, resolving, editor, settings>>

\* Another administrator saves the pass from the same page.
OtherSaves(c, i, change) ==
  /\ passes[i] # NoPass /\ MayType(DraftOf(passes[i]), change)
  /\ Send(c, Call("patch", i, BodyOf(Typed(DraftOf(passes[i]), change))))
  /\ UNCHANGED <<catalogServer, eventId, resolving, catalogPage, settings>>

-----------------------------------------------------------------------------
(* Answers. *)

Finished(c, op) == c \in Under(op) /\ calls[c].step \in {"done", "refused"}
Ok(c) == calls[c].step = "done"
Taken(c) == calls' = [calls EXCEPT ![c] = NoCall]

ListReturns(c) ==
  /\ Finished(c, "list")
  /\ catalog' = IF Ok(c)
                THEN [catalog EXCEPT !.rows = calls[c].found, !.loading = FALSE,
                                     !.current = calls[c].fresh /\ calls[c].alone]
                ELSE [catalog EXCEPT !.loading = FALSE, !.error = TRUE]
  /\ Taken(c)
  /\ UNCHANGED <<catalogServer, eventId, resolving, editor, settings>>

SaveReturns(c) ==
  /\ Finished(c, "save") \/ Finished(c, "create")
  /\ editor' = [editor EXCEPT !.saving = FALSE, !.open = @ /\ ~Ok(c)]
  /\ IF Ok(c) THEN LoadData(c, eventId) ELSE Taken(c) /\ UNCHANGED catalog
  /\ UNCHANGED <<catalogServer, eventId, resolving, settings>>

ChangeReturns(c) ==
  /\ Finished(c, "close") \/ Finished(c, "delete")
  /\ IF Ok(c) THEN LoadData(c, eventId) ELSE Taken(c) /\ UNCHANGED catalog
  /\ UNCHANGED <<catalogServer, eventId, resolving, editor, settings>>

\* EventContext has its event, or not; the effects of the open page follow eventId.
ResolveReturns(c) ==
  /\ Finished(c, "event")
  /\ eventId' = Ok(c) /\ resolving' = FALSE
  /\ IF page = "passes" /\ eventId' # eventId
     THEN LoadData(c, eventId')
     ELSE /\ UNCHANGED catalog
          /\ calls' = [calls EXCEPT ![c] =
               IF page = "settings" /\ eventId' /\ ~eventId THEN Call("read", NoPass, NoBody) ELSE NoCall]
  /\ UNCHANGED <<catalogServer, editor, settings>>

OtherReturns(c) ==
  /\ Finished(c, "patch")
  /\ Taken(c)
  /\ UNCHANGED <<catalogServer, eventId, resolving, catalogPage, settings>>

-----------------------------------------------------------------------------
(* EventSettingsPage.  A read that fails leaves the fields blank. *)

BlankSettings == [title |-> Empty, venue |-> Empty, status |-> Empty, saving |-> FALSE,
                  typed |-> {}, filled |-> FALSE, blind |-> FALSE]

SettingsView == IF resolving THEN "loading" ELSE IF ~eventId THEN "error" ELSE "form"

TypeSetting(field, text) ==
  /\ SettingsView = "form"
  /\ settings' = [settings EXCEPT ![field] = text, !.typed = @ \cup {field}]
  /\ UNCHANGED <<catalogServer, calls, eventId, resolving, catalogPage>>

SaveSettings(c) ==
  /\ SettingsView = "form" /\ ~settings.saving
  /\ Send(c, Call("write", NoPass, [title |-> settings.title, venue |-> settings.venue]))
  /\ settings' = [settings EXCEPT !.saving = TRUE,
                                  !.blind = @ \/ (~settings.filled /\ settings.title # Empty)]
  /\ UNCHANGED <<catalogServer, eventId, resolving, catalogPage>>

Publish(c) ==
  /\ SettingsView = "form" /\ settings.status # "published"
  /\ Send(c, Call("publish", NoPass, NoBody))
  /\ UNCHANGED <<catalogServer, eventId, resolving, catalogPage, settings>>

SettingsReturn(c) ==
  /\ \/ /\ Finished(c, "read")
        /\ settings' = IF Ok(c) THEN [Overlay(calls[c].found, settings) EXCEPT !.filled = TRUE] ELSE settings
     \/ /\ Finished(c, "write")
        /\ settings' = [settings EXCEPT !.saving = FALSE,
                                        !.status = IF Ok(c) THEN calls[c].found.status ELSE @]
     \/ /\ Finished(c, "publish")
        /\ settings' = [settings EXCEPT !.status = IF Ok(c) THEN calls[c].found.status ELSE @]
  /\ Taken(c)
  /\ UNCHANGED <<catalogServer, eventId, resolving, catalogPage>>

-----------------------------------------------------------------------------
(* Where it starts. *)

CatalogStarts ==
  /\ passes \in Catalogues /\ ordered = {i \in Passes : passes[i] # NoPass /\ passes[i].sold > 0}
  /\ event \in [title : {"kept"}, venue : {"kept"}, status : {"draft", "published"}]
  /\ served = "none" /\ settings = BlankSettings

\* A page that has just loaded: its first effects, with or without an event in localStorage.
ColdStart ==
  /\ CatalogStarts
  /\ eventId \in BOOLEAN /\ resolving = TRUE
  /\ catalog = [rows |-> {}, loading |-> eventId, error |-> ~eventId, current |-> FALSE]
  /\ editor = NoEditor
  /\ calls = [c \in Calls |->
       CASE c = 1 -> Call("event", NoPass, NoBody)
         [] c = 2 /\ eventId -> Call(IF page = "settings" THEN "read" ELSE "list", NoPass, NoBody)
         [] OTHER -> NoCall]

\* A draft as it was opened, or with one thing typed over it.
TypedDrafts(draft) ==
  {draft} \cup {Typed(draft, change) : change \in {ch \in Changes : MayType(draft, ch)}}

\* TicketTypesPage when that is done, the editor closed, open or typed in.  The event is
\* published: while it is not, the same happens here but for Visit.
WarmStart ==
  /\ page = "passes" /\ CatalogStarts /\ event.status = "published"
  /\ eventId = TRUE /\ resolving = FALSE
  /\ catalog = [rows |-> Rows(passes), loading |-> FALSE, error |-> FALSE, current |-> TRUE]
  /\ editor \in {NoEditor} \cup
       {[NoEditor EXCEPT !.open = TRUE, !.editing = e.row.id, !.draft = e.draft, !.origin = e.row.id] :
          e \in UNION {{[row |-> r, draft |-> d] : d \in TypedDrafts(DraftOf(r.pass))} :
                        r \in Shown(Rows(passes))}}
  /\ calls = [c \in Calls |-> NoCall]

\* Another part of the administration is open.
CatalogClosed ==
  /\ CatalogStarts /\ passes = CHOOSE table \in Catalogues : TRUE
  /\ event = [title |-> "kept", venue |-> "kept", status |-> "published"]
  /\ eventId = TRUE /\ resolving = FALSE
  /\ catalog = [rows |-> {}, loading |-> FALSE, error |-> FALSE, current |-> FALSE]
  /\ editor = NoEditor /\ calls = [c \in Calls |-> NoCall]

\* What comes by itself: steps of the server, failures, and answers.
CatalogAnswers ==
  \E c \in Calls :
    \/ ListTicketTypes(c) \/ ReadPass(c) \/ WritePass(c) \/ CreatePass(c) \/ ReadDeleted(c)
    \/ DeletePass(c) \/ ReadEvent(c) \/ UpdateEvent(c) \/ WriteEvent(c) \/ PublishEvent(c)
    \/ ResolveReturns(c) \/ ListReturns(c) \/ SaveReturns(c)
    \/ ChangeReturns(c) \/ SettingsReturn(c) \/ OtherReturns(c)

\* What somebody decides to do, and failures.
PassesPage ==
  \/ OpenCreate \/ Cancel \/ \E change \in Changes : Type(change)
  \/ \E row \in Cards : OpenEdit(row)
  \/ \E c \in Calls : SaveDraft(c) \/ RetryCatalog(c)
  \/ \E c \in Calls, row \in Cards : CloseSales(c, row) \/ RemovePass(c, row)

SettingsPage ==
  \/ \E field \in {"title", "venue"}, text \in {Empty, "own"} : TypeSetting(field, text)
  \/ \E c \in Calls : SaveSettings(c) \/ Publish(c)

CatalogOthers ==
  \/ \E i \in Passes : Sell(i) \/ Release(i)
  \/ \E c \in Calls, i \in Passes, change \in Changes : OtherSaves(c, i, change)
  \/ Visit

CatalogInitiatives ==
  \/ page = "passes" /\ CatalogOthers
  \/ page = "passes" /\ PassesPage
  \/ page = "settings" /\ SettingsPage
  \/ \E c \in Calls : CallFails(c)

-----------------------------------------------------------------------------
(* Properties. *)

\* Passes and the pages' state keep their types; the draft is one the editor can hold.
CatalogTypeOK ==
  /\ ordered \subseteq Passes
  /\ eventId \in BOOLEAN /\ resolving \in BOOLEAN
  /\ \A i \in Passes : passes[i] # NoPass =>
       passes[i].price \in Nat /\ passes[i].total \in Nat /\ passes[i].sold \in 0 .. MaxSold
  /\ catalog.loading /\ page = "passes" => Under("list") # {}
  /\ editor.saving <=> Under("save") \cup Under("create") # {}

\* A student pass is free, whatever is saved at the same time from pages that know an
\* older tier or price: update_ticket_type writes the whole row it checked.
StudentPassesAreFree ==
  \A i \in Passes : passes[i] # NoPass => ValidInput(passes[i].price, passes[i].tier)

\* A pass somebody has ordered is never deleted, even when the order comes between the
\* check of quantity_sold and the DELETE.
SoldPassesAreKept == \A i \in ordered : passes[i] # NoPass

\* The gauge of a card says sold out exactly when nothing is left, and its bar is full
\* then and never longer, also for a pass that sold more than its total.
GaugesAreHonest ==
  \A r \in Shown(catalog.rows) :
    /\ SoldOut(r.pass) <=> r.pass.total > 0 /\ r.pass.sold >= r.pass.total
    /\ Gauge(r.pass).bar <= 100
    /\ SoldOut(r.pass) => Gauge(r.pass).bar = 100

\* What is in the editor is saved over the pass it was opened from, and over no other.
DraftsGoToTheirPass == editor.open => editor.editing = editor.origin

\* The page shows what its own changes left: with no request under way and no error, the
\* cards are those of the table, unless somebody else changed it since, an answer was
\* lost, or two readings of the list overlapped.
OwnChangesAreShown ==
  page = "passes" /\ CatalogView \in {"cards", "empty"} /\ catalog.current
    /\ (\A c \in Calls : calls[c] # NoCall => calls[c].op \in {"event", "patch"})
  => Shown(catalog.rows) = Shown(Rows(passes))

\* A form that a read has filled erases nothing that was not typed over, whatever was saved,
\* published and read before, and in whichever order the answers come (see below for the form
\* that no read has filled).
FilledFormsEraseNothing == event.venue = Empty => "venue" \in settings.typed \/ settings.blind

\* The passes and what their page shows, while others order, edit and delete, answers are lost
\* and pages know an older table.
CatalogIsSound ==
  /\ CatalogTypeOK /\ StudentPassesAreFree /\ SoldPassesAreKept
  /\ GaugesAreHonest /\ DraftsGoToTheirPass /\ OwnChangesAreShown /\ FilledFormsEraseNothing

-----------------------------------------------------------------------------
(* Three statements of the source that the code does not keep, and that no run checks; TLC *)
(* refutes each of them when Administration.cfg lists it.                                  *)

\* TicketTypesPage.tsx:224, "Prix, quotas et activation des offres": after an offer is closed
\* or edited there the event can still be read.  Not so: closeSales sends no name, which
\* update_ticket_type requires (events/service.py:474), and is answered 500.
EventIsServed == served # "error"

\* events/service.py:298, "use Publish to publish; Update may only set status to cancelled":
\* an update never takes a published event back to draft.  Not so for an update that read the
\* draft before the publication and writes the whole row after it.
UpdatesDoNotUnpublish == [][event.status = "published" => event'.status = "published"]_event

\* EventSettingsPage.tsx:52, "Modifications enregistrées.": what is saved is what was modified.
\* Not so for a title typed into a form that no read has filled, because it failed (:21 has no
\* catch) or has not come yet: the venue is sent empty with it, and written.
FailedReadsEraseNothing == event.venue = Empty => "venue" \in settings.typed
=============================================================================
