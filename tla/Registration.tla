---------------------------- MODULE Registration ----------------------------
(***************************************************************************)
(* The registration form of the storefront: the wizard of eight steps      *)
(* (components/registration/RegistrationWizard.tsx), its validation, its   *)
(* session draft and its payload (lib/registration-form.ts), what the      *)
(* administration shows of it, and what the API accepts of it              *)
(* (backend/orders/registration.py).                                       *)
(*                                                                         *)
(* A text is "", "blank" (spaces only), "text", "padded" (a text between   *)
(* spaces), "long" (longer than the API takes where it has a limit) or,    *)
(* for the e-mail, "Address" (an address with a capital).                  *)
(*                                                                         *)
(* Two pages host the wizard: App in a dialog, InscriptionPage as its      *)
(* content.  A page that is left forgets its state, and the submission it  *)
(* awaits goes on.                                                         *)
(***************************************************************************)
EXTENDS Integers, Sequences, FiniteSets

CONSTANTS
  Varied,       \* bound: the fields a visitor changes
  Typed,        \* bound: the texts a visitor types
  Toggled,      \* bound: the options of lists a visitor toggles
  Drafts,       \* what sessionStorage may hold when the page is opened
  MaxOlder,     \* bound: submissions under way whose page was left
  NoDraft, NoForm

-----------------------------------------------------------------------------
\* The choices that are offered.
Options == [
  age_range |-> {"under_18", "18_24", "25_34", "35_plus"},
  gender |-> {"woman", "man", "prefer_not", "other"},
  country |-> {"West and central Africa", "North Africa", "France", "Canada", "Belgique", "Autre pays"},
  situation |-> {"student", "developer", "entrepreneur", "digital_pro", "other_pro",
                 "researcher", "job_seeker", "content_creator", "other"},
  digital_level |-> {"beginner", "learning", "intermediate", "experienced", "expert"},
  prior_participation |-> {"yes_2024", "yes_other", "first_time"},
  discovery_channel |-> {"facebook", "linkedin", "instagram", "whatsapp", "x", "telegram",
                         "website", "friend", "tech_community", "school", "company", "other"},
  stay_informed |-> {"yes", "no"},
  preferred_channel |-> {"whatsapp", "email", "telegram", "other"}]

ListOptions == [
  participation_reasons |-> {"learn_skills", "discover_digital", "understand_ai",
    "meet_professionals", "grow_network", "find_opportunities", "present_projects",
    "exchange_with_peers", "other"},
  topics |-> {"ai", "software", "cybersecurity", "data", "cloud", "open_source",
    "entrepreneurship", "fintech", "web_mobile", "digital_transformation", "jobs",
    "ai_society", "other"}]

Texts == {"last_name", "first_name", "city", "phone", "email", "activity_domain",
          "school_program", "expectations", "prior_liked", "want_to_meet", "referred_by"}
OfferedChoices == DOMAIN Options
Lists == DOMAIN ListOptions
Flags == {"consent_data_processing", "consent_marketing"}
Fields == Texts \cup OfferedChoices \cup Lists \cup Flags

EmptyForm == [f \in Fields |-> IF f \in Lists THEN {} ELSE IF f \in Flags THEN FALSE ELSE ""]

TextValues == {"", "blank", "text", "padded", "long", "Address"}

\* What a wizard of this version makes of a form.
IsForm(v) ==
  /\ v = [f \in Fields |-> v[f]]
  /\ \A f \in Texts : v[f] \in TextValues
  /\ \A f \in OfferedChoices : v[f] \in Options[f] \cup {""}
  /\ \A f \in Lists : v[f] \subseteq ListOptions[f]
  /\ \A f \in Flags : v[f] \in BOOLEAN

ASSUME RegistrationAssumption ==
  /\ Typed \subseteq TextValues
  /\ MaxOlder \in Nat
  /\ Varied \subseteq Fields
  /\ \A d \in Drafts : d = NoDraft \/ (IsForm(d.values) /\ d.step \in Int)

Steps == 0 .. 7

-----------------------------------------------------------------------------
\* The fields of each step, as the wizard renders them for the values so far.
IdentityFields == {"last_name", "first_name", "age_range", "gender", "country", "city"}
ContactFields == {"phone", "email"}
ProfileFields == {"situation", "activity_domain", "school_program", "digital_level"}
InterestFields == {"participation_reasons", "topics", "expectations"}
ExperienceFields(v) ==
  {"prior_participation", "want_to_meet"}
    \cup IF v["prior_participation"] \in {"yes_2024", "yes_other"} THEN {"prior_liked"} ELSE {}
DiscoveryFields == {"discovery_channel", "referred_by"}
CommunityFields(v) ==
  {"stay_informed", "consent_marketing"}
    \cup IF v["stay_informed"] = "yes" THEN {"preferred_channel"} ELSE {}
ConfirmationFields == {"consent_data_processing"}

Shown(v, s) ==
  CASE s = 0 -> IdentityFields
    [] s = 1 -> ContactFields
    [] s = 2 -> ProfileFields
    [] s = 3 -> InterestFields
    [] s = 4 -> ExperienceFields(v)
    [] s = 5 -> DiscoveryFields
    [] s = 6 -> CommunityFields(v)
    [] s = 7 -> ConfirmationFields

-----------------------------------------------------------------------------
\* validateRegistrationStep: the fields of a step that have an error.
Trim(t) == CASE t = "blank" -> "" [] t = "padded" -> "text" [] OTHER -> t
LooksLikeEmail(t) == t \in {"Address", "address"}

Required == {"last_name", "first_name", "age_range", "country", "city", "phone", "email",
             "situation", "activity_domain", "digital_level", "participation_reasons", "topics",
             "expectations", "prior_participation", "discovery_channel", "stay_informed",
             "consent_data_processing"}

Missing(v, f) ==
  CASE f \in Texts -> Trim(v[f]) = ""
    [] f \in Lists -> v[f] = {}
    [] f \in Flags -> ~v[f]
    [] OTHER -> v[f] = ""

ErrorsOfRequired(s, v) ==                    \* mutated form: preferred_channel is forgotten
  {f \in Shown(v, s) :
     \/ f \in Required /\ Missing(v, f)
     \/ f = "email" /\ ~LooksLikeEmail(v[f])}
StepErrors(s, v) ==
  {f \in Shown(v, s) :
     \/ f \in Required /\ Missing(v, f)
     \/ f = "email" /\ ~LooksLikeEmail(v[f])
     \/ f = "preferred_channel" /\ v["stay_informed"] = "yes" /\ Missing(v, f)}

InvalidSteps(v) == {s \in Steps : StepErrors(s, v) # {}}

\* toRegistrationFormPayload: texts trimmed, the address in lower case, "yes" a boolean.
Payload(v) ==
  [f \in Fields |->
     CASE f = "email" -> IF v[f] = "Address" THEN "address" ELSE Trim(v[f])
       [] f = "stay_informed" -> IF v[f] = "yes" THEN "true" ELSE "false"
       [] f \in Texts \ {"email"} -> Trim(v[f])
       [] OTHER -> v[f]]

-----------------------------------------------------------------------------
\* What the API keeps of a form and what it asks of it: normalize_full_form with
\* required = True.  A choice that is not in a list of the API counts as absent, and
\* some of the texts have a limit (_check_len), which the wizard does not know.
Limited == {"last_name", "first_name", "city", "phone", "school_program", "expectations",
            "prior_liked"}

Allowed == [
  age_range |-> {"under_18", "18_24", "25_34", "35_plus"},
  gender |-> {"woman", "man", "prefer_not", "other"},
  situation |-> {"student", "developer", "entrepreneur", "digital_pro", "other_pro",
                 "researcher", "job_seeker", "content_creator", "other"},
  digital_level |-> {"beginner", "learning", "intermediate", "experienced", "expert"},
  participation_reasons |-> {"learn_skills", "discover_digital", "understand_ai",
    "meet_professionals", "grow_network", "find_opportunities", "present_projects",
    "exchange_with_peers", "other"},
  topics |-> {"ai", "software", "cybersecurity", "data", "cloud", "open_source",
    "entrepreneurship", "fintech", "web_mobile", "digital_transformation", "jobs",
    "ai_society", "other"},
  prior_participation |-> {"yes_2024", "yes_other", "first_time"},
  discovery_channel |-> {"facebook", "linkedin", "instagram", "whatsapp", "x", "telegram",
                         "website", "friend", "tech_community", "school", "company", "other"},
  preferred_channel |-> {"whatsapp", "email", "telegram", "other"}]

Normalized(p) ==
  [f \in Fields |->
     CASE f \in Lists -> p[f] \cap Allowed[f]
       [] f \in DOMAIN Allowed \ Lists -> IF p[f] \in Allowed[f] THEN p[f] ELSE ""
       [] f = "stay_informed" -> IF p[f] \in {"true", "yes"} THEN "true"
                                 ELSE IF p[f] \in {"false", "no"} THEN "false" ELSE "none"
       [] f = "email" -> IF p[f] = "Address" THEN "address" ELSE Trim(p[f])
       [] f \in Texts \ {"email"} -> Trim(p[f])
       [] OTHER -> p[f]]

ApiAccepts(p) ==
  LET n == Normalized(p)
  IN /\ \A f \in {"last_name", "first_name", "age_range", "country", "city", "phone", "situation",
                  "activity_domain", "digital_level", "expectations", "prior_participation",
                  "discovery_channel"} : n[f] # ""
     /\ LooksLikeEmail(n["email"])
     /\ \A f \in Lists : n[f] # {}
     /\ n["stay_informed"] # "none"
     /\ n["stay_informed"] = "true" => n["preferred_channel"] # ""
     /\ n["consent_data_processing"]
     /\ \A f \in Limited : n[f] # "long"

\* What the administration shows of a stored form: the rows that are not empty
\* (registrationFormDisplayRows), the same columns as the export.
StayLabelOfForm(stay) ==                     \* mutated form: the values of the form only
  CASE stay = "yes" -> "Oui" [] stay = "no" -> "Non" [] OTHER -> ""
StayLabel(stay) ==
  CASE stay \in {"true", "yes"} -> "Oui"
    [] stay \in {"false", "no"} -> "Non"
    [] OTHER -> ""

DisplayedFields(p) ==
  {f \in Fields : CASE f = "stay_informed" -> StayLabel(p[f]) # ""
                    [] f \in Lists -> p[f] # {}
                    [] f \in Flags -> TRUE
                    [] OTHER -> Trim(p[f]) # ""}

-----------------------------------------------------------------------------
VARIABLES
  host,         \* the page that is open: "app" or "inscription"
  mounted,      \* the wizard is on the page
  values, step, errors,
  draft,        \* sessionStorage: [values, step] or NoDraft
  submitting,   \* the page is handling a submission
  submitted,    \* the form it handles, NoForm when it handles none
  older,        \* the submissions of pages that were left
  erased        \* history: a success erased the draft since the wizard saved it

regVars == <<host, mounted, values, step, errors, draft, submitting, submitted, older, erased>>

Clamp(s) == IF s < 0 THEN 0 ELSE IF s > 7 THEN 7 ELSE s

\* The effect of the wizard saves what is on the screen.
Saved(v, s) == draft' = [values |-> v, step |-> s] /\ erased' = FALSE

\* A new wizard starts from the draft, and its effect saves what it starts with.
Mounted(d) ==
  LET v == IF d = NoDraft THEN EmptyForm ELSE d.values
      s == IF d = NoDraft THEN 0 ELSE Clamp(d.step)
  IN /\ mounted' = TRUE
     /\ values' = v
     /\ step' = s
     /\ errors' = {}
     /\ Saved(v, s)

\* The state of a wizard is gone with it.
Unmounted ==
  /\ mounted' = FALSE
  /\ values' = EmptyForm /\ step' = 0 /\ errors' = {}

RegInit ==
  /\ host = "app"
  /\ mounted = FALSE
  /\ values = EmptyForm /\ step = 0 /\ errors = {}
  /\ draft \in Drafts
  /\ submitting = FALSE
  /\ submitted = NoForm
  /\ older = 0
  /\ erased = FALSE

\* InscriptionPage shows the wizard at once, App when a listing is chosen.
Rendered ==
  IF host' = "inscription" THEN Mounted(draft) ELSE Unmounted /\ UNCHANGED <<draft, erased>>

\* A listing is chosen (beginCheckout of App), or the address of the page names another
\* one (InscriptionPage): the key of the wizard changes.
Open ==
  /\ Mounted(draft)
  /\ UNCHANGED <<host, submitting, submitted, older>>

\* The dialog is closed, by the visitor or when the payment starts: its draft stays.
Close ==
  /\ host = "app" /\ mounted
  /\ Unmounted
  /\ UNCHANGED <<host, draft, submitting, submitted, older, erased>>

\* The visitor goes to a page: the state of the former one is gone, not its submission.
Visit(h) ==
  /\ submitting => older < MaxOlder
  /\ host' = h
  /\ Rendered
  /\ submitting' = FALSE /\ submitted' = NoForm
  /\ older' = IF submitting THEN older + 1 ELSE older

\* The page is refreshed: only sessionStorage survives.
Refresh ==
  /\ UNCHANGED host
  /\ Rendered
  /\ submitting' = FALSE /\ submitted' = NoForm /\ older' = 0

Set(f, value) ==
  /\ values' = [values EXCEPT ![f] = value]
  /\ errors' = errors \ {f}
  /\ Saved(values', step)
  /\ UNCHANGED <<host, mounted, step, submitting, submitted, older>>

Editable(f) == mounted /\ f \in Varied /\ f \in Shown(values, step)

Type(f) ==
  /\ Editable(f) /\ f \in Texts
  /\ \E t \in Typed : (t = "Address" => f = "email") /\ Set(f, t)
\* SelectField: the menu of countries is made of the groups of Options["country"].
Selects == {"country", "situation", "discovery_channel"}
Select(f) ==
  /\ Editable(f) /\ f \in Selects
  /\ \E option \in Options[f] : Set(f, option)
Choose(f) ==
  /\ Editable(f) /\ f \in OfferedChoices \ Selects
  /\ \E option \in Options[f] : Set(f, option)
ToggleInList(f, option) ==
  /\ Editable(f) /\ f \in Lists /\ option \in ListOptions[f]
  /\ Set(f, IF option \in values[f] THEN values[f] \ {option} ELSE values[f] \cup {option})
Check(f) ==
  /\ Editable(f) /\ f \in Flags
  /\ Set(f, ~values[f])

\* The step and the errors move together, and the effect saves the step.
MoveTo(s, e) ==
  /\ step' = s
  /\ errors' = e
  /\ IF s = step THEN UNCHANGED <<draft, erased>> ELSE Saved(values, s)
  /\ UNCHANGED <<host, mounted, values, submitting, submitted, older>>

GoNext ==
  /\ mounted /\ ~submitting /\ step < 7
  /\ IF StepErrors(step, values) # {} THEN MoveTo(step, StepErrors(step, values))
                                     ELSE MoveTo(step + 1, {})

GoBack ==
  /\ mounted /\ ~submitting /\ step > 0
  /\ MoveTo(step - 1, {})

HandleFinish ==
  /\ mounted /\ ~submitting /\ step = 7
  /\ \/ \E s \in InvalidSteps(values) :
          /\ \A earlier \in InvalidSteps(values) : s <= earlier
          /\ MoveTo(s, StepErrors(s, values))
     \/ /\ InvalidSteps(values) = {}
        /\ submitting' = TRUE
        /\ submitted' = values
        /\ UNCHANGED <<host, mounted, values, step, errors, draft, older, erased>>

\* The page ends the submission.  A success erases the draft (showSuccess); App closes its
\* dialog, InscriptionPage leaves the form on the screen.  A failure keeps both.
SubmissionSucceeds ==
  /\ submitting
  /\ submitting' = FALSE /\ submitted' = NoForm
  /\ draft' = NoDraft /\ erased' = TRUE
  /\ IF host = "app" THEN Unmounted ELSE UNCHANGED <<mounted, values, step, errors>>
  /\ UNCHANGED <<host, older>>

SubmissionFails ==
  /\ submitting
  /\ submitting' = FALSE /\ submitted' = NoForm
  /\ UNCHANGED <<host, mounted, values, step, errors, draft, older, erased>>

\* A submission whose page was left ends: what it sets of that page is nobody's, and the
\* draft it erases may be that of another form.
OlderSubmissionEnds ==
  /\ older > 0
  /\ older' = older - 1
  /\ \/ draft' = NoDraft /\ erased' = TRUE
     \/ UNCHANGED <<draft, erased>>
  /\ UNCHANGED <<host, mounted, values, step, errors, submitting, submitted>>

RegNext ==
  \/ Open \/ Close \/ Refresh \/ GoNext \/ GoBack \/ HandleFinish
  \/ SubmissionSucceeds \/ SubmissionFails \/ OlderSubmissionEnds
  \/ \E h \in {"app", "inscription"} : Visit(h)
  \/ \E f \in Varied : Type(f) \/ Select(f) \/ Choose(f) \/ Check(f)
  \/ \E f \in Varied \cap Lists, option \in Toggled : ToggleInList(f, option)

\* Another form is open.
RegClosed ==
  /\ host = "app" /\ mounted = FALSE /\ values = EmptyForm /\ step = 0 /\ errors = {}
  /\ draft = NoDraft /\ submitting = FALSE /\ submitted = NoForm
  /\ older = 0 /\ erased = FALSE

-----------------------------------------------------------------------------
\* The wizard keeps its types.
RegTypeOK ==
  /\ host \in {"app", "inscription"}
  /\ mounted \in BOOLEAN /\ submitting \in BOOLEAN /\ erased \in BOOLEAN
  /\ IsForm(values) /\ (submitted = NoForm \/ IsForm(submitted))
  /\ step \in Steps
  /\ errors \subseteq Fields
  /\ older \in Nat

\* The texts of a form that the API has no room for.
TooLong(v) == {f \in Limited : v[f] = "long"}

\* Of a form that passes the wizard (firstInvalidRegistrationStep) the API refuses nothing
\* but a text that is too long (normalize_full_form), for every choice that is offered and
\* whatever order the steps were filled in: but for lengths the two validations, in two
\* languages, agree.
SubmittedFormsAreAccepted ==
  submitted # NoForm => (ApiAccepts(Payload(submitted)) <=> TooLong(submitted) = {})

\* Not kept, and checked by no run (TLC refutes it when BuyerForms.cfg lists it).
\* registration-form.ts:3: keys and values are exactly those of the schema the API
\* validates.  The wizard bounds no text, and may not even show the one that is too long.
FormsFitTheSchema == submitted # NoForm => ApiAccepts(Payload(submitted))

\* Nothing a visitor answered is missing from what the API stores of it
\* (normalize_full_form) and the administration shows (registrationFormDisplayRows).
AnswersAreDisplayed ==
  submitted # NoForm =>
    {f \in Fields \ Flags : ~Missing(submitted, f)} \subseteq DisplayedFields(Normalized(Payload(submitted)))

\* Errors are shown on the step that has the field (goNext, goBack, handleFinish).
ErrorsBelongToTheStep ==
  errors \subseteq Shown([values EXCEPT !["stay_informed"] = "yes"], step)

\* What is on the screen is what sessionStorage holds for a refresh, whatever is typed, moved
\* and reopened, but for one case: a submission that succeeded, of this form or of a page
\* that was left, erased the draft, and nothing was saved since.
DraftIsCurrent ==
  mounted => draft = IF erased THEN NoDraft ELSE [values |-> values, step |-> step]

\* Not kept, and checked by no run (TLC refutes it when BuyerForms.cfg lists it).
\* registration-form.ts:307: the draft is for going on after a refresh.  InscriptionPage
\* keeps the form on the screen when its draft is erased.
RefreshLosesNothing == mounted => draft = [values |-> values, step |-> step]

\* The wizard, whatever is typed, refreshed, left and closed in between: its types, nothing
\* that was answered disappears, errors stand beside their fields, and the draft is what is
\* on the screen until a success erases it.
WizardIsSound == RegTypeOK /\ AnswersAreDisplayed /\ ErrorsBelongToTheStep /\ DraftIsCurrent
=============================================================================
