\* The registration wizard, or two tabs with a cart.
SPECIFICATION FormsSpec
CONSTANTS
  NoDraft = NoDraft
  NoForm = NoForm
  Varied = {"email", "stay_informed", "preferred_channel", "consent_data_processing", "topics", "city", "country"}
  Typed = {"padded", "long", "Address"}
  Toggled = {"other"}
  Drafts <- MCDrafts
  MaxOlder = 1
  Currencies = {"XOF", "EUR", "KWD"}
  ZERO_DECIMAL_CURRENCIES = {"XOF"}
  THREE_DECIMAL_CURRENCIES = {"KWD"}
  MaxSafeInteger = 1000000
  a = a
  b = b
  c = c
  d = d
  TicketTypes = {a, b, c, d}
  Events = {"fest", "tour", "gala"}
  EventOf <- MCEventOf
  CurrencyOf <- MCCurrencyOf
  Prices <- MCPrices
  StoredCarts <- MCStoredCarts
  MAX_PER_TYPE = 2
  Tabs = {"t1", "t2"}
  NoTab = NoTab
  Budget = 5
  NoItem = NoItem
  NoPrice = NoPrice
INVARIANTS SubmittedFormsAreAccepted WizardIsSound CartIsSound
CHECK_DEADLOCK FALSE
