\* One tab in detail beside any others, two requests, two pairs of tokens.
SPECIFICATION Spec
CONSTANTS
  NoUser = NoUser
  NoToken = NoToken
  NoCall = NoCall
  Users = {ann, bob}
  Tabs = {t1}
  Requests = {1, 2}
  MaxTokens = 2
INVARIANTS SessionsAreSound
PROPERTIES RequestsAreMadeAsTheUserShown NothingHangs
CHECK_DEADLOCK FALSE
