---------------------------- MODULE AdminSession ----------------------------
(***************************************************************************)
(* The session of an administrator in the tabs of a browser: the tokens of *)
(* admin/services/api.ts (ApiClient), which every tab keeps in memory and  *)
(* all share in localStorage, the user of admin/context/AuthContext.tsx,   *)
(* and the sessions of the server (backend/auth/service.py), which keeps   *)
(* one refresh token per user.                                             *)
(*                                                                         *)
(* A token is [user, n]; n tells one issue from another.  A response and   *)
(* the answer of the server it carries are one step, except for a refresh: *)
(* the server looks its token up, issues a pair, and answers.              *)
(***************************************************************************)
EXTENDS Integers, FiniteSets

CONSTANTS
  Users, Tabs,
  Requests,      \* bound: requests of a page under way in one tab
  MaxTokens,     \* bound: sessions the server opens or renews
  NoUser, NoToken, NoCall

Token == [user : Users, n : 1 .. MaxTokens]

\* The calls of a tab: a refresh, /auth/me, and those of AuthContext.
RefreshCall == [pc : {"sent", "found", "renewed"}, token : Token, old : BOOLEAN]
MeCall == [token : Token, old : BOOLEAN]
AuthCall ==
  [op : {"login", "oauth", "logout"}, user : Users \cup {NoUser}, token : Token \cup {NoToken}]

ASSUME AdminSessionAssumption ==
  /\ MaxTokens \in Nat
  /\ NoUser \notin Users /\ NoToken \notin Token
  /\ NoCall \notin RefreshCall \cup MeCall \cup AuthCall

VARIABLES
  memory,      \* ApiClient of a tab: token, refresh
  storage,     \* localStorage: token, refresh
  refreshing,  \* refreshPromise of a tab, NoCall when there is none
  request,     \* the requests of the pages of a tab
  me,          \* loadUser of a tab: its call of /auth/me
  call,        \* login, logout or completeOAuthSession of a tab
  user, loading,
  late,        \* history: a tab applied an answer to an earlier session
  access,      \* the server: access tokens that are valid
  current,     \* the server: the refresh token of each user
  issued       \* the server: how many pairs it issued

client == <<memory, storage>>
account == <<user, loading, late>>
server == <<access, current, issued>>
vars == <<client, refreshing, request, me, call, account, server>>

-----------------------------------------------------------------------------
NoSession == [token |-> NoToken, refresh |-> NoToken]
Pair(token) == [token |-> token, refresh |-> token]
NoRequest == [pc |-> "none", token |-> NoToken, first |-> NoToken, retried |-> FALSE]

\* setToken with both tokens: what the tab remembers is what the browser keeps.
SetToken(t, pair) ==
  /\ memory' = [memory EXCEPT ![t] = pair]
  /\ storage' = pair

ClearSession(t) == SetToken(t, NoSession)

\* The server issues a pair: it replaces the refresh token of the user.
Issue(u, token) ==
  /\ issued < MaxTokens
  /\ token = [user |-> u, n |-> issued + 1]
  /\ issued' = issued + 1
  /\ access' = access \cup {token}
  /\ current' = [current EXCEPT ![u] = token]

Init ==
  /\ memory = [t \in Tabs |-> NoSession]
  /\ storage = NoSession
  /\ refreshing = [t \in Tabs |-> NoCall]
  /\ request = [t \in Tabs |-> [r \in Requests |-> NoRequest]]
  /\ me = [t \in Tabs |-> NoCall]
  /\ call = [t \in Tabs |-> NoCall]
  /\ user = [t \in Tabs |-> NoUser]
  /\ loading = [t \in Tabs |-> FALSE]
  /\ late = [t \in Tabs |-> FALSE]
  /\ access = {} /\ current = [u \in Users |-> NoToken] /\ issued = 0

\* What the tab shows (ProtectedRoute, without what verifyStaffAccess adds).
View(t) ==
  IF loading[t] THEN "spinner" ELSE IF user[t] = NoUser THEN "login" ELSE "page"

-----------------------------------------------------------------------------
(* A page load, and loadUser. *)

\* The old page and its calls are gone; a new client reads localStorage.
Fresh(t, pair) ==
  /\ memory' = [memory EXCEPT ![t] = pair]
  /\ refreshing' = [refreshing EXCEPT ![t] = NoCall]
  /\ request' = [request EXCEPT ![t] = [r \in Requests |-> NoRequest]]
  /\ user' = [user EXCEPT ![t] = NoUser]
  /\ loading' = [loading EXCEPT ![t] = pair.token # NoToken]
  /\ me' = [me EXCEPT ![t] = IF pair.token = NoToken THEN NoCall
                             ELSE [token |-> pair.token, old |-> FALSE]]
  /\ late' = [late EXCEPT ![t] = FALSE]

LoadUser(t) ==
  /\ Fresh(t, storage)
  /\ call' = [call EXCEPT ![t] = NoCall]
  /\ UNCHANGED <<storage, server>>

\* The finally of loadUser, login and completeOAuthSession.
LoadingDone(t) == loading' = [loading EXCEPT ![t] = FALSE]

\* /auth/me answers, or refuses: calls under /auth/ are not refreshed.
MeReturns(t) ==
  /\ me[t] # NoCall
  /\ \/ /\ me[t].token \in access
        /\ user' = [user EXCEPT ![t] = me[t].token.user]
        /\ late' = [late EXCEPT ![t] = @ \/ me[t].old]
        /\ UNCHANGED client
     \/ /\ ClearSession(t)
        /\ user' = [user EXCEPT ![t] = NoUser]
        /\ UNCHANGED late
  /\ LoadingDone(t)
  /\ me' = [me EXCEPT ![t] = NoCall]
  /\ UNCHANGED <<refreshing, request, call, server>>

-----------------------------------------------------------------------------
(* login, completeOAuthSession, logout. *)

\* The session of the tab changes: the calls under way belong to an earlier one.
Old(c) == IF c = NoCall THEN NoCall ELSE [c EXCEPT !.old = TRUE]
HandedOver(t) ==
  /\ refreshing' = [refreshing EXCEPT ![t] = Old(@)]
  /\ me' = [me EXCEPT ![t] = Old(@)]

Login(t, u) ==
  /\ call[t] = NoCall /\ View(t) = "login"
  /\ call' = [call EXCEPT ![t] = [op |-> "login", user |-> u, token |-> NoToken]]
  /\ loading' = [loading EXCEPT ![t] = TRUE]
  /\ UNCHANGED <<client, refreshing, request, me, user, late, server>>

LoggedIn(t, token) ==
  /\ user' = [user EXCEPT ![t] = token.user]
  /\ SetToken(t, Pair(token))

LoginReturns(t) ==
  /\ call[t] # NoCall /\ call[t].op = "login"
  /\ \/ \E token \in Token :
          /\ Issue(call[t].user, token)
          /\ \/ /\ LoggedIn(t, token)
                /\ HandedOver(t)
                /\ late' = [late EXCEPT ![t] = FALSE]
             \/ UNCHANGED <<client, user, late, refreshing, me>>       \* the answer is lost
     \/ UNCHANGED <<client, user, late, refreshing, me, server>>       \* wrong password
  /\ LoadingDone(t)
  /\ call' = [call EXCEPT ![t] = NoCall]
  /\ UNCHANGED <<request>>

\* The provider sends the browser to AuthCallbackPage, tokens in the hash: a page load
\* whose effects store them, then ask who they belong to, twice.
AuthCallback(t, u) ==
  /\ call[t] = NoCall
  /\ \E token \in Token :
       /\ Issue(u, token)
       /\ Fresh(t, Pair(token))
       /\ storage' = Pair(token)
       /\ call' = [call EXCEPT ![t] = [op |-> "oauth", user |-> u, token |-> token]]

CompleteOAuthSession(t) ==
  /\ call[t] # NoCall /\ call[t].op = "oauth"
  /\ \/ /\ call[t].token \in access
        /\ user' = [user EXCEPT ![t] = call[t].user]
        /\ UNCHANGED client
     \/ /\ ClearSession(t)
        /\ user' = [user EXCEPT ![t] = NoUser]
  /\ LoadingDone(t)
  /\ call' = [call EXCEPT ![t] = NoCall]
  /\ UNCHANGED <<refreshing, request, me, late, server>>

Logout(t) ==
  /\ call[t] = NoCall /\ View(t) = "page"
  /\ call' = [call EXCEPT ![t] = [op |-> "logout", user |-> NoUser, token |-> memory[t].token]]
  /\ UNCHANGED <<client, refreshing, request, me, account, server>>

\* The server ends the session of a valid token, and forgets the refresh token of its
\* user; it ignores any other token.
LogoutReturns(t) ==
  /\ call[t] # NoCall /\ call[t].op = "logout"
  /\ \/ /\ call[t].token \in access
        /\ access' = access \ {call[t].token}
        /\ current' = [current EXCEPT ![call[t].token.user] = NoToken]
        /\ UNCHANGED issued
     \/ UNCHANGED server
  /\ ClearSession(t)
  /\ user' = [user EXCEPT ![t] = NoUser]
  /\ HandedOver(t)
  /\ call' = [call EXCEPT ![t] = NoCall]
  /\ UNCHANGED <<request, loading, late>>

-----------------------------------------------------------------------------
(* Requests of the pages: ApiClient.fetch and tryRefresh. *)

\* The token of a request.
StoredToken(t) == storage.token                     \* mutated form: whatever the browser has
RequestToken(t) == memory[t].token

Send(t, r) ==
  /\ View(t) = "page"
  /\ request[t][r].pc = "none"
  /\ request' = [request EXCEPT ![t][r] =
       [NoRequest EXCEPT !.pc = "sent", !.token = RequestToken(t), !.first = RequestToken(t)]]
  /\ UNCHANGED <<client, refreshing, me, call, account, server>>

\* An answer, or an error that is not 401.
Answered(t, r) ==
  /\ request[t][r].pc = "sent"
  /\ request' = [request EXCEPT ![t][r] = NoRequest]
  /\ UNCHANGED <<client, refreshing, me, call, user, loading, late, server>>

\* 401: one refresh for all the requests of the tab that wait; a request that was
\* retried, or a tab without refresh token, gives up.
Refused(t, r) ==
  /\ request[t][r].pc = "sent" /\ request[t][r].token \notin access
  /\ IF request[t][r].retried
     THEN /\ request' = [request EXCEPT ![t][r] = NoRequest]
          /\ UNCHANGED <<client, refreshing>>
     ELSE IF memory[t].refresh = NoToken
     THEN /\ request' = [request EXCEPT ![t][r] = NoRequest]
          /\ ClearSession(t)
          /\ UNCHANGED refreshing
     ELSE /\ request' = [request EXCEPT ![t][r].pc = "waiting"]
          /\ refreshing' = IF refreshing[t] # NoCall THEN refreshing
                           ELSE [refreshing EXCEPT ![t] =
                             [pc |-> "sent", token |-> memory[t].refresh, old |-> FALSE]]
          /\ UNCHANGED client
  /\ UNCHANGED <<me, call, account, server>>

\* refresh_access_token: the user who owns the refresh token is looked up, then a pair is
\* issued, whatever became of that token in between.
FindRefreshToken(t) ==
  /\ refreshing[t] # NoCall /\ refreshing[t].pc = "sent"
  /\ current[refreshing[t].token.user] = refreshing[t].token
  /\ refreshing' = [refreshing EXCEPT ![t].pc = "found"]
  /\ UNCHANGED <<client, request, me, call, account, server>>

Refresh(t) ==
  /\ refreshing[t] # NoCall /\ refreshing[t].pc = "found"
  /\ \E token \in Token :
       /\ Issue(refreshing[t].token.user, token)
       /\ refreshing' = [refreshing EXCEPT ![t].pc = "renewed", ![t].token = token]
  /\ UNCHANGED <<client, request, me, call, account>>

\* The requests that waited are sent again, with what the tab holds now.
Resumed(t, token) ==
  [r \in Requests |-> IF request[t][r].pc # "waiting" THEN request[t][r]
                      ELSE [request[t][r] EXCEPT !.pc = "sent", !.token = token, !.retried = TRUE]]

RenewedUnstored(t) ==                               \* mutated form: the pair is not stored
  /\ refreshing[t] # NoCall /\ refreshing[t].pc = "renewed"
  /\ request' = [request EXCEPT ![t] = Resumed(t, memory[t].token)]
  /\ refreshing' = [refreshing EXCEPT ![t] = NoCall]
  /\ UNCHANGED <<client, me, call, account, server>>

Renewed(t) ==
  /\ refreshing[t] # NoCall /\ refreshing[t].pc = "renewed"
  /\ SetToken(t, Pair(refreshing[t].token))
  /\ late' = [late EXCEPT ![t] = @ \/ refreshing[t].old]
  /\ request' = [request EXCEPT ![t] = Resumed(t, refreshing[t].token)]
  /\ refreshing' = [refreshing EXCEPT ![t] = NoCall]
  /\ UNCHANGED <<me, call, user, loading, server>>

\* The token is refused, or the network fails before or after the exchange: every request
\* that waited ends the session.
GivenUp(t) == [r \in Requests |-> IF request[t][r].pc = "waiting" THEN NoRequest ELSE request[t][r]]
NotRenewed(t, requests) ==
  /\ refreshing[t] # NoCall
  /\ ClearSession(t)
  /\ request' = [request EXCEPT ![t] = requests]
  /\ refreshing' = [refreshing EXCEPT ![t] = NoCall]
  /\ UNCHANGED <<me, call, account, server>>

RefreshFailsSilently(t) == NotRenewed(t, request[t])   \* mutated form: they wait for ever
RefreshFails(t) == NotRenewed(t, GivenUp(t))

-----------------------------------------------------------------------------
(* The server and other devices. *)

Expire(token) ==
  /\ access' = access \ {token}
  /\ UNCHANGED <<client, refreshing, request, me, call, account, current, issued>>

LoginElsewhere(u) ==
  /\ \E token \in Token : Issue(u, token)
  /\ UNCHANGED <<client, refreshing, request, me, call, account>>

\* A tab that is not among Tabs signs in, renews its session or signs out: the others
\* only see localStorage change.
OtherTab ==
  /\ \E token \in access \cup {current[u] : u \in Users} \cup {NoToken} : storage' = Pair(token)
  /\ UNCHANGED <<memory, refreshing, request, me, call, account, server>>

Respond(t) ==
  \/ MeReturns(t) \/ LoginReturns(t) \/ CompleteOAuthSession(t) \/ LogoutReturns(t)
  \/ FindRefreshToken(t) \/ Refresh(t) \/ Renewed(t) \/ RefreshFails(t)
RespondTo(t, r) == Answered(t, r) \/ Refused(t, r)

Next ==
  \/ \E t \in Tabs : LoadUser(t) \/ Logout(t) \/ Respond(t)
  \/ \E t \in Tabs, u \in Users : Login(t, u) \/ AuthCallback(t, u)
  \/ \E t \in Tabs, r \in Requests : Send(t, r) \/ RespondTo(t, r)
  \/ \E token \in access : Expire(token)
  \/ \E u \in Users : LoginElsewhere(u)
  \/ OtherTab

\* Every call is answered or fails (fetch rejects in the end).
Fairness ==
  \A t \in Tabs :
    /\ WF_vars(MeReturns(t)) /\ WF_vars(LoginReturns(t)) /\ WF_vars(CompleteOAuthSession(t))
    /\ WF_vars(Renewed(t) \/ RefreshFails(t))
    /\ \A r \in Requests : WF_vars(RespondTo(t, r))

Spec == Init /\ [][Next]_vars /\ Fairness

-----------------------------------------------------------------------------
Sessions == [token : Token \cup {NoToken}, refresh : Token \cup {NoToken}]

\* The client, the context and the server keep their types; a request waits for a refresh
\* that is under way.
TypeOK ==
  /\ memory \in [Tabs -> Sessions] /\ storage \in Sessions
  /\ user \in [Tabs -> Users \cup {NoUser}]
  /\ access \subseteq Token /\ current \in [Users -> Token \cup {NoToken}]
  /\ \A t \in Tabs, r \in Requests :
       /\ request[t][r].pc \in {"none", "sent", "waiting"}
       /\ request[t][r].pc = "waiting" => refreshing[t] # NoCall

\* A session that was cleared leaves nothing in the browser that could renew it, and a
\* token never stands without the means to renew it: in no tab, and not in localStorage.
PairsAreWhole ==
  \A s \in {storage} \cup {memory[t] : t \in Tabs} : s.token = NoToken <=> s.refresh = NoToken

\* A request that was refused is sent again with another token only.
RetriesCarryAnotherToken ==
  \A t \in Tabs, r \in Requests : request[t][r].retried => request[t][r].token # request[t][r].first

\* The requests of a tab are made as the user it shows.  The exception is an answer of an
\* earlier session (a refresh, or the first /auth/me) that comes after a login or a logout
\* of the same tab: nothing in ApiClient tells it from one of the session that is open.
RequestsAreMadeAsTheUserShown ==
  [][\A t \in Tabs, r \in Requests :
       /\ request[t][r].pc # "sent" /\ request'[t][r].pc = "sent"
       /\ request'[t][r].token # NoToken /\ user[t] # NoUser
       => late'[t] \/ request'[t][r].token.user = user[t]]_vars

\* A tab never shows its spinner for ever (setIsLoading in every finally).
LoadingEnds == \A t \in Tabs : loading[t] ~> ~loading[t]

\* A page is never left waiting: every request is answered, retried once, or given up.
RequestsEnd == \A t \in Tabs, r \in Requests : request[t][r].pc # "none" ~> request[t][r].pc = "none"

\* The tabs and the server agree on the pairs of tokens, whatever was renewed, refused or
\* cleared in between: types, whole pairs, and no retry with the token that was refused.
SessionsAreSound == TypeOK /\ PairsAreWhole /\ RetriesCarryAnotherToken

\* Nothing hangs: spinners stop and requests end, whatever fails.
NothingHangs == LoadingEnds /\ RequestsEnd
=============================================================================
