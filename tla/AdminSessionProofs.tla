-------------------------- MODULE AdminSessionProofs --------------------------
(***************************************************************************)
(* The session of an administrator, for any number of tabs, users,         *)
(* requests and pairs of tokens, and without fairness.                     *)
(*                                                                         *)
(* A step is a tab's or the server's.  Tabs share localStorage, which a    *)
(* tab reads only when it loads, so that what a tab holds (TabIsSound)     *)
(* stays true while others go on: tokens are only ever issued.             *)
(***************************************************************************)
EXTENDS AdminSession, TLAPS

Request ==
  [pc : {"none", "sent", "waiting"}, token : Token \cup {NoToken}, first : Token \cup {NoToken},
   retried : BOOLEAN]

TabTypes ==
  /\ memory \in [Tabs -> Sessions]
  /\ refreshing \in [Tabs -> RefreshCall \cup {NoCall}]
  /\ request \in [Tabs -> [Requests -> Request]]
  /\ me \in [Tabs -> MeCall \cup {NoCall}]
  /\ call \in [Tabs -> AuthCall \cup {NoCall}]
  /\ user \in [Tabs -> Users \cup {NoUser}] /\ late \in [Tabs -> BOOLEAN]

\* The server has issued the token by its n-th issue, so that the next one is another.
Known(token, n) == token # NoToken => token.n <= n

\* What the browser and the server keep was issued, and is whole.
ServerIsSound ==
  /\ storage \in Sessions /\ access \subseteq Token
  /\ current \in [Users -> Token \cup {NoToken}] /\ issued \in Nat
  /\ storage = Pair(storage.token) /\ Known(storage.token, issued)
  /\ \A token \in access : Known(token, issued)
  /\ \A u \in Users : Known(current[u], issued)

\* A tab holds the pair m, a refresh f, requests q and a call c.  A pair that was renewed and
\* not stored yet is new to the tab and to its requests.
Holds(m, f, q, c, n) ==
  /\ m = Pair(m.token) /\ Known(m.token, n)
  /\ f # NoCall =>
       /\ Known(f.token, n)
       /\ f.pc = "renewed" =>
            f.token # m.token /\ \A r \in Requests : f.token # q[r].first
  /\ \A r \in Requests :
       /\ Known(q[r].first, n)
       /\ q[r].retried => q[r].token # q[r].first
       /\ q[r].pc = "waiting" => f # NoCall
  /\ c # NoCall /\ c.op = "oauth" => c.user \in Users

\* What the tab holds of the session that is open, the user u it shows among it, belongs to o.
BelongsTo(o, m, f, e, c, u) ==
  /\ m.token # NoToken => m.token.user = o
  /\ u # NoUser => u = o
  /\ f # NoCall /\ ~f.old => f.token.user = o
  /\ e # NoCall /\ ~e.old => e.token.user = o
  /\ c # NoCall /\ c.op = "oauth" => c.user = o

\* There is one user of all that, unless an answer of an earlier session came late.
TabIsSound(t) ==
  /\ Holds(memory[t], refreshing[t], request[t], call[t], issued)
  /\ late[t] \/ \E o : BelongsTo(o, memory[t], refreshing[t], me[t], call[t], user[t])

SessionInv == TabTypes /\ ServerIsSound /\ \A t \in Tabs : TabIsSound(t)

-----------------------------------------------------------------------------
(* What stays true of a tab. *)

LEMMA AbsentValues ==
  /\ NoUser \notin Users /\ NoToken \notin Token
  /\ NoCall \notin RefreshCall /\ NoCall \notin MeCall /\ NoCall \notin AuthCall
BY AdminSessionAssumption

LEMMA HoldsLonger ==
  ASSUME NEW m \in Sessions, NEW f \in RefreshCall \cup {NoCall}, NEW q \in [Requests -> Request],
         NEW c, NEW n \in Nat, NEW k \in Nat, n <= k, Holds(m, f, q, c, n)
  PROVE  Holds(m, f, q, c, k)
<1>1. \A token \in Token \cup {NoToken} : Known(token, n) => Known(token, k)
  BY DEF Known, Token
<1>2. m.token \in Token \cup {NoToken} /\ \A r \in Requests : q[r].first \in Token \cup {NoToken}
  BY DEF Sessions, Request
<1>3. f # NoCall => f.token \in Token
  BY DEF RefreshCall
<1> QED
  BY <1>1, <1>2, <1>3 DEF Holds

\* A tab acts, and what it holds now fits together.
LEMMA TabActs ==
  ASSUME SessionInv, NEW t \in Tabs,
         NEW m \in Sessions, NEW f \in RefreshCall \cup {NoCall}, NEW q \in [Requests -> Request],
         NEW e \in MeCall \cup {NoCall}, NEW c \in AuthCall \cup {NoCall},
         NEW u \in Users \cup {NoUser}, NEW l \in BOOLEAN,
         memory' = [memory EXCEPT ![t] = m], refreshing' = [refreshing EXCEPT ![t] = f],
         request' = [request EXCEPT ![t] = q], me' = [me EXCEPT ![t] = e],
         call' = [call EXCEPT ![t] = c], user' = [user EXCEPT ![t] = u],
         late' = [late EXCEPT ![t] = l],
         ServerIsSound', issued' >= issued,
         Holds(m, f, q, c, issued'), l \/ \E o : BelongsTo(o, m, f, e, c, u)
  PROVE  SessionInv'
<1>1. TabTypes
  BY DEF SessionInv
<1>2. TabTypes'
  BY <1>1 DEF TabTypes
<1>3. ASSUME NEW s \in Tabs
      PROVE  TabIsSound(s)'
  <2>1. CASE s = t
    <3>1. /\ memory'[s] = m /\ refreshing'[s] = f /\ request'[s] = q /\ me'[s] = e
          /\ call'[s] = c /\ user'[s] = u /\ late'[s] = l
      BY <1>1, <2>1 DEF TabTypes
    <3> QED
      BY <3>1 DEF TabIsSound
  <2>2. CASE s # t
    <3>1. /\ memory'[s] = memory[s] /\ refreshing'[s] = refreshing[s] /\ request'[s] = request[s]
          /\ me'[s] = me[s] /\ call'[s] = call[s] /\ user'[s] = user[s] /\ late'[s] = late[s]
      BY <1>1, <2>2 DEF TabTypes
    <3>2. TabIsSound(s) /\ issued \in Nat /\ issued' \in Nat
      BY DEF SessionInv, ServerIsSound
    <3>3. Holds(memory[s], refreshing[s], request[s], call[s], issued')
      BY <1>1, <3>2, HoldsLonger DEF TabTypes, TabIsSound
    <3> QED
      BY <3>1, <3>2, <3>3 DEF TabIsSound
  <2> QED
    BY <2>1, <2>2
<1> QED
  BY <1>2, <1>3 DEF SessionInv

\* The server acts, or a tab that is not among Tabs.
LEMMA TabsStand ==
  ASSUME SessionInv, UNCHANGED <<memory, refreshing, request, me, call, user, late>>,
         ServerIsSound', issued' >= issued
  PROVE  SessionInv'
<1>1. TabTypes'
  BY DEF SessionInv, TabTypes
<1>2. ASSUME NEW t \in Tabs
      PROVE  TabIsSound(t)'
  <2>1. Holds(memory[t], refreshing[t], request[t], call[t], issued')
    BY HoldsLonger DEF SessionInv, TabTypes, TabIsSound, ServerIsSound
  <2> QED
    BY <2>1 DEF SessionInv, TabIsSound
<1> QED
  BY <1>1, <1>2 DEF SessionInv

\* The pieces of a tab.
LEMMA TabPieces ==
  ASSUME SessionInv, NEW t \in Tabs
  PROVE  /\ memory[t] \in Sessions /\ refreshing[t] \in RefreshCall \cup {NoCall}
         /\ request[t] \in [Requests -> Request] /\ me[t] \in MeCall \cup {NoCall}
         /\ call[t] \in AuthCall \cup {NoCall} /\ user[t] \in Users \cup {NoUser}
         /\ late[t] \in BOOLEAN
         /\ memory = [memory EXCEPT ![t] = memory[t]]
         /\ refreshing = [refreshing EXCEPT ![t] = refreshing[t]]
         /\ request = [request EXCEPT ![t] = request[t]]
         /\ me = [me EXCEPT ![t] = me[t]] /\ call = [call EXCEPT ![t] = call[t]]
         /\ user = [user EXCEPT ![t] = user[t]] /\ late = [late EXCEPT ![t] = late[t]]
         /\ Holds(memory[t], refreshing[t], request[t], call[t], issued)
         /\ late[t] \/ \E o : BelongsTo(o, memory[t], refreshing[t], me[t], call[t], user[t])
         /\ ServerIsSound /\ issued \in Nat
BY DEF SessionInv, TabTypes, TabIsSound, ServerIsSound

LEMMA TabValues ==
  ASSUME SessionInv, NEW t \in Tabs
  PROVE  /\ memory[t] \in Sessions /\ refreshing[t] \in RefreshCall \cup {NoCall}
         /\ request[t] \in [Requests -> Request] /\ me[t] \in MeCall \cup {NoCall}
         /\ call[t] \in AuthCall \cup {NoCall} /\ user[t] \in Users \cup {NoUser}
         /\ late[t] \in BOOLEAN
BY DEF SessionInv, TabTypes

LEMMA TabUnmoved ==
  ASSUME SessionInv, NEW t \in Tabs
  PROVE  /\ UNCHANGED memory => memory' = [memory EXCEPT ![t] = memory[t]]
         /\ UNCHANGED refreshing => refreshing' = [refreshing EXCEPT ![t] = refreshing[t]]
         /\ UNCHANGED request => request' = [request EXCEPT ![t] = request[t]]
         /\ UNCHANGED me => me' = [me EXCEPT ![t] = me[t]]
         /\ UNCHANGED call => call' = [call EXCEPT ![t] = call[t]]
         /\ UNCHANGED user => user' = [user EXCEPT ![t] = user[t]]
         /\ UNCHANGED late => late' = [late EXCEPT ![t] = late[t]]
BY DEF SessionInv, TabTypes

\* A pair that is issued is new to everybody.
LEMMA IssuesAreNew ==
  ASSUME SessionInv, NEW u, NEW token \in Token, Issue(u, token)
  PROVE  /\ u \in Users /\ token.user = u
         /\ issued' = issued + 1 /\ issued' \in Nat /\ issued' >= issued
         /\ UNCHANGED storage \/ storage' = Pair(token) => ServerIsSound'
         /\ Known(token, issued')
         /\ \A old \in Token \cup {NoToken} :
              Known(old, issued) => Known(old, issued') /\ old # token
<1>1. /\ token = [user |-> u, n |-> issued + 1] /\ issued' = issued + 1
      /\ access' = access \cup {token} /\ current' = [current EXCEPT ![u] = token]
      /\ ServerIsSound
  BY DEF Issue, SessionInv
<1>2. u \in Users /\ token.user = u /\ token.n = issued + 1 /\ issued \in Nat
  BY <1>1 DEF Token, ServerIsSound
<1>3. Known(token, issued')
  BY <1>1, <1>2 DEF Known
<1>4. ASSUME NEW old \in Token \cup {NoToken}, Known(old, issued)
      PROVE  Known(old, issued') /\ old # token
  <2>1. old # NoToken => old.n \in Nat
    BY DEF Token
  <2> QED
    BY <1>1, <1>2, <1>4, <2>1, AbsentValues DEF Known
<1>5. ASSUME UNCHANGED storage \/ storage' = Pair(token)
      PROVE  ServerIsSound'
  <2>1. storage' \in Sessions /\ storage' = Pair(storage'.token) /\ Known(storage'.token, issued')
    <3>1. CASE UNCHANGED storage
      <4>1. storage.token \in Token \cup {NoToken}
        BY <1>1 DEF ServerIsSound, Sessions
      <4> QED
        BY <1>1, <1>4, <3>1, <4>1 DEF ServerIsSound
    <3>2. CASE storage' = Pair(token)
      BY <1>3, <3>2 DEF Pair, Sessions
    <3> QED
      BY <1>5, <3>1, <3>2
  <2>2. access' \subseteq Token /\ current' \in [Users -> Token \cup {NoToken}] /\ issued' \in Nat
    BY <1>1, <1>2 DEF ServerIsSound
  <2>3. \A old \in access' : Known(old, issued')
    BY <1>1, <1>3, <1>4 DEF ServerIsSound
  <2>4. \A v \in Users : Known(current'[v], issued')
    BY <1>1, <1>3, <1>4 DEF ServerIsSound
  <2> QED
    BY <2>1, <2>2, <2>3, <2>4 DEF ServerIsSound
<1> QED
  BY <1>1, <1>2, <1>3, <1>4, <1>5

\* Storing a pair that was issued, or forgetting it, leaves localStorage whole.
LEMMA StoresWholePairs ==
  ASSUME SessionInv, UNCHANGED server,
         NEW token \in Token \cup {NoToken}, Known(token, issued),
         UNCHANGED storage \/ storage' = Pair(token) \/ storage' = NoSession
  PROVE  ServerIsSound' /\ issued' >= issued
<1>1. ServerIsSound /\ UNCHANGED <<access, current, issued>>
  BY DEF SessionInv, server
<1>2. NoSession \in Sessions /\ NoSession = Pair(NoSession.token) /\ Known(NoSession.token, issued)
  BY DEF NoSession, Pair, Sessions, Known
<1>3. Pair(token) \in Sessions /\ Pair(token).token = token
  BY DEF Pair, Sessions
<1> QED
  BY <1>1, <1>2, <1>3 DEF ServerIsSound
-----------------------------------------------------------------------------
(* Page loads, loadUser, login and logout. *)

\* A page that loads has nothing but the pair it begins with.
LEMMA FreshTabs ==
  ASSUME SessionInv, NEW t \in Tabs, NEW pair \in Sessions, pair = Pair(pair.token), Fresh(t, pair),
         NEW c \in AuthCall \cup {NoCall}, call' = [call EXCEPT ![t] = c],
         c # NoCall /\ c.op = "oauth" => c.user \in Users /\ c.user = pair.token.user,
         Known(pair.token, issued'), ServerIsSound', issued' >= issued
  PROVE  SessionInv'
<1> DEFINE q == [r \in Requests |-> NoRequest]
           e == IF pair.token = NoToken THEN NoCall ELSE [token |-> pair.token, old |-> FALSE]
<1>1. pair.token \in Token \cup {NoToken}
  BY DEF Sessions
<1>2. q \in [Requests -> Request] /\ \A r \in Requests : q[r] = NoRequest
  BY DEF NoRequest, Request
<1>3. /\ e \in MeCall \cup {NoCall}
      /\ e # NoCall => e.token = pair.token /\ pair.token # NoToken
  BY <1>1, AbsentValues DEF MeCall
<1>4. /\ memory' = [memory EXCEPT ![t] = pair] /\ refreshing' = [refreshing EXCEPT ![t] = NoCall]
      /\ request' = [request EXCEPT ![t] = q] /\ me' = [me EXCEPT ![t] = e]
      /\ user' = [user EXCEPT ![t] = NoUser] /\ late' = [late EXCEPT ![t] = FALSE]
  BY DEF Fresh
<1> HIDE DEF q, e
<1>5. Holds(pair, NoCall, q, c, issued')
  BY <1>2 DEF Holds, NoRequest, Known
<1>6. BelongsTo(pair.token.user, pair, NoCall, e, c, NoUser)
  BY <1>3 DEF BelongsTo
<1>7. \E o : BelongsTo(o, pair, NoCall, e, c, NoUser)
  BY <1>6
<1>8. q \in [Requests -> Request] /\ e \in MeCall \cup {NoCall}
  BY <1>2, <1>3
<1> QED
  BY <1>4, <1>5, <1>7, <1>8, TabActs

LEMMA LoadUserIsSound == ASSUME SessionInv, NEW t \in Tabs, LoadUser(t) PROVE SessionInv'
<1>1. Fresh(t, storage) /\ call' = [call EXCEPT ![t] = NoCall] /\ UNCHANGED <<storage, server>>
  BY DEF LoadUser
<1>2. /\ storage \in Sessions /\ storage = Pair(storage.token) /\ Known(storage.token, issued)
      /\ storage.token \in Token \cup {NoToken}
  BY DEF SessionInv, ServerIsSound, Sessions
<1>3. ServerIsSound' /\ issued' >= issued /\ issued' = issued
  BY <1>1, <1>2, StoresWholePairs DEF server
<1> QED
  BY <1>1, <1>2, <1>3, FreshTabs

LEMMA AuthCallbackIsSound ==
  ASSUME SessionInv, NEW t \in Tabs, NEW u \in Users, AuthCallback(t, u)
  PROVE  SessionInv'
<1>1. PICK token \in Token :
        /\ Issue(u, token) /\ Fresh(t, Pair(token)) /\ storage' = Pair(token)
        /\ call' = [call EXCEPT ![t] = [op |-> "oauth", user |-> u, token |-> token]]
  BY DEF AuthCallback
<1> DEFINE c == [op |-> "oauth", user |-> u, token |-> token]
<1>2. /\ token.user = u /\ Known(token, issued') /\ ServerIsSound' /\ issued' >= issued
  BY <1>1, IssuesAreNew
<1>3. c \in AuthCall /\ c.user = u
  BY DEF AuthCall
<1> DEFINE pair == Pair(token)
<1>4. pair \in Sessions /\ pair.token = token /\ pair = Pair(pair.token)
  BY DEF Pair, Sessions
<1>5. call' = [call EXCEPT ![t] = c] /\ Fresh(t, pair)
  BY <1>1
<1> HIDE DEF c, pair
<1> QED
  BY <1>2, <1>3, <1>4, <1>5, FreshTabs

\* A tab that has no pair has all but its user.
LEMMA ClearedTabs ==
  ASSUME SessionInv, NEW t \in Tabs, NEW f \in RefreshCall \cup {NoCall},
         NEW e \in MeCall \cup {NoCall}, NEW q \in [Requests -> Request],
         NEW c \in {call[t], NoCall}, NEW u \in {user[t], NoUser},
         ClearSession(t), UNCHANGED <<late, issued>>, ServerIsSound',
         refreshing' = [refreshing EXCEPT ![t] = f], me' = [me EXCEPT ![t] = e],
         request' = [request EXCEPT ![t] = q], call' = [call EXCEPT ![t] = c],
         user' = [user EXCEPT ![t] = u],
         \/ f = refreshing[t] \/ f = NoCall
         \/ /\ refreshing[t] # NoCall /\ f = [refreshing[t] EXCEPT !.old = TRUE],
         \/ e = me[t] \/ e = NoCall
         \/ me[t] # NoCall /\ e = [me[t] EXCEPT !.old = TRUE],
         \A r \in Requests : q[r] \in {request[t][r], NoRequest},
         f = NoCall => \A r \in Requests : q[r].pc # "waiting" \/ refreshing[t] = NoCall
  PROVE  SessionInv'
<1>1. memory' = [memory EXCEPT ![t] = NoSession] /\ NoSession \in Sessions
  BY DEF ClearSession, SetToken, NoSession, Sessions
<1>2. NoSession.token = NoToken /\ NoSession = Pair(NoSession.token)
  BY DEF NoSession, Pair
<1>3. /\ refreshing[t] \in RefreshCall \cup {NoCall} /\ me[t] \in MeCall \cup {NoCall}
      /\ Holds(memory[t], refreshing[t], request[t], call[t], issued)
      /\ late[t] \/ \E o : BelongsTo(o, memory[t], refreshing[t], me[t], call[t], user[t])
      /\ late[t] \in BOOLEAN /\ late = [late EXCEPT ![t] = late[t]]
      /\ call[t] \in AuthCall \cup {NoCall} /\ user[t] \in Users \cup {NoUser}
      /\ issued \in Nat
  BY TabPieces
<1>4. f # NoCall => /\ refreshing[t] # NoCall /\ f.token = refreshing[t].token
                    /\ f.pc = refreshing[t].pc /\ (~f.old => ~refreshing[t].old)
                    /\ f.token \in Token
  BY <1>3 DEF RefreshCall
<1>5. e # NoCall => me[t] # NoCall /\ (~e.old => ~me[t].old /\ e.token = me[t].token)
  BY <1>3 DEF MeCall
<1>6. \A r \in Requests :
        /\ Known(q[r].first, issued) /\ (q[r].retried => q[r].token # q[r].first)
        /\ q[r].pc = "waiting" => q[r] = request[t][r]
        /\ q[r].first \in {request[t][r].first, NoToken}
  BY <1>3 DEF Holds, NoRequest, Known
<1>7. Holds(NoSession, f, q, c, issued')
  <2>1. f # NoCall => f.token # NoToken
    BY <1>4, AbsentValues
  <2>2. f # NoCall =>
          /\ Known(f.token, issued)
          /\ f.pc = "renewed" => \A r \in Requests : f.token # q[r].first
    BY <1>3, <1>4, <1>6, <2>1 DEF Holds
  <2>3. \A r \in Requests : q[r].pc = "waiting" => f # NoCall
    BY <1>3, <1>6 DEF Holds
  <2>4. Known(NoToken, issued) /\ (c # NoCall /\ c.op = "oauth" => c.user \in Users)
    BY <1>3 DEF Known, Holds
  <2> QED
    BY <1>2, <1>6, <2>1, <2>2, <2>3, <2>4 DEF Holds
<1>8. late[t] \/ \E o : BelongsTo(o, NoSession, f, e, c, u)
  BY <1>2, <1>3, <1>4, <1>5 DEF BelongsTo
<1>9. late' = [late EXCEPT ![t] = late[t]] /\ issued' >= issued
  BY <1>3
<1>10. c \in AuthCall \cup {NoCall} /\ u \in Users \cup {NoUser}
  BY <1>3
<1> QED
  BY <1>1, <1>3, <1>7, <1>8, <1>9, <1>10, TabActs
LEMMA MeReturnsIsSound == ASSUME SessionInv, NEW t \in Tabs, MeReturns(t) PROVE SessionInv'
<1>1. /\ me[t] # NoCall /\ me' = [me EXCEPT ![t] = NoCall]
      /\ UNCHANGED <<refreshing, request, call>> /\ UNCHANGED server
  BY DEF MeReturns
<1>2. ServerIsSound' /\ issued' >= issued
  <2>1. UNCHANGED storage \/ storage' = NoSession
    BY DEF MeReturns, client, ClearSession, SetToken
  <2>2. Known(NoToken, issued)
    BY DEF Known
  <2> QED
    BY <1>1, <2>1, <2>2, StoresWholePairs
<1>3. CASE /\ user' = [user EXCEPT ![t] = me[t].token.user] /\ UNCHANGED client
           /\ late' = [late EXCEPT ![t] = @ \/ me[t].old]
  <2> DEFINE u == me[t].token.user
             l == late[t] \/ me[t].old
  <2>1. /\ memory' = [memory EXCEPT ![t] = memory[t]]
        /\ refreshing' = [refreshing EXCEPT ![t] = refreshing[t]]
        /\ request' = [request EXCEPT ![t] = request[t]] /\ call' = [call EXCEPT ![t] = call[t]]
        /\ user' = [user EXCEPT ![t] = u] /\ late' = [late EXCEPT ![t] = l]
    BY <1>1, <1>3, TabPieces DEF client
  <2>2. u \in Users /\ l \in BOOLEAN /\ me[t].old \in BOOLEAN
    BY <1>1, TabPieces DEF MeCall, Token
  <2>3. l \/ \E o : BelongsTo(o, memory[t], refreshing[t], NoCall, call[t], u)
    <3>1. late[t] \/ me[t].old \/ \E o : /\ BelongsTo(o, memory[t], refreshing[t], me[t], call[t], user[t])
                                         /\ me[t].token.user = o
      BY <1>1, TabPieces DEF BelongsTo
    <3> QED
      BY <3>1 DEF BelongsTo
  <2>4. Holds(memory[t], refreshing[t], request[t], call[t], issued')
    BY <1>1, TabPieces DEF server
  <2> HIDE DEF u, l
  <2>5. me' = [me EXCEPT ![t] = NoCall]
    BY <1>1
  <2> QED
    BY <1>2, <2>1, <2>2, <2>3, <2>4, <2>5, TabValues, TabActs
<1>4. CASE ClearSession(t) /\ user' = [user EXCEPT ![t] = NoUser] /\ UNCHANGED late
  <2>1. /\ refreshing' = [refreshing EXCEPT ![t] = refreshing[t]]
        /\ request' = [request EXCEPT ![t] = request[t]] /\ call' = [call EXCEPT ![t] = call[t]]
        /\ me' = [me EXCEPT ![t] = NoCall] /\ UNCHANGED <<late, issued>>
    BY <1>1, <1>4, TabUnmoved DEF server
  <2>2. refreshing[t] = NoCall => \A r \in Requests : request[t][r].pc # "waiting" \/ refreshing[t] = NoCall
    OBVIOUS
  <2> QED
    BY <1>2, <1>4, <2>1, <2>2, TabValues, ClearedTabs
<1> QED
  BY <1>3, <1>4 DEF MeReturns

\* A call of AuthContext begins.
LEMMA CallsBegin ==
  ASSUME SessionInv, NEW t \in Tabs, Logout(t) \/ \E u \in Users : Login(t, u)
  PROVE  SessionInv'
<1>1. PICK c \in AuthCall : c.op # "oauth" /\ call' = [call EXCEPT ![t] = c]
  <2>1. CASE Logout(t)
    <3>1. [op |-> "logout", user |-> NoUser, token |-> memory[t].token] \in AuthCall
      BY TabPieces DEF AuthCall, Sessions
    <3> QED
      BY <2>1, <3>1 DEF Logout
  <2>2. CASE \E u \in Users : Login(t, u)
    <3>1. PICK u \in Users : Login(t, u)
      BY <2>2
    <3>2. [op |-> "login", user |-> u, token |-> NoToken] \in AuthCall
      BY DEF AuthCall
    <3> QED
      BY <3>1, <3>2 DEF Login
  <2> QED
    BY <2>1, <2>2
<1>2. /\ UNCHANGED <<memory, storage, refreshing, request, me, user, late>>
      /\ UNCHANGED <<access, current, issued>>
      /\ call[t] = NoCall
  BY DEF Login, Logout, client, server, account
<1>3. ServerIsSound' /\ issued' >= issued
  BY <1>2, TabPieces DEF ServerIsSound
<1>4. Holds(memory[t], refreshing[t], request[t], c, issued')
  BY <1>1, <1>2, TabPieces DEF Holds
<1>5. late[t] \/ \E o : BelongsTo(o, memory[t], refreshing[t], me[t], c, user[t])
  BY <1>1, <1>2, TabPieces DEF BelongsTo
<1>6. /\ memory' = [memory EXCEPT ![t] = memory[t]]
      /\ refreshing' = [refreshing EXCEPT ![t] = refreshing[t]]
      /\ request' = [request EXCEPT ![t] = request[t]] /\ me' = [me EXCEPT ![t] = me[t]]
      /\ user' = [user EXCEPT ![t] = user[t]] /\ late' = [late EXCEPT ![t] = late[t]]
  BY <1>2, TabUnmoved
<1> QED
  BY <1>1, <1>3, <1>4, <1>5, <1>6, TabValues, TabActs

\* The calls of an earlier session stay what they were.
LEMMA OldCalls ==
  ASSUME SessionInv, NEW t \in Tabs
  PROVE  /\ Old(refreshing[t]) \in RefreshCall \cup {NoCall}
         /\ Old(refreshing[t]) # NoCall <=> refreshing[t] # NoCall
         /\ refreshing[t] # NoCall =>
              /\ Old(refreshing[t]).old /\ Old(refreshing[t]).token = refreshing[t].token
              /\ Old(refreshing[t]).pc = refreshing[t].pc
         /\ Old(me[t]) \in MeCall \cup {NoCall}
         /\ Old(me[t]) # NoCall => Old(me[t]).old /\ me[t] # NoCall
<1>1. ASSUME NEW f \in RefreshCall
      PROVE  LET old == [f EXCEPT !.old = TRUE]
             IN old \in RefreshCall /\ old.old /\ old.token = f.token /\ old.pc = f.pc
  BY DEF RefreshCall
<1>2. ASSUME NEW e \in MeCall
      PROVE  [e EXCEPT !.old = TRUE] \in MeCall /\ [e EXCEPT !.old = TRUE].old
  BY DEF MeCall
<1>3. refreshing[t] \in RefreshCall \cup {NoCall} /\ me[t] \in MeCall \cup {NoCall}
  BY TabPieces
<1>4. /\ Old(refreshing[t]) \in RefreshCall \cup {NoCall}
      /\ Old(refreshing[t]) # NoCall <=> refreshing[t] # NoCall
      /\ refreshing[t] # NoCall =>
           /\ Old(refreshing[t]).old /\ Old(refreshing[t]).token = refreshing[t].token
           /\ Old(refreshing[t]).pc = refreshing[t].pc
  BY <1>1, <1>3, AbsentValues DEF Old
<1>5. /\ Old(me[t]) \in MeCall \cup {NoCall}
      /\ Old(me[t]) # NoCall => Old(me[t]).old /\ me[t] # NoCall
  BY <1>2, <1>3, AbsentValues DEF Old
<1> QED
  BY <1>4, <1>5

LEMMA LoginReturnsIsSound == ASSUME SessionInv, NEW t \in Tabs, LoginReturns(t) PROVE SessionInv'
<1>1. call' = [call EXCEPT ![t] = NoCall] /\ UNCHANGED request
  BY DEF LoginReturns
<1>2. CASE UNCHANGED <<memory, storage, user, late, refreshing, me>>
  <2>1. ServerIsSound' /\ issued' >= issued /\ issued' \in Nat
    <3>1. CASE UNCHANGED server
      BY <1>2, <3>1, TabPieces DEF server, ServerIsSound
    <3>2. CASE \E token \in Token : Issue(call[t].user, token)
      BY <1>2, <3>2, IssuesAreNew
    <3> QED
      BY <3>1, <3>2 DEF LoginReturns
  <2>2. Holds(memory[t], refreshing[t], request[t], NoCall, issued')
    <3>1. Holds(memory[t], refreshing[t], request[t], NoCall, issued)
      BY TabPieces DEF Holds
    <3>2. issued \in Nat
      BY TabPieces
    <3> QED
      BY <2>1, <3>1, <3>2, TabValues, HoldsLonger
  <2>3. late[t] \/ \E o : BelongsTo(o, memory[t], refreshing[t], me[t], NoCall, user[t])
    BY TabPieces DEF BelongsTo
  <2>4. /\ memory' = [memory EXCEPT ![t] = memory[t]]
        /\ refreshing' = [refreshing EXCEPT ![t] = refreshing[t]]
        /\ request' = [request EXCEPT ![t] = request[t]] /\ me' = [me EXCEPT ![t] = me[t]]
        /\ user' = [user EXCEPT ![t] = user[t]] /\ late' = [late EXCEPT ![t] = late[t]]
    BY <1>1, <1>2, TabUnmoved
  <2> QED
    BY <1>1, <2>1, <2>2, <2>3, <2>4, TabValues, TabActs
<1>3. CASE \E token \in Token : /\ Issue(call[t].user, token) /\ LoggedIn(t, token) /\ HandedOver(t)
                                /\ late' = [late EXCEPT ![t] = FALSE]
  <2>1. PICK token \in Token : /\ Issue(call[t].user, token) /\ LoggedIn(t, token) /\ HandedOver(t)
                               /\ late' = [late EXCEPT ![t] = FALSE]
    BY <1>3
  <2> DEFINE m == Pair(token)
             f == Old(refreshing[t])
             e == Old(me[t])
  <2>2. /\ memory' = [memory EXCEPT ![t] = m] /\ storage' = Pair(token)
        /\ user' = [user EXCEPT ![t] = token.user]
        /\ refreshing' = [refreshing EXCEPT ![t] = f] /\ me' = [me EXCEPT ![t] = e]
    BY <2>1 DEF LoggedIn, SetToken, HandedOver
  <2>3. /\ token.user \in Users
        /\ ServerIsSound' /\ issued' >= issued
        /\ Known(token, issued')
        /\ \A old \in Token \cup {NoToken} :
             Known(old, issued) => Known(old, issued') /\ old # token
    BY <2>1, <2>2, IssuesAreNew
  <2>4. m \in Sessions /\ m.token = token /\ m = Pair(m.token)
    BY DEF Pair, Sessions
  <2>5. Holds(m, f, request[t], NoCall, issued')
    <3>1. \A r \in Requests : request[t][r].first \in Token \cup {NoToken}
      BY TabPieces DEF Request
    <3>2. refreshing[t] # NoCall => refreshing[t].token \in Token
      BY TabPieces DEF RefreshCall
    <3> HIDE DEF m, f
    <3>3. f # NoCall => f.token = refreshing[t].token /\ f.pc = refreshing[t].pc /\ refreshing[t] # NoCall
      BY OldCalls DEF f
    <3>4. refreshing[t] # NoCall => f # NoCall
      BY OldCalls DEF f
    <3> QED
      BY <2>3, <2>4, <3>1, <3>2, <3>3, <3>4, TabPieces DEF Holds
  <2>6. BelongsTo(token.user, m, f, e, NoCall, token.user)
    <3> HIDE DEF m
    <3> QED
      BY <2>4, OldCalls DEF BelongsTo
  <2>7. f \in RefreshCall \cup {NoCall} /\ e \in MeCall \cup {NoCall}
    BY OldCalls
  <2>8. request' = [request EXCEPT ![t] = request[t]]
    BY <1>1, TabUnmoved
  <2> HIDE DEF m, f, e
  <2> QED
    BY <1>1, <2>1, <2>2, <2>3, <2>4, <2>5, <2>6, <2>7, <2>8, TabValues, TabActs
<1> QED
  BY <1>2, <1>3 DEF LoginReturns, client, server

LEMMA CompleteOAuthSessionIsSound ==
  ASSUME SessionInv, NEW t \in Tabs, CompleteOAuthSession(t)
  PROVE  SessionInv'
<1>1. /\ call[t] # NoCall /\ call[t].op = "oauth" /\ call' = [call EXCEPT ![t] = NoCall]
      /\ UNCHANGED <<refreshing, request, me, late>> /\ UNCHANGED server
  BY DEF CompleteOAuthSession
<1>2. ServerIsSound' /\ issued' >= issued
  <2>1. UNCHANGED storage \/ storage' = NoSession
    BY DEF CompleteOAuthSession, client, ClearSession, SetToken
  <2>2. Known(NoToken, issued)
    BY DEF Known
  <2> QED
    BY <1>1, <2>1, <2>2, StoresWholePairs
<1>3. CASE user' = [user EXCEPT ![t] = call[t].user] /\ UNCHANGED client
  <2> DEFINE u == call[t].user
  <2>1. u \in Users \cup {NoUser}
    BY <1>1, TabPieces DEF Holds
  <2>2. Holds(memory[t], refreshing[t], request[t], NoCall, issued')
    BY <1>1, TabPieces DEF server, Holds
  <2>3. late[t] \/ \E o : BelongsTo(o, memory[t], refreshing[t], me[t], NoCall, u)
    BY <1>1, TabPieces DEF BelongsTo
  <2>4. /\ memory' = [memory EXCEPT ![t] = memory[t]]
        /\ refreshing' = [refreshing EXCEPT ![t] = refreshing[t]]
        /\ request' = [request EXCEPT ![t] = request[t]] /\ me' = [me EXCEPT ![t] = me[t]]
        /\ late' = [late EXCEPT ![t] = late[t]]
    BY <1>1, <1>3, TabUnmoved DEF client
  <2>5. call' = [call EXCEPT ![t] = NoCall] /\ user' = [user EXCEPT ![t] = u]
    BY <1>1, <1>3
  <2> HIDE DEF u
  <2> QED
    BY <1>2, <2>1, <2>2, <2>3, <2>4, <2>5, TabValues, TabActs
<1>4. CASE ClearSession(t) /\ user' = [user EXCEPT ![t] = NoUser]
  <2>1. /\ refreshing' = [refreshing EXCEPT ![t] = refreshing[t]]
        /\ request' = [request EXCEPT ![t] = request[t]] /\ me' = [me EXCEPT ![t] = me[t]]
        /\ call' = [call EXCEPT ![t] = NoCall] /\ UNCHANGED <<late, issued>>
    BY <1>1, TabUnmoved DEF server
  <2>2. refreshing[t] = NoCall => \A r \in Requests : request[t][r].pc # "waiting" \/ refreshing[t] = NoCall
    OBVIOUS
  <2> QED
    BY <1>2, <1>4, <2>1, <2>2, TabValues, ClearedTabs
<1> QED
  BY <1>3, <1>4 DEF CompleteOAuthSession

LEMMA LogoutReturnsIsSound ==
  ASSUME SessionInv, NEW t \in Tabs, LogoutReturns(t)
  PROVE  SessionInv'
<1>1. /\ ClearSession(t) /\ user' = [user EXCEPT ![t] = NoUser] /\ HandedOver(t)
      /\ call' = [call EXCEPT ![t] = NoCall] /\ UNCHANGED <<request, late>>
  BY DEF LogoutReturns
<1>2. /\ access' \subseteq access /\ UNCHANGED issued
      /\ \/ UNCHANGED current
         \/ \E u \in Users : current' = [current EXCEPT ![u] = NoToken]
  <2>1. CASE UNCHANGED server
    BY <2>1 DEF server
  <2>2. CASE call[t].token \in access
    <3>1. call[t].token.user \in Users
      BY <2>2, TabPieces DEF ServerIsSound, Token
    <3> QED
      BY <3>1 DEF LogoutReturns, server
  <2> QED
    BY <2>1, <2>2 DEF LogoutReturns
<1>3. ServerIsSound'
  <2>1. storage' = NoSession
    BY <1>1 DEF ClearSession, SetToken
  <2>2. NoSession \in Sessions /\ NoSession = Pair(NoSession.token) /\ Known(NoSession.token, issued)
    BY DEF NoSession, Pair, Sessions, Known
  <2>3. Known(NoToken, issued)
    BY DEF Known
  <2> QED
    BY <1>2, <2>1, <2>2, <2>3, TabPieces DEF ServerIsSound
<1>4. /\ refreshing' = [refreshing EXCEPT ![t] = Old(refreshing[t])]
      /\ me' = [me EXCEPT ![t] = Old(me[t])]
  BY <1>1 DEF HandedOver
<1> DEFINE f == Old(refreshing[t])
           e == Old(me[t])
<1>5. /\ f \in RefreshCall \cup {NoCall} /\ e \in MeCall \cup {NoCall}
      /\ \/ f = refreshing[t] \/ f = NoCall
         \/ refreshing[t] # NoCall /\ f = [refreshing[t] EXCEPT !.old = TRUE]
      /\ \/ e = me[t] \/ e = NoCall
         \/ me[t] # NoCall /\ e = [me[t] EXCEPT !.old = TRUE]
      /\ f = NoCall => refreshing[t] = NoCall
  BY OldCalls DEF Old
<1>6. /\ refreshing' = [refreshing EXCEPT ![t] = f] /\ me' = [me EXCEPT ![t] = e]
      /\ request' = [request EXCEPT ![t] = request[t]] /\ UNCHANGED <<late, issued>>
      /\ call' = [call EXCEPT ![t] = NoCall] /\ user' = [user EXCEPT ![t] = NoUser]
      /\ ClearSession(t)
  BY <1>1, <1>2, <1>4, TabUnmoved
<1> HIDE DEF f, e
<1> QED
  BY <1>3, <1>5, <1>6, TabValues, ClearedTabs
-----------------------------------------------------------------------------
(* Requests of the pages, and their refresh. *)

\* A request or the refresh goes on, nothing else of the tab.
RestStands == UNCHANGED <<memory, storage, me, call, user, late, access, current, issued>>

LEMMA RequestsMove ==
  ASSUME SessionInv, NEW t \in Tabs, NEW f \in RefreshCall \cup {NoCall},
         NEW q \in [Requests -> Request],
         RestStands,
         refreshing' = [refreshing EXCEPT ![t] = f], request' = [request EXCEPT ![t] = q],
         Holds(memory[t], f, q, call[t], issued),
         f # NoCall /\ ~f.old =>
           \/ memory[t].token # NoToken /\ f.token.user = memory[t].token.user
           \/ /\ refreshing[t] # NoCall /\ ~refreshing[t].old
              /\ f.token.user = refreshing[t].token.user
  PROVE  SessionInv'
<1>1. ServerIsSound' /\ issued' >= issued /\ issued' = issued
  BY TabPieces DEF ServerIsSound, RestStands
<1>2. late[t] \/ \E o : BelongsTo(o, memory[t], f, me[t], call[t], user[t])
  <2>1. ASSUME NEW o, BelongsTo(o, memory[t], refreshing[t], me[t], call[t], user[t])
        PROVE  BelongsTo(o, memory[t], f, me[t], call[t], user[t])
    BY <2>1 DEF BelongsTo
  <2> QED
    BY <2>1, TabPieces
<1> DEFINE m == memory[t]
           e == me[t]
           c == call[t]
           u == user[t]
           l == late[t]
<1>3. /\ memory' = [memory EXCEPT ![t] = m] /\ me' = [me EXCEPT ![t] = e]
      /\ call' = [call EXCEPT ![t] = c]
      /\ user' = [user EXCEPT ![t] = u] /\ late' = [late EXCEPT ![t] = l]
  BY TabUnmoved DEF RestStands
<1>4. /\ m \in Sessions /\ e \in MeCall \cup {NoCall} /\ c \in AuthCall \cup {NoCall}
      /\ u \in Users \cup {NoUser} /\ l \in BOOLEAN
  BY TabValues
<1>5. Holds(m, f, q, c, issued') /\ (l \/ \E o : BelongsTo(o, m, f, e, c, u))
  BY <1>1, <1>2
<1> HIDE DEF m, e, c, u, l
<1> QED
  BY <1>1, <1>3, <1>4, <1>5, TabActs

LEMMA SendIsSound ==
  ASSUME SessionInv, NEW t \in Tabs, NEW r \in Requests, Send(t, r) \/ Answered(t, r)
  PROVE  SessionInv'
<1>1. PICK x \in Request :
        /\ request' = [request EXCEPT ![t][r] = x]
        /\ x.first \in {memory[t].token, NoToken} /\ ~x.retried /\ x.pc # "waiting"
        /\ x.pc = "sent" => refreshing[t] = NoCall \/ memory[t].token = x.first
  <2>1. CASE Send(t, r)
    <3> DEFINE x == [NoRequest EXCEPT !.pc = "sent", !.token = memory[t].token, !.first = memory[t].token]
    <3>1. /\ x \in Request /\ x.first = memory[t].token /\ ~x.retried /\ x.pc = "sent"
      BY TabValues DEF NoRequest, Request, Sessions
    <3>2. request' = [request EXCEPT ![t][r] = x]
      BY <2>1 DEF Send, RequestToken
    <3> HIDE DEF x
    <3> QED
      BY <3>1, <3>2
  <2>2. CASE Answered(t, r)
    <3>1. NoRequest \in Request /\ NoRequest.first = NoToken /\ ~NoRequest.retried /\ NoRequest.pc = "none"
      BY DEF NoRequest, Request
    <3> QED
      BY <2>2, <3>1 DEF Answered
  <2> QED
    BY <2>1, <2>2
<1>2. RestStands /\ UNCHANGED refreshing
  BY DEF Send, Answered, client, server, account, RestStands
<1> DEFINE q == [request[t] EXCEPT ![r] = x]
<1>3. q \in [Requests -> Request] /\ \A s \in Requests : q[s] = IF s = r THEN x ELSE request[t][s]
  BY TabValues
<1>4. request' = [request EXCEPT ![t] = q]
  BY <1>1
<1> HIDE DEF q
<1>5. Holds(memory[t], refreshing[t], q, call[t], issued)
  <2>1. Holds(memory[t], refreshing[t], request[t], call[t], issued)
    BY TabPieces
  <2>2. Known(x.first, issued)
    BY <1>1, <2>1 DEF Holds, Known
  <2>3. refreshing[t] # NoCall => refreshing[t].token # NoToken
    BY TabValues, AbsentValues DEF RefreshCall
  <2> QED
    BY <1>1, <1>3, <2>1, <2>2, <2>3 DEF Holds
<1>6. refreshing' = [refreshing EXCEPT ![t] = refreshing[t]]
  BY <1>2, TabUnmoved
<1>7. refreshing[t] # NoCall /\ ~refreshing[t].old =>
        /\ refreshing[t] # NoCall /\ ~refreshing[t].old
        /\ refreshing[t].token.user = refreshing[t].token.user
  OBVIOUS
<1>8. refreshing[t] \in RefreshCall \cup {NoCall} /\ q \in [Requests -> Request]
  BY <1>3, TabValues
<1> QED
  BY <1>2, <1>4, <1>5, <1>6, <1>7, <1>8, RequestsMove

LEMMA RefusedIsSound ==
  ASSUME SessionInv, NEW t \in Tabs, NEW r \in Requests, Refused(t, r)
  PROVE  SessionInv'
<1>1. /\ request[t][r].pc = "sent"
      /\ UNCHANGED <<me, call, user, late>> /\ UNCHANGED <<access, current, issued>>
  BY DEF Refused, account, server
<1> DEFINE none == [request[t] EXCEPT ![r] = NoRequest]
<1>2. /\ none \in [Requests -> Request]
      /\ \A s \in Requests : none[s] = IF s = r THEN NoRequest ELSE request[t][s]
  BY TabValues DEF NoRequest, Request
<1>3. CASE /\ request' = [request EXCEPT ![t][r] = NoRequest] /\ UNCHANGED <<client, refreshing>>
  <2>1. request' = [request EXCEPT ![t] = none] /\ RestStands /\ UNCHANGED refreshing
    BY <1>1, <1>3 DEF client, RestStands
  <2> HIDE DEF none
  <2>2. Holds(memory[t], refreshing[t], none, call[t], issued)
    <3>1. Holds(memory[t], refreshing[t], request[t], call[t], issued)
      BY TabPieces
    <3>2. refreshing[t] # NoCall => refreshing[t].token # NoToken
      BY TabValues, AbsentValues DEF RefreshCall
    <3> QED
      BY <1>2, <3>1, <3>2 DEF Holds, NoRequest, Known
  <2>3. refreshing' = [refreshing EXCEPT ![t] = refreshing[t]]
    BY <2>1, TabUnmoved
  <2>4. refreshing[t] # NoCall /\ ~refreshing[t].old =>
          /\ refreshing[t] # NoCall /\ ~refreshing[t].old
          /\ refreshing[t].token.user = refreshing[t].token.user
    OBVIOUS
  <2> QED
    BY <1>2, <2>1, <2>2, <2>3, <2>4, TabValues, RequestsMove
<1>4. CASE /\ request' = [request EXCEPT ![t][r] = NoRequest] /\ ClearSession(t)
           /\ UNCHANGED refreshing
  <2>1. request' = [request EXCEPT ![t] = none]
    BY <1>4
  <2> HIDE DEF none
  <2>2. ServerIsSound'
    <3>1. storage' = NoSession /\ UNCHANGED server /\ Known(NoToken, issued)
      BY <1>1, <1>4 DEF ClearSession, SetToken, server, Known
    <3> QED
      BY <3>1, StoresWholePairs
  <2>3. /\ refreshing' = [refreshing EXCEPT ![t] = refreshing[t]]
        /\ me' = [me EXCEPT ![t] = me[t]] /\ call' = [call EXCEPT ![t] = call[t]]
        /\ user' = [user EXCEPT ![t] = user[t]]
    BY <1>1, <1>4, TabUnmoved
  <2>4. \A s \in Requests : none[s] \in {request[t][s], NoRequest}
    BY <1>2
  <2> QED
    BY <1>1, <1>2, <1>4, <2>1, <2>2, <2>3, <2>4, TabValues, ClearedTabs
<1>5. CASE /\ memory[t].refresh # NoToken /\ UNCHANGED client
           /\ request' = [request EXCEPT ![t][r].pc = "waiting"]
           /\ refreshing' = IF refreshing[t] # NoCall THEN refreshing
                            ELSE [refreshing EXCEPT ![t] =
                              [pc |-> "sent", token |-> memory[t].refresh, old |-> FALSE]]
  <2> DEFINE x == [request[t][r] EXCEPT !.pc = "waiting"]
             q == [request[t] EXCEPT ![r] = x]
             begun == [pc |-> "sent", token |-> memory[t].refresh, old |-> FALSE]
             f == IF refreshing[t] # NoCall THEN refreshing[t] ELSE begun
  <2>1. RestStands
    BY <1>1, <1>5 DEF client, RestStands
  <2>2. /\ x \in Request /\ x.first = request[t][r].first /\ x.token = request[t][r].token
        /\ x.retried = request[t][r].retried
    BY TabValues DEF Request
  <2> HIDE DEF x
  <2>3. q \in [Requests -> Request] /\ \A s \in Requests : q[s] = IF s = r THEN x ELSE request[t][s]
    BY <2>2, TabValues
  <2>4. request' = [request EXCEPT ![t] = q]
    BY <1>5 DEF x
  <2>5. /\ memory[t].refresh = memory[t].token /\ memory[t].token \in Token
    <3>1. memory[t] = Pair(memory[t].token)
      BY TabPieces DEF Holds
    <3>2. \A token : Pair(token).refresh = token
      BY DEF Pair
    <3>3. memory[t].refresh = memory[t].token
      BY <3>1, <3>2
    <3> QED
      BY <1>5, <3>3, TabValues DEF Sessions
  <2>6. begun \in RefreshCall /\ begun.token = memory[t].token /\ begun.pc = "sent"
    BY <2>5 DEF RefreshCall
  <2>7. refreshing' = [refreshing EXCEPT ![t] = f]
    BY <1>5, TabPieces
  <2> HIDE DEF q, begun
  <2>8. f \in RefreshCall /\ f # NoCall /\ (f = refreshing[t] \/ (f = begun /\ refreshing[t] = NoCall))
    BY <2>6, TabValues, AbsentValues
  <2> HIDE DEF f
  <2>9. Holds(memory[t], f, q, call[t], issued)
    <3>1. Holds(memory[t], refreshing[t], request[t], call[t], issued)
      BY TabPieces
    <3>2. Known(f.token, issued) /\ (f.pc = "renewed" => f = refreshing[t])
      BY <2>6, <2>8, <3>1 DEF Holds
    <3> QED
      BY <2>2, <2>3, <2>8, <3>1, <3>2 DEF Holds
  <2>10. ~f.old =>
           \/ memory[t].token # NoToken /\ f.token.user = memory[t].token.user
           \/ /\ refreshing[t] # NoCall /\ ~refreshing[t].old
              /\ f.token.user = refreshing[t].token.user
    BY <2>5, <2>6, <2>8, AbsentValues
  <2> QED
    BY <2>1, <2>3, <2>4, <2>7, <2>8, <2>9, <2>10, RequestsMove
<1> QED
  BY <1>3, <1>4, <1>5 DEF Refused
\* The server finds the token of a refresh, and then issues a pair for its user.
LEMMA FindRefreshTokenIsSound ==
  ASSUME SessionInv, NEW t \in Tabs, FindRefreshToken(t)
  PROVE  SessionInv'
<1> DEFINE f == [refreshing[t] EXCEPT !.pc = "found"]
<1>1. /\ refreshing[t] # NoCall /\ refreshing' = [refreshing EXCEPT ![t] = f] /\ UNCHANGED request
  BY DEF FindRefreshToken
<1>2. RestStands
  BY DEF FindRefreshToken, client, account, server, RestStands
<1>3. /\ f \in RefreshCall /\ f.token = refreshing[t].token /\ f.old = refreshing[t].old
      /\ f.pc = "found"
  BY <1>1, TabValues DEF RefreshCall
<1>4. request' = [request EXCEPT ![t] = request[t]]
  BY <1>1, TabUnmoved
<1> HIDE DEF f
<1>5. Holds(memory[t], f, request[t], call[t], issued)
  <2>1. Holds(memory[t], refreshing[t], request[t], call[t], issued)
    BY TabPieces
  <2>2. f # NoCall
    BY <1>3, AbsentValues
  <2> QED
    BY <1>1, <1>3, <2>1, <2>2 DEF Holds
<1> QED
  BY <1>1, <1>2, <1>3, <1>4, <1>5, TabValues, RequestsMove

LEMMA RefreshIsSound ==
  ASSUME SessionInv, NEW t \in Tabs, Refresh(t)
  PROVE  SessionInv'
<1>1. PICK token \in Token :
        /\ Issue(refreshing[t].token.user, token)
        /\ refreshing' = [refreshing EXCEPT ![t].pc = "renewed", ![t].token = token]
  BY DEF Refresh
<1> DEFINE f == [refreshing[t] EXCEPT !.pc = "renewed", !.token = token]
<1>2. /\ UNCHANGED <<memory, storage, request, me, call, user, late>> /\ refreshing[t] # NoCall
      /\ refreshing' = [refreshing EXCEPT ![t] = f]
  BY <1>1 DEF Refresh, client, account
<1>3. /\ token.user = refreshing[t].token.user
      /\ ServerIsSound' /\ issued' >= issued /\ issued' \in Nat /\ Known(token, issued')
      /\ \A old \in Token \cup {NoToken} : Known(old, issued) => Known(old, issued') /\ old # token
  BY <1>1, <1>2, IssuesAreNew
<1>4. f \in RefreshCall /\ f.token = token /\ f.old = refreshing[t].old
  BY <1>2, TabValues DEF RefreshCall
<1> HIDE DEF f
<1>5. f # NoCall
  BY <1>4, AbsentValues
<1>6. Holds(memory[t], f, request[t], call[t], issued')
  <2>1. /\ Holds(memory[t], refreshing[t], request[t], call[t], issued)
        /\ memory[t].token \in Token \cup {NoToken}
        /\ \A r \in Requests : request[t][r].first \in Token \cup {NoToken}
    BY TabPieces DEF Sessions, Request
  <2> QED
    BY <1>3, <1>4, <1>5, <2>1 DEF Holds
<1>7. late[t] \/ \E o : BelongsTo(o, memory[t], f, me[t], call[t], user[t])
  <2>1. ASSUME NEW o, BelongsTo(o, memory[t], refreshing[t], me[t], call[t], user[t])
        PROVE  BelongsTo(o, memory[t], f, me[t], call[t], user[t])
    BY <1>2, <1>3, <1>4, <2>1 DEF BelongsTo
  <2> QED
    BY <2>1, TabPieces
<1>8. /\ memory' = [memory EXCEPT ![t] = memory[t]] /\ request' = [request EXCEPT ![t] = request[t]]
      /\ me' = [me EXCEPT ![t] = me[t]] /\ call' = [call EXCEPT ![t] = call[t]]
      /\ user' = [user EXCEPT ![t] = user[t]] /\ late' = [late EXCEPT ![t] = late[t]]
  BY <1>2, TabUnmoved
<1>9. f \in RefreshCall \cup {NoCall} /\ refreshing' = [refreshing EXCEPT ![t] = f]
  BY <1>2, <1>4
<1> QED
  BY <1>3, <1>6, <1>7, <1>8, <1>9, TabValues, TabActs

\* The answer of a refresh: the pair that was issued is stored, and what waited is sent
\* again with it.
LEMMA RenewedIsSound ==
  ASSUME SessionInv, NEW t \in Tabs, Renewed(t)
  PROVE  SessionInv'
<1> DEFINE token == refreshing[t].token
           m == Pair(token)
           q == Resumed(t, token)
           l == late[t] \/ refreshing[t].old
<1>1. /\ refreshing[t] # NoCall /\ refreshing[t].pc = "renewed"
      /\ memory' = [memory EXCEPT ![t] = m] /\ storage' = Pair(token)
      /\ late' = [late EXCEPT ![t] = l] /\ request' = [request EXCEPT ![t] = q]
      /\ refreshing' = [refreshing EXCEPT ![t] = NoCall]
      /\ UNCHANGED <<me, call, user>> /\ UNCHANGED server
  BY DEF Renewed, SetToken
<1>2. token \in Token /\ refreshing[t].old \in BOOLEAN
  BY <1>1, TabValues DEF RefreshCall
<1>3. m \in Sessions /\ m.token = token /\ m = Pair(m.token)
  BY <1>2 DEF Pair, Sessions
<1>4. /\ q \in [Requests -> Request]
      /\ \A r \in Requests :
           /\ q[r].first = request[t][r].first /\ q[r].pc # "waiting"
           /\ request[t][r].pc # "waiting" => q[r] = request[t][r]
           /\ request[t][r].pc = "waiting" => q[r].token = token
  <2>1. ASSUME NEW r \in Requests
        PROVE  /\ q[r] \in Request
               /\ q[r].first = request[t][r].first /\ q[r].pc # "waiting"
               /\ request[t][r].pc # "waiting" => q[r] = request[t][r]
               /\ request[t][r].pc = "waiting" => q[r].token = token
    <3>1. request[t][r] \in Request
      BY TabValues
    <3> QED
      BY <1>2, <3>1 DEF Resumed, Request
  <2> QED
    BY <2>1 DEF Resumed
<1>5. Known(token, issued) /\ \A r \in Requests : token # request[t][r].first
  BY <1>1, TabPieces DEF Holds
<1>6. ServerIsSound' /\ issued' >= issued /\ issued' = issued
  BY <1>1, <1>2, <1>5, StoresWholePairs DEF server
<1>7. l \/ \E o : BelongsTo(o, m, NoCall, me[t], call[t], user[t])
  <2>1. late[t] \/ refreshing[t].old \/ \E o :
          /\ BelongsTo(o, memory[t], refreshing[t], me[t], call[t], user[t]) /\ token.user = o
    BY <1>1, <1>2, TabPieces DEF BelongsTo
  <2> HIDE DEF token, m
  <2> QED
    BY <1>3, <2>1 DEF BelongsTo
<1>8. l \in BOOLEAN
  BY <1>2, TabValues
<1> HIDE DEF token, m, q, l
<1>9. Holds(m, NoCall, q, call[t], issued')
  <2>1. Holds(memory[t], refreshing[t], request[t], call[t], issued)
    BY TabPieces
  <2> QED
    BY <1>3, <1>4, <1>5, <1>6, <2>1 DEF Holds
<1>10. /\ me' = [me EXCEPT ![t] = me[t]] /\ call' = [call EXCEPT ![t] = call[t]]
       /\ user' = [user EXCEPT ![t] = user[t]]
  BY <1>1, TabUnmoved
<1>11. /\ memory' = [memory EXCEPT ![t] = m] /\ late' = [late EXCEPT ![t] = l]
       /\ request' = [request EXCEPT ![t] = q] /\ refreshing' = [refreshing EXCEPT ![t] = NoCall]
  BY <1>1
<1> QED
  BY <1>3, <1>4, <1>6, <1>7, <1>8, <1>9, <1>10, <1>11, TabValues, TabActs

LEMMA RefreshFailsIsSound ==
  ASSUME SessionInv, NEW t \in Tabs, RefreshFails(t)
  PROVE  SessionInv'
<1> DEFINE q == GivenUp(t)
<1>1. /\ refreshing[t] # NoCall /\ ClearSession(t) /\ request' = [request EXCEPT ![t] = q]
      /\ refreshing' = [refreshing EXCEPT ![t] = NoCall]
      /\ UNCHANGED <<me, call, user, late>> /\ UNCHANGED server
  BY DEF RefreshFails, NotRenewed, account
<1>2. /\ q \in [Requests -> Request]
      /\ \A r \in Requests : q[r] \in {request[t][r], NoRequest} /\ q[r].pc # "waiting"
  BY TabValues DEF GivenUp, Request, NoRequest
<1>3. ServerIsSound' /\ issued' = issued
  <2>1. storage' = NoSession /\ Known(NoToken, issued)
    BY <1>1 DEF ClearSession, SetToken, Known
  <2> QED
    BY <1>1, <2>1, StoresWholePairs DEF server
<1> HIDE DEF q
<1>4. /\ me' = [me EXCEPT ![t] = me[t]] /\ call' = [call EXCEPT ![t] = call[t]]
      /\ user' = [user EXCEPT ![t] = user[t]] /\ UNCHANGED <<late, issued>>
  BY <1>1, <1>3, TabUnmoved
<1>5. /\ ClearSession(t) /\ request' = [request EXCEPT ![t] = q]
      /\ refreshing' = [refreshing EXCEPT ![t] = NoCall]
  BY <1>1
<1>6. \A r \in Requests : q[r] \in {request[t][r], NoRequest}
  BY <1>2
<1>7. \A r \in Requests : q[r].pc # "waiting" \/ refreshing[t] = NoCall
  BY <1>2
<1> QED
  BY <1>2, <1>3, <1>4, <1>5, <1>6, <1>7, TabValues, ClearedTabs
-----------------------------------------------------------------------------
(* The server and other devices, and the theorems. *)

LEMMA OthersAreSound ==
  ASSUME SessionInv,
         \/ \E token \in access : Expire(token)
         \/ \E u \in Users : LoginElsewhere(u)
         \/ OtherTab
  PROVE  SessionInv'
<1>1. UNCHANGED <<memory, refreshing, request, me, call, user, late>>
  BY DEF Expire, LoginElsewhere, OtherTab, client, account
<1>2. ServerIsSound /\ issued \in Nat
  BY DEF SessionInv, ServerIsSound
<1>3. ServerIsSound' /\ issued' >= issued
  <2>1. CASE \E token \in access : Expire(token)
    <3>1. access' \subseteq access /\ UNCHANGED <<storage, current, issued>>
      BY <2>1 DEF Expire, client
    <3> QED
      BY <1>2, <3>1 DEF ServerIsSound
  <2>2. CASE \E u \in Users : LoginElsewhere(u)
    <3>1. PICK u \in Users, token \in Token : Issue(u, token) /\ UNCHANGED storage
      BY <2>2 DEF LoginElsewhere, client
    <3> QED
      BY <3>1, IssuesAreNew
  <2>3. CASE OtherTab
    <3>1. PICK token \in access \cup {current[u] : u \in Users} \cup {NoToken} :
            storage' = Pair(token) /\ UNCHANGED server
      BY <2>3 DEF OtherTab
    <3>2. token \in Token \cup {NoToken} /\ Known(token, issued)
      BY <1>2 DEF ServerIsSound, Known
    <3> QED
      BY <3>1, <3>2, StoresWholePairs
  <2> QED
    BY <2>1, <2>2, <2>3
<1> QED
  BY <1>1, <1>3, TabsStand

LEMMA InitIsSound == Init => SessionInv
<1> SUFFICES ASSUME Init PROVE SessionInv
  OBVIOUS
<1>1. NoSession \in Sessions /\ NoSession.token = NoToken /\ NoSession = Pair(NoSession.token)
  BY DEF NoSession, Pair, Sessions
<1>2. /\ NoRequest \in Request /\ NoRequest.pc = "none" /\ ~NoRequest.retried
      /\ NoRequest.first = NoToken
  BY DEF NoRequest, Request
<1>3. TabTypes
  BY <1>1, <1>2 DEF Init, TabTypes
<1>4. ServerIsSound
  BY <1>1 DEF Init, ServerIsSound, Known
<1>5. ASSUME NEW t \in Tabs
      PROVE  TabIsSound(t)
  <2>1. /\ memory[t] = NoSession /\ refreshing[t] = NoCall /\ me[t] = NoCall /\ call[t] = NoCall
        /\ user[t] = NoUser /\ \A r \in Requests : request[t][r] = NoRequest
    BY DEF Init
  <2>2. Holds(memory[t], refreshing[t], request[t], call[t], issued)
    BY <1>1, <1>2, <2>1 DEF Holds, Known
  <2>3. BelongsTo(NoUser, memory[t], refreshing[t], me[t], call[t], user[t])
    BY <1>1, <2>1 DEF BelongsTo
  <2> QED
    BY <2>2, <2>3 DEF TabIsSound
<1> QED
  BY <1>3, <1>4, <1>5 DEF SessionInv

\* The invariant of every step.  What a tab holds of the session that is open belongs to one
\* user, because a login, a logout and a page load hand over every call under way, and a
\* call that was handed over and answers all the same is what late records.
THEOREM SessionInvariant == Spec => []SessionInv
<1>1. Init => SessionInv
  BY InitIsSound
<1>2. SessionInv /\ [Next]_vars => SessionInv'
  <2> SUFFICES ASSUME SessionInv, [Next]_vars PROVE SessionInv'
    OBVIOUS
  <2>1. CASE \E t \in Tabs : LoadUser(t) \/ Logout(t) \/ Respond(t)
    BY <2>1, LoadUserIsSound, CallsBegin, MeReturnsIsSound, LoginReturnsIsSound,
       CompleteOAuthSessionIsSound, LogoutReturnsIsSound, FindRefreshTokenIsSound,
       RefreshIsSound, RenewedIsSound, RefreshFailsIsSound DEF Respond
  <2>2. CASE \E t \in Tabs, u \in Users : Login(t, u) \/ AuthCallback(t, u)
    BY <2>2, CallsBegin, AuthCallbackIsSound
  <2>3. CASE \E t \in Tabs, r \in Requests : Send(t, r) \/ RespondTo(t, r)
    BY <2>3, SendIsSound, RefusedIsSound DEF RespondTo
  <2>4. CASE (\E token \in access : Expire(token)) \/ (\E u \in Users : LoginElsewhere(u)) \/ OtherTab
    BY <2>4, OthersAreSound
  <2>5. CASE UNCHANGED vars
    <3>1. /\ UNCHANGED <<memory, refreshing, request, me, call, user, late>>
          /\ UNCHANGED <<storage, access, current, issued>>
      BY <2>5 DEF vars, client, account, server
    <3>2. ServerIsSound' /\ issued' >= issued
      BY <3>1 DEF SessionInv, ServerIsSound
    <3> QED
      BY <3>1, <3>2, TabsStand
  <2> QED
    BY <2>1, <2>2, <2>3, <2>4, <2>5 DEF Next
<1> QED
  BY <1>1, <1>2, PTL DEF Spec

\* The tabs and the server agree on the pairs of tokens: a pair is whole wherever it is kept,
\* a request waits only while a refresh is under way, and what is sent again carries another
\* token than the one that was refused (RetriesCarryAnotherToken).
THEOREM TheSessionsAreSound == Spec => []SessionsAreSound
<1>1. SessionInv => SessionsAreSound
  <2> SUFFICES ASSUME SessionInv PROVE SessionsAreSound
    OBVIOUS
  <2>1. TypeOK
    <3>1. /\ memory \in [Tabs -> Sessions] /\ storage \in Sessions
          /\ user \in [Tabs -> Users \cup {NoUser}]
          /\ access \subseteq Token /\ current \in [Users -> Token \cup {NoToken}]
      BY DEF SessionInv, TabTypes, ServerIsSound
    <3>2. ASSUME NEW t \in Tabs, NEW r \in Requests
          PROVE  /\ request[t][r].pc \in {"none", "sent", "waiting"}
                 /\ request[t][r].pc = "waiting" => refreshing[t] # NoCall
      BY TabPieces DEF Holds, Request
    <3> QED
      BY <3>1, <3>2 DEF TypeOK
  <2>2. PairsAreWhole
    <3>1. ASSUME NEW s, s = Pair(s.token)
          PROVE  s.token = NoToken <=> s.refresh = NoToken
      <4>1. \A token : Pair(token).refresh = token
        BY DEF Pair
      <4> QED
        BY <3>1, <4>1
    <3>2. storage = Pair(storage.token) /\ \A t \in Tabs : memory[t] = Pair(memory[t].token)
      BY DEF SessionInv, ServerIsSound, TabIsSound, Holds
    <3> QED
      BY <3>1, <3>2 DEF PairsAreWhole
  <2>3. RetriesCarryAnotherToken
    BY DEF RetriesCarryAnotherToken, SessionInv, TabIsSound, Holds
  <2> QED
    BY <2>1, <2>2, <2>3 DEF SessionsAreSound
<1> QED
  BY <1>1, SessionInvariant, PTL

\* A step that sends a request of a tab is Send or Renewed of that tab.
LEMMA RequestsAreSent ==
  ASSUME SessionInv, [Next]_vars, NEW t \in Tabs, NEW r \in Requests,
         request[t][r].pc # "sent", request'[t][r].pc = "sent"
  PROVE  Send(t, r) \/ Renewed(t)
<1>1. request \in [Tabs -> [Requests -> Request]]
  BY DEF SessionInv, TabTypes
<1>2. ~UNCHANGED request
  OBVIOUS
<1>3. NoRequest.pc = "none"
  BY DEF NoRequest
<1>4. ASSUME NEW s \in Tabs, NEW pair, Fresh(s, pair)
      PROVE  FALSE
  <2>1. request' = [request EXCEPT ![s] = [v \in Requests |-> NoRequest]]
    BY <1>4 DEF Fresh
  <2> QED
    BY <1>1, <1>3, <2>1
<1>5. ASSUME NEW s \in Tabs, NEW v \in Requests, request' = [request EXCEPT ![s][v] = NoRequest]
      PROVE  FALSE
  BY <1>1, <1>3, <1>5
<1>6. ASSUME NEW s \in Tabs, NEW v \in Requests, Send(s, v)
      PROVE  s = t /\ v = r
  BY <1>1, <1>6 DEF Send
<1>7. ASSUME NEW s \in Tabs, NEW v \in Requests, RespondTo(s, v)
      PROVE  FALSE
  <2>1. CASE request' = [request EXCEPT ![s][v].pc = "waiting"]
    BY <1>1, <2>1 DEF Request
  <2> QED
    BY <1>5, <1>7, <2>1 DEF RespondTo, Answered, Refused
<1>8. ASSUME NEW s \in Tabs, Renewed(s)
      PROVE  s = t
  <2>1. request' = [request EXCEPT ![s] = Resumed(s, refreshing[s].token)]
    BY <1>8 DEF Renewed
  <2> QED
    BY <1>1, <2>1
<1>9. ASSUME NEW s \in Tabs, RefreshFails(s)
      PROVE  FALSE
  <2>1. request' = [request EXCEPT ![s] = GivenUp(s)]
    BY <1>9 DEF RefreshFails, NotRenewed
  <2> QED
    BY <1>1, <1>3, <2>1 DEF GivenUp
<1>10. ASSUME NEW s \in Tabs, LoadUser(s) \/ Logout(s) \/ Respond(s)
       PROVE  Renewed(t)
  BY <1>2, <1>4, <1>8, <1>9, <1>10
  DEF LoadUser, Logout, Respond, MeReturns, LoginReturns, CompleteOAuthSession, LogoutReturns,
      FindRefreshToken, Refresh
<1>11. ~\E s \in Tabs, u \in Users : Login(s, u) \/ AuthCallback(s, u)
  BY <1>2, <1>4 DEF Login, AuthCallback
<1>12. /\ ~\E token \in access : Expire(token)
       /\ ~\E u \in Users : LoginElsewhere(u)
       /\ ~OtherTab /\ ~UNCHANGED vars
  BY <1>2 DEF Expire, LoginElsewhere, OtherTab, vars
<1> QED
  BY <1>6, <1>7, <1>10, <1>11, <1>12 DEF Next

\* A request leaves as the user the tab shows, or an answer of an earlier session was applied
\* (the refresh, or the first /auth/me, that came after a login or a logout of the same tab).
THEOREM TheTabsActAsTheUserTheyShow == Spec => RequestsAreMadeAsTheUserShown
<1>1. SessionInv /\ SessionInv' /\ [Next]_vars =>
        [\A t \in Tabs, r \in Requests :
           /\ request[t][r].pc # "sent" /\ request'[t][r].pc = "sent"
           /\ request'[t][r].token # NoToken /\ user[t] # NoUser
           => late'[t] \/ request'[t][r].token.user = user[t]]_vars
  <2> SUFFICES ASSUME SessionInv, [Next]_vars, NEW t \in Tabs, NEW r \in Requests,
                      request[t][r].pc # "sent", request'[t][r].pc = "sent",
                      request'[t][r].token # NoToken, user[t] # NoUser, ~late'[t]
               PROVE  request'[t][r].token.user = user[t]
    OBVIOUS
  <2>1. request \in [Tabs -> [Requests -> Request]] /\ late \in [Tabs -> BOOLEAN]
    BY DEF SessionInv, TabTypes
  <2>2. late[t] \/ \E o : BelongsTo(o, memory[t], refreshing[t], me[t], call[t], user[t])
    BY TabPieces
  <2>3. CASE Send(t, r)
    <3>1. late'[t] = late[t] /\ request'[t][r].token = memory[t].token
      BY <2>1, <2>3 DEF Send, account, RequestToken, NoRequest
    <3> QED
      BY <2>2, <3>1 DEF BelongsTo
  <2>4. CASE Renewed(t)
    <3>1. /\ refreshing[t] # NoCall /\ late' = [late EXCEPT ![t] = @ \/ refreshing[t].old]
          /\ request' = [request EXCEPT ![t] = Resumed(t, refreshing[t].token)]
      BY <2>4 DEF Renewed
    <3>2. ~late[t] /\ ~refreshing[t].old
      BY <2>1, <3>1
    <3>3. request'[t][r].token = refreshing[t].token
      <4>1. request[t][r] \in Request /\ request'[t][r] = Resumed(t, refreshing[t].token)[r]
        BY <2>1, <3>1
      <4>2. request[t][r].pc = "waiting"
        BY <4>1 DEF Resumed
      <4> QED
        BY <4>1, <4>2 DEF Resumed, Request
    <3> QED
      BY <2>2, <3>1, <3>2, <3>3 DEF BelongsTo
  <2> QED
    BY <2>3, <2>4, RequestsAreSent
<1> QED
  BY <1>1, SessionInvariant, PTL DEF Spec, RequestsAreMadeAsTheUserShown
===============================================================================
