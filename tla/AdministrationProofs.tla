------------------------- MODULE AdministrationProofs -------------------------
(***************************************************************************)
(* The pages of the administration, for any number of people, rows, calls  *)
(* and initiatives: what TLC checks within the budgets of the instance.    *)
(* The parts share nothing, so that each has an invariant of its own.      *)
(***************************************************************************)
EXTENDS Administration, FiniteSetTheorems, TLAPS

-----------------------------------------------------------------------------
(* The team. *)

\* A step of the administration is, for the team, one of its answers or initiatives.
TeamNext == TeamAnswers \/ TeamInitiatives

Op(c) == teamCalls[c].op
About(c) == teamCalls[c].about

TeamTypes ==
  /\ members \in Members
  /\ accounts \subseteq People
  /\ invites \in [Invites -> Invitation]
  /\ joined \in [Invites -> Nat]
  /\ teamCalls \in [TeamCalls -> TeamCallType \cup {NoTeamCall}]
  /\ team \in [People -> [members : Members, invites : SUBSET Invites,
                          status : {"table", "loading", "error", "closed"}]]
  /\ joining \in [People -> {"idle", "busy", "dashboard"}]

\* What a call that is under way has found, by its kind.
CallShape(c) ==
  LET k == teamCalls[c]
  IN /\ k.op = "list" /\ k.step = "read" => k.found \in Members
     /\ k.op = "list" /\ k.step = "done" =>
          k.found \in [members : Members, invites : SUBSET Invites]
     /\ k.op = "role" => k.about \in People /\ k.role \in Role
     /\ k.op = "invite" => k.about \in People /\ k.role \in Role
     /\ k.op \in {"revoke", "signup", "accept"} =>
          k.about \in Invites /\ invites[k.about].status # "free"
     /\ k.op \in {"signup", "accept"} /\ k.step \in {"read", "created", "added", "done"} =>
          /\ k.found \in Invitation
          /\ k.found.email = invites[k.about].email /\ k.found.role \in Role
     /\ k.step = "created" => k.op = "signup"
     /\ k.step = "added" => k.op \in {"signup", "accept"}

\* What the tables have to do with the rows a call has read: nobody loses an account, and
\* nobody who is a member stops being one.
CallFacts(c) ==
  LET k == teamCalls[c]
  IN /\ k.op = "role" /\ k.step = "read" => members[k.about] # "none"
     /\ k.op = "accept" =>
          /\ k.by \in accounts
          /\ k.step \in {"read", "added", "done"} => k.found.email = k.by
     /\ k.op = "signup" /\ k.step \in {"created", "added"} => k.found.email \in accounts
     /\ k.op = "list" /\ k.step = "read" => Rank(k.found[k.by]) >= 2
     /\ k.op = "list" /\ k.step = "done" =>
          /\ Rank(k.found.members[k.by]) >= 2
          /\ \A i \in k.found.invites : invites[i].status # "free"

InvitesHaveAddresses ==
  \A i \in Invites :
    invites[i].status # "free" => invites[i].email \in People /\ invites[i].role \in Role

\* Whoever an invitation admitted is a member for good.
JoinedAreMembers ==
  \A i \in Invites :
    joined[i] <= 1 /\ (joined[i] = 1 => /\ invites[i].status # "free"
                                        /\ members[invites[i].email] # "none")

\* A list is only given to somebody who manages the team.
ListsAreOfManagers ==
  \A p \in People :
    /\ team[p].status = "table" => Rank(team[p].members[p]) >= 2
    /\ \A i \in team[p].invites : invites[i].status # "free"

TeamInv ==
  /\ TeamTypes
  /\ TeamTypeOK
  /\ \A c \in TeamCalls : teamCalls[c] # NoTeamCall => CallShape(c) /\ CallFacts(c)
  /\ InvitesHaveAddresses
  /\ JoinedAreMembers
  /\ ListsAreOfManagers

\* An owner from the start stays one: every list shows it, hence no page offers another role
\* for it, and no request is about it.
StaysOwner(o) ==
  /\ members[o] = "owner"
  /\ \A p \in People : team[p].members[o] = "owner"
  /\ \A c \in TeamCalls :
       teamCalls[c] # NoTeamCall =>
         /\ Op(c) = "list" /\ teamCalls[c].step = "read" => teamCalls[c].found[o] = "owner"
         /\ Op(c) = "list" /\ teamCalls[c].step = "done" => teamCalls[c].found.members[o] = "owner"
         /\ Op(c) = "role" => About(c) # o
-----------------------------------------------------------------------------
\* The ranks of the roles (ROLE_RANK).
LEMMA Ranks ==
  /\ \A r : Rank(r) \in 0 .. 3
  /\ Rank("scanner") = 1 /\ Rank("admin") = 2 /\ Rank("owner") = 3 /\ Rank("none") = 0
BY DEF Rank

\* Members stay members, accounts stay, and an invitation keeps its address and role.
TeamGrows ==
  /\ \A p \in People : members[p] # "none" => members'[p] # "none"
  /\ accounts \subseteq accounts'
  /\ \A i \in Invites :
       invites[i].status # "free" =>
         /\ invites'[i].status # "free"
         /\ invites'[i].email = invites[i].email /\ invites'[i].role = invites[i].role

\* A call that a step does not touch keeps what is true of it.
LEMMA OtherCalls ==
  ASSUME TeamInv, TeamGrows, NEW d \in TeamCalls, teamCalls[d] # NoTeamCall,
         teamCalls'[d] = teamCalls[d]
  PROVE  CallShape(d)' /\ CallFacts(d)'
<1> DEFINE k == teamCalls[d]
<1>1. k \in TeamCallType /\ CallShape(d) /\ CallFacts(d)
  BY DEF TeamInv, TeamTypes
<1>2. CallShape(d)'
  BY <1>1 DEF CallShape, TeamGrows
<1>3. /\ k.op = "role" /\ k.step = "read" => members'[k.about] # "none"
      /\ k.op = "accept" => k.by \in accounts'
      /\ k.op = "signup" /\ k.step \in {"created", "added"} => k.found.email \in accounts'
  BY <1>1 DEF CallShape, CallFacts, TeamGrows, TeamCallType
<1>4. k.op = "list" /\ k.step = "done" => \A i \in k.found.invites : invites'[i].status # "free"
  <2> SUFFICES ASSUME k.op = "list", k.step = "done", NEW i \in k.found.invites
               PROVE  invites'[i].status # "free"
    OBVIOUS
  <2>1. i \in Invites
    BY <1>1 DEF CallShape
  <2> QED
    BY <1>1, <2>1 DEF CallFacts, TeamGrows
<1> QED
  BY <1>1, <1>2, <1>3, <1>4 DEF CallFacts

\* What a step that leaves the tables of invitations and members alone, or adds to them,
\* keeps of the invariant.
LEMMA TablesGrow ==
  ASSUME TeamInv, TeamGrows, UNCHANGED joined,
         \A i \in Invites : invites'[i].status # "free" =>
                              invites'[i].email \in People /\ invites'[i].role \in Role
  PROVE  InvitesHaveAddresses' /\ JoinedAreMembers'
<1>1. ASSUME NEW i \in Invites, joined[i] = 1
      PROVE  /\ invites'[i].status # "free"
             /\ members'[invites'[i].email] # "none"
  BY <1>1 DEF TeamInv, JoinedAreMembers, TeamGrows, InvitesHaveAddresses
<1> QED
  BY <1>1 DEF TeamInv, InvitesHaveAddresses, JoinedAreMembers

\* The lists of the pages, when no page changes.
LEMMA PagesKept ==
  ASSUME TeamInv, TeamGrows, UNCHANGED team PROVE ListsAreOfManagers'
<1> SUFFICES ASSUME NEW p \in People, NEW i \in team[p].invites PROVE invites'[i].status # "free"
  BY DEF TeamInv, ListsAreOfManagers
<1>1. i \in Invites
  BY DEF TeamInv, TeamTypes
<1> QED
  BY <1>1 DEF TeamInv, ListsAreOfManagers, TeamGrows

\* A page that waits keeps its call, when a call only gets on.
Waits(p) ==
  /\ team[p].status = "loading" => \E c \in TeamCalls :
       teamCalls[c] # NoTeamCall /\ teamCalls[c].op = "list" /\ teamCalls[c].by = p
  /\ joining[p] = "busy" => \E c \in TeamCalls :
       teamCalls[c] # NoTeamCall /\ teamCalls[c].op \in {"signup", "accept"} /\ teamCalls[c].by = p

LEMMA StillWaits ==
  ASSUME TeamInv, UNCHANGED <<team, joining>>, NEW c \in TeamCalls, NEW k \in TeamCallType,
         teamCalls[c] # NoTeamCall => k.op = Op(c) /\ k.by = teamCalls[c].by,
         teamCalls' = [teamCalls EXCEPT ![c] = k]
  PROVE  /\ teamCalls' \in [TeamCalls -> TeamCallType \cup {NoTeamCall}]
         /\ \A p \in People : Waits(p)'
<1>1. teamCalls \in [TeamCalls -> TeamCallType \cup {NoTeamCall}] /\ k # NoTeamCall
  BY TeamAssumption DEF TeamInv, TeamTypes
<1>2. \A d \in TeamCalls : teamCalls[d] # NoTeamCall =>
        /\ teamCalls'[d] # NoTeamCall /\ teamCalls'[d].op = teamCalls[d].op
        /\ teamCalls'[d].by = teamCalls[d].by
  BY <1>1 DEF Op
<1>3. \A p \in People : Waits(p)
  BY DEF TeamInv, TeamTypeOK, Waits
<1> QED
  BY <1>1, <1>2, <1>3 DEF Waits

\* A call that gets on: what remains to be shown of the invariant.
LEMMA CallGetsOn ==
  ASSUME TeamInv, TeamGrows, UNCHANGED <<team, joining, joined>>,
         members' \in Members, accounts' \subseteq People, invites' \in [Invites -> Invitation],
         \A p \in People : members'[p] # "none" => p \in accounts',
         \A i \in Invites : invites'[i].status # "free" =>
                              invites'[i].email \in People /\ invites'[i].role \in Role,
         NEW c \in TeamCalls, NEW k \in TeamCallType,
         teamCalls[c] # NoTeamCall => k.op = Op(c) /\ k.by = teamCalls[c].by,
         teamCalls' = [teamCalls EXCEPT ![c] = k],
         CallShape(c)', CallFacts(c)'
  PROVE  TeamInv'
<1>1. TeamTypes'
  BY StillWaits DEF TeamInv, TeamTypes
<1>2. TeamTypeOK'
  BY StillWaits DEF TeamInv, TeamTypeOK, Waits, TeamTypes
<1>3. ASSUME NEW d \in TeamCalls, teamCalls'[d] # NoTeamCall PROVE CallShape(d)' /\ CallFacts(d)'
  <2>1. CASE d = c
    BY <2>1
  <2>2. CASE d # c
    <3>1. teamCalls'[d] = teamCalls[d]
      BY <2>2 DEF TeamInv, TeamTypes
    <3> QED
      BY <1>3, <3>1, OtherCalls
  <2> QED
    BY <2>1, <2>2
<1> QED
  BY <1>1, <1>2, <1>3, TablesGrow, PagesKept DEF TeamInv
-----------------------------------------------------------------------------
(* The answers of the team's server. *)

\* The step of a call, and what it found.
LEMMA Stepped ==
  ASSUME TeamInv, NEW c \in TeamCalls, NEW op, NEW step, TeamAt(c, op, step)
  PROVE  /\ teamCalls[c] # NoTeamCall /\ teamCalls[c] \in TeamCallType
         /\ teamCalls[c].op = op /\ teamCalls[c].step = step
         /\ CallShape(c) /\ CallFacts(c)
BY DEF TeamAt, TeamInv, TeamTypes

\* What the tables are.
LEMMA TablesAreTyped ==
  ASSUME TeamInv
  PROVE  /\ members \in Members /\ accounts \subseteq People
         /\ invites \in [Invites -> Invitation]
         /\ \A p \in People : members[p] # "none" => p \in accounts
         /\ \A i \in Invites : invites[i].status # "free" =>
                              invites[i].email \in People /\ invites[i].role \in Role
BY DEF TeamInv, TeamTypes, TeamTypeOK, InvitesHaveAddresses

\* A call that only reads.
LEMMA CallReads ==
  ASSUME TeamInv, UNCHANGED <<teamServer, team, joining>>,
         NEW c \in TeamCalls, NEW k \in TeamCallType,
         teamCalls[c] # NoTeamCall => k.op = Op(c) /\ k.by = teamCalls[c].by,
         teamCalls' = [teamCalls EXCEPT ![c] = k],
         teamCalls'[c] = k => CallShape(c)' /\ CallFacts(c)'
  PROVE  TeamInv'
<1>1. TeamGrows /\ UNCHANGED <<members, accounts, invites, joined>>
  BY DEF teamServer, TeamGrows
<1>2. teamCalls'[c] = k
  BY DEF TeamInv, TeamTypes
<1> QED
  BY <1>1, <1>2, CallGetsOn, TablesAreTyped

\* A call that is refused, or lost, with nothing written.
LEMMA CallIsRefused ==
  ASSUME TeamInv, UNCHANGED <<teamServer, team, joining>>,
         NEW c \in TeamCalls, teamCalls[c] # NoTeamCall, TeamStep(c, "refused")
  PROVE  TeamInv'
<1> DEFINE k == [teamCalls[c] EXCEPT !.step = "refused"]
<1>1. teamCalls[c] \in TeamCallType /\ CallShape(c) /\ CallFacts(c)
  BY DEF TeamInv, TeamTypes
<1>2. /\ k \in TeamCallType /\ k.op = Op(c) /\ k.by = teamCalls[c].by /\ k.about = About(c)
      /\ k.role = teamCalls[c].role /\ k.step = "refused"
      /\ teamCalls' = [teamCalls EXCEPT ![c] = k]
  BY <1>1 DEF TeamCallType, Op, About, TeamStep
<1>3. ASSUME teamCalls'[c] = k PROVE CallShape(c)' /\ CallFacts(c)'
  BY <1>1, <1>2, <1>3 DEF CallShape, CallFacts, Op, About, teamServer
<1> QED
  BY <1>2, <1>3, CallReads

\* GET /orgs/{id}/members, for somebody who manages the team.
LEMMA ListMembersKeeps == ASSUME TeamInv, NEW c \in TeamCalls, ListMembers(c) PROVE TeamInv'
<1> DEFINE k == [teamCalls[c] EXCEPT !.step = "read", !.found = members]
<1>1. /\ teamCalls[c] # NoTeamCall /\ teamCalls[c] \in TeamCallType /\ Op(c) = "list"
      /\ UNCHANGED <<teamServer, team, joining>>
  BY Stepped DEF ListMembers, Op
<1>2. CASE Manages(teamCalls[c].by)
  <2>1. /\ k \in TeamCallType /\ k.op = "list" /\ k.by = teamCalls[c].by
        /\ k.step = "read" /\ k.found = members
        /\ teamCalls' = [teamCalls EXCEPT ![c] = k]
    BY <1>1, <1>2 DEF TeamInv, TeamTypes, TeamCallType, ListMembers, Op
  <2>2. ASSUME teamCalls'[c] = k PROVE CallShape(c)' /\ CallFacts(c)'
    BY <1>2, <2>1, <2>2, Ranks DEF CallShape, CallFacts, Manages, TeamInv, TeamTypes
  <2> QED
    BY <1>1, <2>1, <2>2, CallReads
<1>3. CASE ~Manages(teamCalls[c].by)
  BY <1>1, <1>3, CallIsRefused DEF ListMembers
<1> QED
  BY <1>2, <1>3

\* GET /orgs/{id}/invites, on the members that were read.
LEMMA ListInvitesKeeps == ASSUME TeamInv, NEW c \in TeamCalls, ListInvites(c) PROVE TeamInv'
<1> DEFINE found == [members |-> teamCalls[c].found, invites |-> Pending]
           k == [teamCalls[c] EXCEPT !.step = "done", !.found = found]
<1>1. /\ teamCalls[c] # NoTeamCall /\ teamCalls[c] \in TeamCallType /\ Op(c) = "list"
      /\ teamCalls[c].step = "read"
      /\ CallShape(c) /\ CallFacts(c)
      /\ UNCHANGED <<teamServer, team, joining>>
  BY Stepped DEF ListInvites, Op
<1>2. CASE Manages(teamCalls[c].by)
  <2>1. found \in [members : Members, invites : SUBSET Invites]
    BY <1>1 DEF CallShape, Pending, Op
  <2>2. /\ k \in TeamCallType /\ k.op = "list" /\ k.by = teamCalls[c].by
        /\ k.step = "done" /\ k.found = found
        /\ teamCalls' = [teamCalls EXCEPT ![c] = k]
    BY <1>1, <1>2, <2>1 DEF TeamCallType, ListInvites, Op
  <2>3. \A i \in Pending : i \in Invites /\ invites[i].status # "free"
    BY DEF Pending
  <2>4. ASSUME teamCalls'[c] = k PROVE CallShape(c)' /\ CallFacts(c)'
    BY <1>1, <2>1, <2>2, <2>3, <2>4 DEF CallShape, CallFacts, Op, teamServer
  <2> QED
    BY <1>1, <2>2, <2>4, CallReads
<1>3. CASE ~Manages(teamCalls[c].by)
  BY <1>1, <1>3, CallIsRefused DEF ListInvites
<1> QED
  BY <1>2, <1>3

\* PATCH /orgs/{id}/members/{user}, the reads: whoever it is about is a member.
LEMMA CheckRoleKeeps == ASSUME TeamInv, NEW c \in TeamCalls, CheckRole(c) PROVE TeamInv'
<1> DEFINE k == [teamCalls[c] EXCEPT !.step = "read"]
           allowed == ApiAllows(teamCalls[c].by, About(c), teamCalls[c].role)
<1>1. /\ teamCalls[c] # NoTeamCall /\ teamCalls[c] \in TeamCallType /\ Op(c) = "role"
      /\ CallShape(c)
      /\ UNCHANGED <<teamServer, team, joining>>
  BY Stepped DEF CheckRole, Op
<1>2. CASE allowed
  <2>1. /\ k \in TeamCallType /\ k.op = "role" /\ k.by = teamCalls[c].by /\ k.about = About(c)
        /\ k.role = teamCalls[c].role /\ k.step = "read"
        /\ teamCalls' = [teamCalls EXCEPT ![c] = k]
    BY <1>1, <1>2 DEF TeamCallType, CheckRole, TeamStep, Op, About
  <2>2. members[About(c)] # "none"
    BY <1>2 DEF ApiAllows
  <2>3. ASSUME teamCalls'[c] = k PROVE CallShape(c)' /\ CallFacts(c)'
    BY <1>1, <2>1, <2>2, <2>3 DEF CallShape, CallFacts, Op, About, teamServer
  <2> QED
    BY <1>1, <2>1, <2>3, CallReads
<1>3. CASE ~allowed
  BY <1>1, <1>3, CallIsRefused DEF CheckRole, About
<1> QED
  BY <1>2, <1>3

\* The UPDATE of patch_member.
LEMMA WriteRoleKeeps == ASSUME TeamInv, NEW c \in TeamCalls, WriteRole(c) PROVE TeamInv'
<1> DEFINE k == [teamCalls[c] EXCEPT !.step = "done"]
<1>1. /\ teamCalls[c] # NoTeamCall /\ teamCalls[c] \in TeamCallType /\ Op(c) = "role"
      /\ teamCalls[c].step = "read"
      /\ CallShape(c) /\ CallFacts(c)
      /\ UNCHANGED <<accounts, invites, joined, team, joining>>
  BY Stepped DEF WriteRole, Op
<1>2. /\ About(c) \in People /\ teamCalls[c].role \in Role /\ members[About(c)] # "none"
      /\ members' = [members EXCEPT ![About(c)] = teamCalls[c].role]
  BY <1>1 DEF CallShape, CallFacts, WriteRole, Op, About
<1>3. members' \in Members /\ \A p \in People : members[p] # "none" <=> members'[p] # "none"
  BY <1>2 DEF TeamInv, TeamTypes, Members, Role
<1>4. TeamGrows
  BY <1>1, <1>3 DEF TeamGrows
<1>5. /\ k \in TeamCallType /\ k.op = "role" /\ k.by = teamCalls[c].by /\ k.about = About(c)
      /\ k.role = teamCalls[c].role /\ k.step = "done"
      /\ teamCalls' = [teamCalls EXCEPT ![c] = k] /\ teamCalls'[c] = k
  BY <1>1 DEF TeamInv, TeamTypes, TeamCallType, WriteRole, TeamStep, Op, About
<1>6. CallShape(c)' /\ CallFacts(c)'
  <2>1. CallShape(c)'
    BY <1>2, <1>5 DEF CallShape
  <2>2. CallFacts(c)'
    BY <1>5 DEF CallFacts
  <2> QED
    BY <2>1, <2>2
<1> QED
  BY <1>1, <1>3, <1>4, <1>5, <1>6, CallGetsOn, TablesAreTyped

\* POST /orgs/{id}/invites, on an id that is free.
LEMMA CreateInviteKeeps == ASSUME TeamInv, NEW c \in TeamCalls, CreateInvite(c) PROVE TeamInv'
<1> DEFINE k == [teamCalls[c] EXCEPT !.step = "done"]
           allowed == /\ Manages(teamCalls[c].by)
                      /\ Rank(teamCalls[c].role) <= Rank(members[teamCalls[c].by])
<1>1. /\ teamCalls[c] # NoTeamCall /\ teamCalls[c] \in TeamCallType /\ Op(c) = "invite"
      /\ CallShape(c)
      /\ UNCHANGED <<members, accounts, joined, team, joining>>
  BY Stepped DEF CreateInvite, Op
<1>2. CASE allowed
  <2>1. PICK i \in Invites :
          /\ invites[i].status = "free"
          /\ invites' = [invites EXCEPT ![i] =
               [email |-> About(c), role |-> teamCalls[c].role, status |-> "pending"]]
    BY <1>2 DEF CreateInvite, About
  <2>2. About(c) \in People /\ teamCalls[c].role \in Role
    BY <1>1 DEF CallShape, Op, About
  <2>3. /\ invites' \in [Invites -> Invitation]
        /\ invites'[i].email = About(c) /\ invites'[i].role = teamCalls[c].role
        /\ \A j \in Invites : j # i => invites'[j] = invites[j]
    BY <2>1, <2>2 DEF TeamInv, TeamTypes, Invitation
  <2>4. TeamGrows
    BY <1>1, <2>1, <2>3 DEF TeamGrows
  <2>5. /\ k \in TeamCallType /\ k.op = "invite" /\ k.by = teamCalls[c].by /\ k.about = About(c)
        /\ k.role = teamCalls[c].role /\ k.step = "done"
        /\ teamCalls' = [teamCalls EXCEPT ![c] = k] /\ teamCalls'[c] = k
    BY <1>1, <1>2 DEF TeamInv, TeamTypes, TeamCallType, CreateInvite, TeamStep, Op, About
  <2>6. CallShape(c)' /\ CallFacts(c)'
    BY <2>2, <2>5 DEF CallShape, CallFacts
  <2>7. \A j \in Invites : invites'[j].status # "free" =>
          invites'[j].email \in People /\ invites'[j].role \in Role
    BY <2>2, <2>3 DEF TeamInv, InvitesHaveAddresses
  <2> QED
    BY <1>1, <2>3, <2>4, <2>5, <2>6, <2>7, CallGetsOn, TablesAreTyped
<1>3. CASE ~allowed
  <2>1. TeamStep(c, "refused") /\ UNCHANGED teamServer
    BY <1>1, <1>3 DEF CreateInvite, teamServer
  <2> QED
    BY <1>1, <2>1, CallIsRefused
<1> QED
  BY <1>2, <1>3

\* Changing the status of an invitation that is not free to one that is not free either.
LEMMA StatusChanges ==
  ASSUME TeamInv, NEW i \in Invites, invites[i].status # "free",
         NEW status \in {"pending", "accepted", "expired", "deleted"},
         invites' = [invites EXCEPT ![i].status = status],
         UNCHANGED <<members, accounts>>
  PROVE  /\ invites' \in [Invites -> Invitation]
         /\ TeamGrows
         /\ \A j \in Invites : invites'[j].status # "free" =>
              invites'[j].email \in People /\ invites'[j].role \in Role
<1>1. /\ invites' \in [Invites -> Invitation]
      /\ \A j \in Invites : /\ invites'[j].email = invites[j].email
                            /\ invites'[j].role = invites[j].role
                            /\ invites[j].status # "free" <=> invites'[j].status # "free"
  BY DEF TeamInv, TeamTypes, Invitation
<1> QED
  BY <1>1 DEF TeamInv, InvitesHaveAddresses, TeamGrows

\* DELETE /invites/{id}.
LEMMA DeleteInviteKeeps == ASSUME TeamInv, NEW c \in TeamCalls, DeleteInvite(c) PROVE TeamInv'
<1> DEFINE k == [teamCalls[c] EXCEPT !.step = "done"]
           i == About(c)
           allowed == Manages(teamCalls[c].by) /\ invites[i].status # "deleted"
<1>1. /\ teamCalls[c] # NoTeamCall /\ teamCalls[c] \in TeamCallType /\ Op(c) = "revoke"
      /\ CallShape(c)
      /\ UNCHANGED <<members, accounts, joined, team, joining>>
  BY Stepped DEF DeleteInvite, Op
<1>2. i \in Invites /\ invites[i].status # "free"
  BY <1>1 DEF CallShape, Op, About
<1>3. CASE allowed
  <2>1. invites' = [invites EXCEPT ![i].status = "deleted"]
    BY <1>3 DEF DeleteInvite, About
  <2>2. /\ invites' \in [Invites -> Invitation]
        /\ TeamGrows
        /\ \A j \in Invites : invites'[j].status # "free" =>
             invites'[j].email \in People /\ invites'[j].role \in Role
    BY <1>1, <1>2, <2>1, StatusChanges
  <2>3. /\ k \in TeamCallType /\ k.op = "revoke" /\ k.by = teamCalls[c].by /\ k.about = i
        /\ k.step = "done"
        /\ teamCalls' = [teamCalls EXCEPT ![c] = k] /\ teamCalls'[c] = k
    BY <1>1, <1>3 DEF TeamInv, TeamTypes, TeamCallType, DeleteInvite, TeamStep, Op, About
  <2>4. CallShape(c)' /\ CallFacts(c)'
    BY <1>2, <2>2, <2>3 DEF CallShape, CallFacts, TeamGrows
  <2> QED
    BY <1>1, <2>2, <2>3, <2>4, CallGetsOn, TablesAreTyped
<1>4. CASE ~allowed
  <2>1. TeamStep(c, "refused") /\ UNCHANGED teamServer
    BY <1>1, <1>4 DEF DeleteInvite, teamServer, About
  <2> QED
    BY <1>1, <2>1, CallIsRefused
<1> QED
  BY <1>3, <1>4

\* What holds of a call of AcceptInvitePage.
LEMMA AcceptingFacts ==
  ASSUME TeamInv, NEW c \in TeamCalls, NEW step, Accepting(c, step)
  PROVE  /\ teamCalls[c] # NoTeamCall /\ teamCalls[c] \in TeamCallType
         /\ Op(c) \in {"signup", "accept"} /\ teamCalls[c].step = step
         /\ CallShape(c) /\ CallFacts(c)
         /\ About(c) \in Invites /\ invites[About(c)].status # "free"
         /\ invites[About(c)] \in Invitation
         /\ invites[About(c)].email \in People /\ invites[About(c)].role \in Role
<1>1. /\ teamCalls[c] # NoTeamCall /\ teamCalls[c] \in TeamCallType
      /\ Op(c) \in {"signup", "accept"} /\ teamCalls[c].step = step
      /\ CallShape(c) /\ CallFacts(c)
  BY Stepped DEF Accepting, Op
<1>2. About(c) \in Invites /\ invites[About(c)].status # "free"
  BY <1>1 DEF CallShape, Op, About
<1> QED
  BY <1>1, <1>2 DEF TeamInv, TeamTypes, InvitesHaveAddresses

\* The read of the invitation: it is the row it is about, and accepted by its address only.
LEMMA ReadInviteKeeps == ASSUME TeamInv, NEW c \in TeamCalls, ReadInvite(c) PROVE TeamInv'
<1> DEFINE invite == invites[About(c)]
           valid == /\ invite.status = "pending"
                    /\ IF Op(c) = "signup" THEN invite.email \notin accounts
                       ELSE teamCalls[c].by = invite.email
           k == [teamCalls[c] EXCEPT !.step = IF valid THEN "read" ELSE "refused", !.found = invite]
<1>1. /\ teamCalls[c] # NoTeamCall /\ teamCalls[c] \in TeamCallType
      /\ Op(c) \in {"signup", "accept"}
      /\ CallShape(c) /\ CallFacts(c)
      /\ About(c) \in Invites /\ invite.status # "free"
      /\ invite \in Invitation /\ invite.email \in People /\ invite.role \in Role
  BY AcceptingFacts DEF ReadInvite
<1>2. UNCHANGED <<teamServer, team, joining>>
  BY DEF ReadInvite
<1>3. /\ k \in TeamCallType /\ k.op = Op(c) /\ k.by = teamCalls[c].by /\ k.about = About(c)
      /\ k.step \in {"read", "refused"} /\ k.found = invite
      /\ k.op = "accept" /\ k.step = "read" => invite.email = k.by
      /\ teamCalls' = [teamCalls EXCEPT ![c] = k]
  BY <1>1 DEF TeamCallType, ReadInvite, Op, About
<1>4. ASSUME teamCalls'[c] = k PROVE CallShape(c)' /\ CallFacts(c)'
  <2>1. CallShape(c)'
    <3>1. UNCHANGED invites
      BY <1>2 DEF teamServer
    <3> QED
      BY <1>1, <1>3, <1>4, <3>1 DEF CallShape, Op
  <2>2. CallFacts(c)'
    <3>1. UNCHANGED <<members, accounts>> /\ teamCalls'[c].op \in {"signup", "accept"}
      BY <1>1, <1>2, <1>3, <1>4 DEF teamServer
    <3>2. teamCalls'[c].op = "accept" => teamCalls'[c].by \in accounts
      BY <1>1, <1>3, <1>4 DEF CallFacts, Op
    <3> QED
      BY <1>3, <1>4, <3>1, <3>2 DEF CallFacts
  <2> QED
    BY <2>1, <2>2
<1> HIDE DEF k
<1> QED
  BY <1>1, <1>2, <1>3, <1>4, CallReads

\* create_user: the address has an account from then on.
LEMMA CreateUserKeeps == ASSUME TeamInv, NEW c \in TeamCalls, CreateUser(c) PROVE TeamInv'
<1> DEFINE k == [teamCalls[c] EXCEPT !.step = "created"]
           email == teamCalls[c].found.email
<1>1. /\ teamCalls[c] # NoTeamCall /\ teamCalls[c] \in TeamCallType
      /\ Op(c) = "signup" /\ teamCalls[c].step = "read"
      /\ CallShape(c)
      /\ UNCHANGED <<members, invites, joined, team, joining>>
  BY Stepped DEF CreateUser, Op
<1>2. About(c) \in Invites /\ invites[About(c)].status # "free"
  BY <1>1 DEF CallShape, Op, About
<1>3. /\ teamCalls[c].found \in Invitation /\ email = invites[About(c)].email
      /\ teamCalls[c].found.role \in Role /\ email \in People
  BY <1>1, <1>2 DEF CallShape, Op, About, TeamInv, InvitesHaveAddresses
<1>4. CASE email \in accounts
  <2>1. TeamStep(c, "refused") /\ UNCHANGED teamServer
    BY <1>1, <1>4 DEF CreateUser, teamServer
  <2> QED
    BY <1>1, <2>1, CallIsRefused
<1>5. CASE email \notin accounts
  <2>1. accounts' = accounts \cup {email} /\ TeamStep(c, "created")
    BY <1>5 DEF CreateUser
  <2>2. /\ k \in TeamCallType /\ k.op = "signup" /\ k.by = teamCalls[c].by /\ k.about = About(c)
        /\ k.step = "created" /\ k.found = teamCalls[c].found
        /\ teamCalls' = [teamCalls EXCEPT ![c] = k] /\ teamCalls'[c] = k
    BY <1>1, <2>1 DEF TeamInv, TeamTypes, TeamCallType, TeamStep, Op, About
  <2>3. TeamGrows
    BY <1>1, <2>1 DEF TeamGrows
  <2>4. CallShape(c)' /\ CallFacts(c)'
    <3>1. CallShape(c)'
      BY <1>1, <1>2, <1>3, <2>2 DEF CallShape
    <3>2. CallFacts(c)'
      BY <2>1, <2>2 DEF CallFacts
    <3> QED
      BY <3>1, <3>2
  <2> QED
    BY <1>1, <1>3, <2>1, <2>2, <2>3, <2>4, CallGetsOn, TablesAreTyped
<1> QED
  BY <1>4, <1>5

\* add_org_member: the invitation has admitted nobody yet, since nobody who is a member
\* ceases to be one.
LEMMA AddMemberKeeps == ASSUME TeamInv, NEW c \in TeamCalls, AddMember(c) PROVE TeamInv'
<1> DEFINE k == [teamCalls[c] EXCEPT !.step = "added"]
           invite == teamCalls[c].found
           i == About(c)
<1>1. /\ teamCalls[c] # NoTeamCall /\ teamCalls[c] \in TeamCallType
      /\ \/ Op(c) = "accept" /\ teamCalls[c].step = "read"
         \/ Op(c) = "signup" /\ teamCalls[c].step = "created"
      /\ CallShape(c) /\ CallFacts(c)
      /\ UNCHANGED <<accounts, invites, team, joining>>
  BY Stepped DEF AddMember, Op
<1>2. i \in Invites /\ invites[i].status # "free"
  BY <1>1 DEF CallShape, Op, About
<1>3. /\ invite \in Invitation /\ invite.email = invites[i].email
      /\ invite.role \in Role /\ invite.email \in People /\ invite.email \in accounts
  BY <1>1, <1>2 DEF CallShape, CallFacts, Op, About, TeamInv, InvitesHaveAddresses
<1>4. CASE members[invite.email] # "none"
  <2>1. TeamStep(c, "refused") /\ UNCHANGED teamServer
    BY <1>1, <1>4 DEF AddMember, teamServer
  <2> QED
    BY <1>1, <2>1, CallIsRefused
<1>5. CASE members[invite.email] = "none"
  <2>1. /\ members' = [members EXCEPT ![invite.email] = invite.role]
        /\ joined' = [joined EXCEPT ![i] = joined[i] + 1]
        /\ TeamStep(c, "added")
    BY <1>5 DEF AddMember, About
  <2>2. /\ members' \in Members
        /\ members'[invite.email] # "none"
        /\ \A p \in People : p # invite.email => members'[p] = members[p]
    BY <1>3, <2>1 DEF TeamInv, TeamTypes, Members, Role
  <2>3. TeamGrows
    BY <1>1, <2>2 DEF TeamGrows
  <2>4. /\ k \in TeamCallType /\ k.op = Op(c) /\ k.by = teamCalls[c].by /\ k.about = i
        /\ k.step = "added" /\ k.found = invite
        /\ teamCalls' = [teamCalls EXCEPT ![c] = k] /\ teamCalls'[c] = k
    BY <1>1, <2>1 DEF TeamInv, TeamTypes, TeamCallType, TeamStep, Op, About
  <2>5. CallShape(c)' /\ CallFacts(c)'
    BY <1>1, <1>2, <1>3, <2>4 DEF CallShape, CallFacts, Op
  <2>6. joined[i] = 0 /\ joined \in [Invites -> Nat]
    <3>1. joined \in [Invites -> Nat] /\ joined[i] <= 1 /\ joined[i] # 1
      BY <1>2, <1>3, <1>5 DEF TeamInv, TeamTypes, JoinedAreMembers
    <3> QED
      BY <1>2, <3>1
  <2>7. joined' \in [Invites -> Nat] /\ JoinedAreMembers'
    <3>1. joined' \in [Invites -> Nat] /\ joined'[i] = 1 /\ \A j \in Invites : j # i => joined'[j] = joined[j]
      BY <1>2, <2>1, <2>6
    <3>2. ASSUME NEW j \in Invites
          PROVE  /\ joined'[j] <= 1
                 /\ joined'[j] = 1 => invites'[j].status # "free" /\ members'[invites'[j].email] # "none"
      <4>1. CASE j = i
        BY <1>1, <1>2, <1>3, <2>2, <3>1, <4>1
      <4>2. CASE j # i
        BY <1>1, <2>3, <3>1, <4>2 DEF TeamInv, JoinedAreMembers, InvitesHaveAddresses, TeamGrows
      <4> QED
        BY <4>1, <4>2
    <3> QED
      BY <3>1, <3>2 DEF JoinedAreMembers
  <2>8. /\ teamCalls' \in [TeamCalls -> TeamCallType \cup {NoTeamCall}]
        /\ \A p \in People : Waits(p)'
    BY <1>1, <2>4, StillWaits
  <2>9. TeamTypes' /\ TeamTypeOK'
    <3>1. \A p \in People : members'[p] # "none" => p \in accounts'
      BY <1>1, <1>3, <2>2 DEF TeamInv, TeamTypeOK
    <3> QED
      BY <1>1, <2>2, <2>7, <2>8, <3>1 DEF TeamInv, TeamTypes, TeamTypeOK, Waits
  <2>10. ASSUME NEW d \in TeamCalls, teamCalls'[d] # NoTeamCall PROVE CallShape(d)' /\ CallFacts(d)'
    <3>1. CASE d = c
      BY <2>5, <3>1
    <3>2. CASE d # c
      <4>1. teamCalls'[d] = teamCalls[d]
        BY <2>4, <3>2 DEF TeamInv, TeamTypes
      <4> QED
        BY <2>3, <2>10, <4>1, OtherCalls
    <3> QED
      BY <3>1, <3>2
  <2>11. InvitesHaveAddresses' /\ ListsAreOfManagers'
    BY <1>1, <2>3, PagesKept DEF TeamInv, InvitesHaveAddresses
  <2> QED
    BY <2>7, <2>9, <2>10, <2>11 DEF TeamInv
<1> QED
  BY <1>4, <1>5

\* mark_invite_accepted.
LEMMA MarkAcceptedKeeps == ASSUME TeamInv, NEW c \in TeamCalls, MarkAccepted(c) PROVE TeamInv'
<1> DEFINE k == [teamCalls[c] EXCEPT !.step = "done"]
           i == About(c)
           status == IF invites[i].status = "deleted" THEN "deleted" ELSE "accepted"
<1>1. /\ teamCalls[c] # NoTeamCall /\ teamCalls[c] \in TeamCallType
      /\ Op(c) \in {"signup", "accept"} /\ teamCalls[c].step = "added"
      /\ CallShape(c) /\ CallFacts(c)
      /\ i \in Invites /\ invites[i].status # "free"
      /\ UNCHANGED <<members, accounts, joined, team, joining>>
  BY AcceptingFacts DEF MarkAccepted
<1>2. invites' = [invites EXCEPT ![i].status = status]
  BY DEF MarkAccepted, About
<1>3. /\ invites' \in [Invites -> Invitation]
      /\ TeamGrows
      /\ \A j \in Invites : invites'[j].status # "free" =>
           invites'[j].email \in People /\ invites'[j].role \in Role
  BY <1>1, <1>2, StatusChanges
<1>4. /\ k \in TeamCallType /\ k.op = Op(c) /\ k.by = teamCalls[c].by /\ k.about = i
      /\ k.step = "done" /\ k.found = teamCalls[c].found
      /\ teamCalls' = [teamCalls EXCEPT ![c] = k] /\ teamCalls'[c] = k
  BY <1>1 DEF TeamInv, TeamTypes, TeamCallType, MarkAccepted, TeamStep, Op, About
<1>5. CallShape(c)' /\ CallFacts(c)'
  BY <1>1, <1>3, <1>4 DEF CallShape, CallFacts, Op, About, TeamGrows
<1> QED
  BY <1>1, <1>3, <1>4, <1>5, CallGetsOn, TablesAreTyped

\* A call that ends, begins or is replaced, with what its page makes of it; nothing is written.
LEMMA CallMoves ==
  ASSUME TeamInv, UNCHANGED teamServer,
         team' \in [People -> [members : Members, invites : SUBSET Invites,
                               status : {"table", "loading", "error", "closed"}]],
         joining' \in [People -> {"idle", "busy", "dashboard"}],
         ListsAreOfManagers', \A p \in People : Waits(p)',
         NEW c \in TeamCalls, NEW k \in TeamCallType \cup {NoTeamCall},
         teamCalls' = [teamCalls EXCEPT ![c] = k],
         teamCalls'[c] = k /\ k # NoTeamCall => CallShape(c)' /\ CallFacts(c)'
  PROVE  TeamInv'
<1>1. TeamGrows /\ UNCHANGED <<members, accounts, invites, joined>>
  BY DEF teamServer, TeamGrows
<1>2. TeamTypes'
  BY <1>1 DEF TeamInv, TeamTypes
<1>3. TeamTypeOK'
  BY <1>1, <1>2 DEF TeamInv, TeamTypeOK, Waits, TeamTypes
<1>4. ASSUME NEW d \in TeamCalls, teamCalls'[d] # NoTeamCall PROVE CallShape(d)' /\ CallFacts(d)'
  <2>1. CASE d = c
    BY <1>4, <2>1 DEF TeamInv, TeamTypes
  <2>2. CASE d # c
    <3>1. teamCalls'[d] = teamCalls[d]
      BY <2>2 DEF TeamInv, TeamTypes
    <3> QED
      BY <1>1, <1>4, <3>1, OtherCalls
  <2> QED
    BY <2>1, <2>2
<1>5. InvitesHaveAddresses' /\ JoinedAreMembers'
  BY <1>1, TablesGrow, TablesAreTyped
<1> QED
  BY <1>2, <1>3, <1>4, <1>5 DEF TeamInv

\* Requests that a page sends about what its list shows.
LEMMA RequestKeeps ==
  ASSUME TeamInv, UNCHANGED <<teamServer, team, joining>>,
         NEW c \in TeamCalls, NEW op, NEW p \in People, NEW about, NEW role,
         TeamSend(c, TeamCall(op, p, about, role)),
         \/ op \in {"role", "invite"} /\ about \in People /\ role \in Role
         \/ op = "revoke" /\ about \in Invites /\ role = "none" /\ invites[about].status # "free"
  PROVE  TeamInv'
<1> DEFINE k == TeamCall(op, p, about, role)
<1>1. /\ k \in TeamCallType /\ k.op = op /\ k.about = about /\ k.role = role /\ k.step = "sent"
      /\ teamCalls[c] = NoTeamCall /\ teamCalls' = [teamCalls EXCEPT ![c] = k]
  BY DEF TeamCall, TeamCallType, TeamSend, TeamFree
<1> HIDE DEF k
<1>2. ASSUME teamCalls'[c] = k PROVE CallShape(c)' /\ CallFacts(c)'
  BY <1>1, <1>2 DEF CallShape, CallFacts, teamServer
<1> QED
  BY <1>1, <1>2, CallReads

LEMMA ChangeRoleKeeps ==
  ASSUME TeamInv, NEW c \in TeamCalls, NEW p \in People, NEW m \in People, NEW role \in Role,
         ChangeRole(c, p, m, role)
  PROVE  TeamInv'
BY RequestKeeps DEF ChangeRole

LEMMA InviteKeeps ==
  ASSUME TeamInv, NEW c \in TeamCalls, NEW p \in People, NEW m \in Invitees,
         NEW role \in {"scanner", "admin"}, Invite(c, p, m, role)
  PROVE  TeamInv'
<1>1. m \in People /\ role \in Role
  BY TeamAssumption DEF Role
<1> QED
  BY <1>1, RequestKeeps DEF Invite

LEMMA RevokeKeeps ==
  ASSUME TeamInv, NEW c \in TeamCalls, NEW p \in People, NEW i \in Invites, Revoke(c, p, i)
  PROVE  TeamInv'
<1>1. invites[i].status # "free"
  BY DEF Revoke, TeamInv, ListsAreOfManagers
<1> QED
  BY <1>1, RequestKeeps DEF Revoke

LEMMA TeamCallFailsKeeps == ASSUME TeamInv, NEW c \in TeamCalls, TeamCallFails(c) PROVE TeamInv'
BY CallIsRefused DEF TeamCallFails

\* Time.
LEMMA ExpireInviteKeeps == ASSUME TeamInv, NEW i \in Invites, ExpireInvite(i) PROVE TeamInv'
<1>1. /\ invites' = [invites EXCEPT ![i].status = "expired"]
      /\ invites[i].status # "free"
      /\ UNCHANGED <<members, accounts, joined, teamCalls, team, joining>>
  BY DEF ExpireInvite
<1>2. /\ invites' \in [Invites -> Invitation]
      /\ TeamGrows
      /\ \A j \in Invites : invites'[j].status # "free" =>
           invites'[j].email \in People /\ invites'[j].role \in Role
  BY <1>1, StatusChanges
<1>3. \A d \in TeamCalls : teamCalls'[d] # NoTeamCall => CallShape(d)' /\ CallFacts(d)'
  BY <1>1, <1>2, OtherCalls
<1>4. TeamTypes' /\ TeamTypeOK'
  BY <1>1, <1>2 DEF TeamInv, TeamTypes, TeamTypeOK
<1> QED
  BY <1>1, <1>2, <1>3, <1>4, TablesGrow, PagesKept DEF TeamInv

\* The list is read again, by a new call.
LEMMA LoadingKeeps ==
  ASSUME TeamInv, UNCHANGED <<teamServer, joining>>,
         NEW c \in TeamCalls, NEW p \in People,
         teamCalls[c] # NoTeamCall => Op(c) \notin {"list", "signup", "accept"},
         teamCalls' = [teamCalls EXCEPT ![c] = LoadTeam(p)], Loading(p)
  PROVE  TeamInv'
<1> DEFINE k == LoadTeam(p)
<1>1. /\ k \in TeamCallType /\ k # NoTeamCall /\ k.op = "list" /\ k.by = p /\ k.step = "sent"
      /\ teamCalls' = [teamCalls EXCEPT ![c] = k]
  BY TeamAssumption DEF LoadTeam, TeamCall, TeamCallType
<1> HIDE DEF k
<1>2. teamCalls'[c] = k /\ \A d \in TeamCalls : d # c => teamCalls'[d] = teamCalls[d]
  BY <1>1 DEF TeamInv, TeamTypes
<1>3. /\ team' \in [People -> [members : Members, invites : SUBSET Invites,
                               status : {"table", "loading", "error", "closed"}]]
      /\ team'[p].status = "loading"
      /\ \A q \in People : team'[q].members = team[q].members /\ team'[q].invites = team[q].invites
      /\ \A q \in People : q # p => team'[q] = team[q]
  BY DEF TeamInv, TeamTypes, Loading
<1>4. ListsAreOfManagers'
  <2>1. \A q \in People : \A i \in team[q].invites : invites'[i].status # "free"
    BY DEF TeamInv, ListsAreOfManagers, teamServer
  <2> QED
    BY <1>3, <2>1 DEF TeamInv, ListsAreOfManagers
<1>5. ASSUME NEW q \in People PROVE Waits(q)'
  <2>1. team'[q].status = "loading" => \E d \in TeamCalls :
          teamCalls'[d] # NoTeamCall /\ teamCalls'[d].op = "list" /\ teamCalls'[d].by = q
    <3>1. CASE q = p
      BY <1>1, <1>2, <3>1
    <3>2. CASE q # p
      <4>1. team'[q].status = "loading" => \E d \in TeamCalls :
              d # c /\ teamCalls[d] # NoTeamCall /\ teamCalls[d].op = "list" /\ teamCalls[d].by = q
        BY <1>3, <3>2 DEF TeamInv, TeamTypeOK, Op
      <4> QED
        BY <1>2, <4>1
    <3> QED
      BY <3>1, <3>2
  <2>2. joining'[q] = "busy" => \E d \in TeamCalls :
          /\ d # c /\ teamCalls[d] # NoTeamCall
          /\ teamCalls[d].op \in {"signup", "accept"} /\ teamCalls[d].by = q
    BY DEF TeamInv, TeamTypeOK, Op
  <2> QED
    BY <1>2, <2>1, <2>2 DEF Waits
<1>6. ASSUME teamCalls'[c] = k PROVE CallShape(c)' /\ CallFacts(c)'
  BY <1>1, <1>6 DEF CallShape, CallFacts
<1>7. joining' \in [People -> {"idle", "busy", "dashboard"}] /\ UNCHANGED teamServer
  BY DEF TeamInv, TeamTypes
<1>8. k \in TeamCallType \cup {NoTeamCall}
  BY <1>1
<1>9. teamCalls'[c] = k /\ k # NoTeamCall => CallShape(c)' /\ CallFacts(c)'
  BY <1>6
<1>10. /\ team' \in [People -> [members : Members, invites : SUBSET Invites,
                               status : {"table", "loading", "error", "closed"}]]
       /\ \A q \in People : Waits(q)'
  BY <1>3, <1>5
<1> QED
  BY <1>1, <1>4, <1>7, <1>8, <1>9, <1>10, CallMoves

LEMMA RetryTeamKeeps ==
  ASSUME TeamInv, NEW c \in TeamCalls, NEW p \in People, RetryTeam(c, p) PROVE TeamInv'
<1>1. teamCalls[c] = NoTeamCall /\ teamCalls' = [teamCalls EXCEPT ![c] = LoadTeam(p)]
  BY DEF RetryTeam, TeamSend, TeamFree
<1>2. Loading(p) /\ UNCHANGED <<teamServer, joining>>
  BY DEF RetryTeam
<1> QED
  BY <1>1, <1>2, LoadingKeeps

LEMMA TeamChangedKeeps == ASSUME TeamInv, NEW c \in TeamCalls, TeamChanged(c) PROVE TeamInv'
<1>1. PICK op \in {"role", "invite", "revoke"} :
        \/ /\ TeamAt(c, op, "done")
           /\ teamCalls' = [teamCalls EXCEPT ![c] = LoadTeam(teamCalls[c].by)]
           /\ Loading(teamCalls[c].by)
        \/ TeamAt(c, op, "refused") /\ TeamTaken(c) /\ UNCHANGED team
  BY DEF TeamChanged
<1>2. /\ teamCalls[c] # NoTeamCall /\ Op(c) = op /\ teamCalls[c].by \in People
      /\ UNCHANGED <<teamServer, joining>>
  BY <1>1 DEF TeamChanged, TeamAt, Op, TeamInv, TeamTypes, TeamCallType
<1>3. CASE TeamAt(c, op, "done")
  <2>1. teamCalls' = [teamCalls EXCEPT ![c] = LoadTeam(teamCalls[c].by)] /\ Loading(teamCalls[c].by)
    BY <1>1, <1>3 DEF TeamAt
  <2> QED
    BY <1>2, <2>1, LoadingKeeps
<1>4. CASE TeamAt(c, op, "refused")
  <2>1. teamCalls' = [teamCalls EXCEPT ![c] = NoTeamCall] /\ UNCHANGED <<teamServer, team, joining>>
    BY <1>1, <1>2, <1>4 DEF TeamAt, TeamTaken
  <2>2. \A d \in TeamCalls : d # c => teamCalls'[d] = teamCalls[d]
    BY <2>1 DEF TeamInv, TeamTypes
  <2>3. ASSUME NEW q \in People PROVE Waits(q)'
    <3>1. /\ team'[q].status = "loading" => \E d \in TeamCalls :
               d # c /\ teamCalls[d] # NoTeamCall /\ teamCalls[d].op = "list" /\ teamCalls[d].by = q
          /\ joining'[q] = "busy" => \E d \in TeamCalls :
               /\ d # c /\ teamCalls[d] # NoTeamCall
               /\ teamCalls[d].op \in {"signup", "accept"} /\ teamCalls[d].by = q
      BY <1>2, <2>1 DEF TeamInv, TeamTypeOK, Op
    <3> QED
      BY <2>2, <3>1 DEF Waits
  <2>4. ListsAreOfManagers'
    BY <2>1, PagesKept DEF TeamGrows, teamServer
  <2> QED
    BY <2>1, <2>3, <2>4, CallMoves DEF TeamInv, TeamTypes
<1> QED
  BY <1>1, <1>3, <1>4

\* The lists arrive on the page, or the error.
LEMMA TeamListedKeeps == ASSUME TeamInv, NEW c \in TeamCalls, TeamListed(c) PROVE TeamInv'
<1> DEFINE p == teamCalls[c].by
           found == teamCalls[c].found
           Pages == [members : Members, invites : SUBSET Invites,
                     status : {"table", "loading", "error", "closed"}]
<1>1. /\ teamCalls[c] # NoTeamCall /\ teamCalls[c] \in TeamCallType /\ Op(c) = "list"
      /\ p \in People /\ CallShape(c) /\ CallFacts(c)
      /\ teamCalls' = [teamCalls EXCEPT ![c] = NoTeamCall]
      /\ UNCHANGED <<teamServer, joining>>
  BY Stepped DEF TeamListed, Op, TeamTaken, TeamCallType
<1>2. /\ team' \in [People -> Pages]
      /\ team'[p].status # "loading"
      /\ \A q \in People : q # p => team'[q] = team[q]
      /\ team'[p].status = "table" => Rank(team'[p].members[p]) >= 2
      /\ \A i \in team'[p].invites : invites[i].status # "free"
  <2>1. CASE TeamAt(c, "list", "done")
    <3>1. /\ found \in [members : Members, invites : SUBSET Invites]
          /\ Rank(found.members[p]) >= 2
          /\ \A i \in found.invites : invites[i].status # "free"
      BY <1>1, <2>1 DEF CallShape, CallFacts, TeamAt
    <3>2. team' = [team EXCEPT ![p] = [members |-> found.members, invites |-> found.invites,
                                       status |-> "table"]]
      BY <2>1 DEF TeamListed, TeamAt
    <3> QED
      BY <1>1, <3>1, <3>2 DEF TeamInv, TeamTypes
  <2>2. CASE TeamAt(c, "list", "refused")
    <3>1. team' = [team EXCEPT ![p].status = "error"]
      BY <2>2 DEF TeamListed, TeamAt
    <3> QED
      BY <1>1, <3>1 DEF TeamInv, TeamTypes, ListsAreOfManagers
  <2> QED
    BY <2>1, <2>2 DEF TeamListed
<1>3. ListsAreOfManagers'
  BY <1>1, <1>2 DEF TeamInv, ListsAreOfManagers, teamServer
<1>4. ASSUME NEW q \in People PROVE Waits(q)'
  <2>1. \A d \in TeamCalls : d # c => teamCalls'[d] = teamCalls[d]
    BY <1>1 DEF TeamInv, TeamTypes
  <2>2. team'[q].status = "loading" => \E d \in TeamCalls :
          d # c /\ teamCalls[d] # NoTeamCall /\ teamCalls[d].op = "list" /\ teamCalls[d].by = q
    BY <1>2 DEF TeamInv, TeamTypeOK
  <2>3. joining'[q] = "busy" => \E d \in TeamCalls :
          /\ d # c /\ teamCalls[d] # NoTeamCall
          /\ teamCalls[d].op \in {"signup", "accept"} /\ teamCalls[d].by = q
    BY <1>1 DEF TeamInv, TeamTypeOK, Op
  <2> QED
    BY <2>1, <2>2, <2>3 DEF Waits
<1>5. joining' \in [People -> {"idle", "busy", "dashboard"}]
  BY <1>1 DEF TeamInv, TeamTypes
<1> QED
  BY <1>1, <1>2, <1>3, <1>4, <1>5, CallMoves

\* AcceptInvitePage sends its request, and has its answer.
LEMMA AcceptKeeps ==
  ASSUME TeamInv, NEW c \in TeamCalls, NEW p \in People, NEW i \in Invites,
         NEW mode \in {"signup", "accept"}, Accept(c, p, i, mode)
  PROVE  TeamInv'
<1> DEFINE k == TeamCall(mode, p, i, "none")
<1>1. /\ k \in TeamCallType /\ k # NoTeamCall
      /\ k.op = mode /\ k.by = p /\ k.about = i /\ k.step = "sent"
      /\ teamCalls[c] = NoTeamCall /\ teamCalls' = [teamCalls EXCEPT ![c] = k]
      /\ invites[i].status # "free"
      /\ mode = "accept" => p \in accounts
      /\ joining' = [joining EXCEPT ![p] = "busy"]
      /\ UNCHANGED <<teamServer, team>>
  BY TeamAssumption DEF Accept, TeamCall, TeamCallType, TeamSend, TeamFree
<1> HIDE DEF k
<1>2. teamCalls'[c] = k /\ \A d \in TeamCalls : d # c => teamCalls'[d] = teamCalls[d]
  BY <1>1 DEF TeamInv, TeamTypes
<1>3. ASSUME NEW q \in People PROVE Waits(q)'
  <2>1. team'[q].status = "loading" => \E d \in TeamCalls :
          d # c /\ teamCalls[d] # NoTeamCall /\ teamCalls[d].op = "list" /\ teamCalls[d].by = q
    BY <1>1 DEF TeamInv, TeamTypeOK
  <2>2. q # p /\ joining'[q] = "busy" => \E d \in TeamCalls :
          /\ d # c /\ teamCalls[d] # NoTeamCall
          /\ teamCalls[d].op \in {"signup", "accept"} /\ teamCalls[d].by = q
    BY <1>1 DEF TeamInv, TeamTypeOK, TeamTypes
  <2> QED
    BY <1>1, <1>2, <2>1, <2>2 DEF Waits
<1>4. ASSUME teamCalls'[c] = k PROVE CallShape(c)' /\ CallFacts(c)'
  BY <1>1, <1>4 DEF CallShape, CallFacts, teamServer
<1>5. ListsAreOfManagers'
  BY <1>1, PagesKept DEF TeamGrows, teamServer
<1>6. joining' \in [People -> {"idle", "busy", "dashboard"}]
  BY <1>1 DEF TeamInv, TeamTypes
<1> QED
  BY <1>1, <1>3, <1>4, <1>5, <1>6, CallMoves DEF TeamInv, TeamTypes

LEMMA AcceptedKeeps == ASSUME TeamInv, NEW c \in TeamCalls, Accepted(c) PROVE TeamInv'
<1> DEFINE p == teamCalls[c].by
<1>1. /\ teamCalls[c] # NoTeamCall /\ p \in People /\ Op(c) \in {"signup", "accept"}
  BY AcceptingFacts DEF Accepted, TeamCallType
<1>2. /\ joining' \in [People -> {"idle", "busy", "dashboard"}]
      /\ joining'[p] # "busy" /\ \A q \in People : q # p => joining'[q] = joining[q]
      /\ teamCalls' = [teamCalls EXCEPT ![c] = NoTeamCall]
      /\ UNCHANGED <<teamServer, team>>
  BY <1>1 DEF Accepted, TeamTaken, TeamInv, TeamTypes
<1>3. ASSUME NEW q \in People PROVE Waits(q)'
  <2>1. \A d \in TeamCalls : d # c => teamCalls'[d] = teamCalls[d]
    BY <1>2 DEF TeamInv, TeamTypes
  <2>2. team'[q].status = "loading" => \E d \in TeamCalls :
          d # c /\ teamCalls[d] # NoTeamCall /\ teamCalls[d].op = "list" /\ teamCalls[d].by = q
    BY <1>1, <1>2 DEF TeamInv, TeamTypeOK, Op
  <2>3. joining'[q] = "busy" => \E d \in TeamCalls :
          /\ d # c /\ teamCalls[d] # NoTeamCall
          /\ teamCalls[d].op \in {"signup", "accept"} /\ teamCalls[d].by = q
    BY <1>2 DEF TeamInv, TeamTypeOK
  <2> QED
    BY <2>1, <2>2, <2>3 DEF Waits
<1>4. ListsAreOfManagers'
  BY <1>2, PagesKept DEF TeamGrows, teamServer
<1> QED
  BY <1>2, <1>3, <1>4, CallMoves DEF TeamInv, TeamTypes
-----------------------------------------------------------------------------
(* The invariant of the team. *)

LEMMA TeamInitially == ASSUME TeamInit PROVE TeamInv
<1>1. /\ members \in Members /\ accounts \subseteq People
      /\ \A p \in People : members[p] # "none" => p \in accounts
      /\ invites \in [Invites -> Invitation]
      /\ \A i \in Invites : invites[i].status # "free" =>
           invites[i].email \in People /\ invites[i].role \in Role
  BY TeamAssumption DEF TeamInit
<1>2. Pending \subseteq Invites /\ \A i \in Pending : invites[i].status # "free"
  BY DEF Pending
<1>3. /\ \A p \in People : team[p].members = members /\ team[p].invites = Pending
      /\ \A p \in People : team[p].status = "table" => Manages(p)
      /\ \A p \in People : team[p].status # "loading"
      /\ team \in [People -> [members : Members, invites : SUBSET Invites,
                              status : {"table", "loading", "error", "closed"}]]
  BY <1>1, <1>2 DEF TeamInit
<1>4. /\ teamCalls = [c \in TeamCalls |-> NoTeamCall]
      /\ joining = [p \in People |-> "idle"] /\ joined = [i \in Invites |-> 0]
  BY DEF TeamInit
<1>5. TeamTypes /\ TeamTypeOK
  BY <1>1, <1>3, <1>4 DEF TeamTypes, TeamTypeOK
<1>6. ListsAreOfManagers
  BY <1>2, <1>3, Ranks DEF ListsAreOfManagers, Manages
<1>7. InvitesHaveAddresses /\ JoinedAreMembers
  BY <1>1, <1>4 DEF InvitesHaveAddresses, JoinedAreMembers
<1> QED
  BY <1>4, <1>5, <1>6, <1>7 DEF TeamInv

LEMMA TeamAnswersKeep == ASSUME TeamInv, TeamAnswers PROVE TeamInv'
<1> PICK c \in TeamCalls :
      \/ ListMembers(c) \/ ListInvites(c) \/ CheckRole(c) \/ WriteRole(c) \/ CreateInvite(c)
      \/ DeleteInvite(c) \/ TeamListed(c) \/ TeamChanged(c) \/ ReadInvite(c) \/ CreateUser(c)
      \/ AddMember(c) \/ MarkAccepted(c) \/ Accepted(c)
  BY DEF TeamAnswers
<1>1. ListMembers(c) \/ ListInvites(c) \/ TeamListed(c) \/ TeamChanged(c) => TeamInv'
  BY ListMembersKeeps, ListInvitesKeeps, TeamListedKeeps, TeamChangedKeeps
<1>2. CheckRole(c) \/ WriteRole(c) \/ CreateInvite(c) \/ DeleteInvite(c) => TeamInv'
  BY CheckRoleKeeps, WriteRoleKeeps, CreateInviteKeeps, DeleteInviteKeeps
<1>3. ReadInvite(c) \/ CreateUser(c) \/ AddMember(c) \/ MarkAccepted(c) \/ Accepted(c) => TeamInv'
  BY ReadInviteKeeps, CreateUserKeeps, AddMemberKeeps, MarkAcceptedKeeps, AcceptedKeeps
<1> QED
  BY <1>1, <1>2, <1>3

LEMMA TeamInitiativesKeep == ASSUME TeamInv, TeamInitiatives PROVE TeamInv'
<1>1. CASE \E c \in TeamCalls, p \in People : RetryTeam(c, p)
  BY <1>1, RetryTeamKeeps
<1>2. CASE \E c \in TeamCalls, p, m \in People, role \in Role : ChangeRole(c, p, m, role)
  BY <1>2, ChangeRoleKeeps
<1>3. CASE \E c \in TeamCalls, p \in People, m \in Invitees, role \in {"scanner", "admin"} :
             Invite(c, p, m, role)
  BY <1>3, InviteKeeps
<1>4. CASE \E c \in TeamCalls, p \in People, i \in Invites :
             Revoke(c, p, i) \/ \E mode \in {"signup", "accept"} : Accept(c, p, i, mode)
  BY <1>4, RevokeKeeps, AcceptKeeps
<1>5. CASE \E c \in TeamCalls : TeamCallFails(c)
  BY <1>5, TeamCallFailsKeeps
<1>6. CASE \E i \in Invites : ExpireInvite(i)
  BY <1>6, ExpireInviteKeeps
<1> QED
  BY <1>1, <1>2, <1>3, <1>4, <1>5, <1>6 DEF TeamInitiatives

\* A step of the administration is a step of the team, or leaves the team alone.
LEMMA TeamSteps == ASSUME [Next]_adminVars PROVE TeamNext \/ UNCHANGED teamVars
<1>1. CASE Answers
  BY <1>1 DEF Answers, TeamNext
<1>2. CASE Initiatives
  BY <1>2 DEF Initiatives, TeamNext
<1>3. CASE UNCHANGED listedVars
  BY <1>3 DEF listedVars
<1> QED
  BY <1>1, <1>2, <1>3 DEF Next, adminVars

LEMMA TeamKept == ASSUME TeamInv, UNCHANGED teamVars PROVE TeamInv'
<1>1. UNCHANGED <<members, accounts, invites, joined, teamCalls, team, joining>>
  BY DEF teamVars, teamServer
<1>2. TeamTypes' /\ TeamTypeOK'
  BY <1>1 DEF TeamInv, TeamTypes, TeamTypeOK
<1>3. \A c \in TeamCalls : teamCalls'[c] # NoTeamCall => CallShape(c)' /\ CallFacts(c)'
  BY <1>1, OtherCalls DEF TeamGrows
<1>4. InvitesHaveAddresses' /\ JoinedAreMembers' /\ ListsAreOfManagers'
  BY <1>1, TablesGrow, PagesKept, TablesAreTyped DEF TeamGrows
<1> QED
  BY <1>2, <1>3, <1>4 DEF TeamInv

\* Of the administration: what the tables, the calls under way and the lists of the pages have
\* to do with each other, for any number of people, invitations and calls.
THEOREM TeamInvariant == Spec => []TeamInv
<1>1. Init => TeamInv
  BY TeamInitially DEF Init
<1>2. TeamInv /\ [Next]_adminVars => TeamInv'
  BY TeamSteps, TeamKept, TeamAnswersKeep, TeamInitiativesKeep DEF TeamNext
<1> QED
  BY <1>1, <1>2, PTL DEF Spec

\* Types, offered roles and invitations, with crashes between the statements of an
\* acceptance: a list that is still right was given to a manager, so that what it offers is
\* within the ranks of PATCH; an invitation admits once, since nobody stops being a member.
THEOREM TheTeamIsSound == Spec => []TeamIsSound
<1>1. ASSUME TeamInv, NEW p \in People, NEW m \in People, team[p].members = members,
             NEW role \in Offered(p, m)
      PROVE  ApiAllows(p, m, role)
  <2>1. /\ team[p].status = "table" /\ members[m] # "none" /\ CanEdit(p, m)
        /\ role \in RoleOptions(p, m) /\ role # members[m]
    BY <1>1 DEF Offered, TeamView, Listed
  <2>2. Manages(p)
    BY <1>1, <2>1, Ranks DEF TeamInv, ListsAreOfManagers, Manages
  <2>3. /\ Rank(members[m]) <= Rank(members[p]) /\ m # p
        /\ members[m] = "owner" => members[p] = "owner"
    BY <1>1, <2>1 DEF CanEdit, Listed
  <2>4. Rank(role) <= Rank(members[p])
    <3>1. Rank(members[p]) \in 2 .. 3
      BY <2>2, Ranks DEF Manages
    <3>2. /\ role \in {"scanner", "admin", "owner"}
          /\ role = "owner" => members[p] = "owner"
      BY <1>1, <2>1 DEF RoleOptions, Listed
    <3> QED
      BY <3>1, <3>2, Ranks
  <2> QED
    BY <2>1, <2>2, <2>3, <2>4 DEF ApiAllows
<1>2. TeamInv => TeamIsSound
  BY <1>1 DEF TeamInv, JoinedAreMembers, TeamIsSound, OfferedRolesAreAccepted, InvitesAreUsedOnce
<1> QED
  BY <1>2, TeamInvariant, PTL
-----------------------------------------------------------------------------
(* The owner. *)

\* What a call must not be or have found for o to stay an owner.
SparesOwner(o, k) ==
  /\ k.op = "list" /\ k.step = "read" => k.found[o] = "owner"
  /\ k.op = "list" /\ k.step = "done" => k.found.members[o] = "owner"
  /\ k.op = "role" => k.about # o

\* What is left to show when one call changes.
LEMMA OwnerKept ==
  ASSUME TeamInv, NEW o \in People, StaysOwner(o), members'[o] = "owner",
         \A p \in People : team'[p].members[o] = "owner",
         NEW c \in TeamCalls, NEW k,
         teamCalls' = [teamCalls EXCEPT ![c] = k],
         k # NoTeamCall => SparesOwner(o, k)
  PROVE  StaysOwner(o)'
<1> SUFFICES ASSUME NEW d \in TeamCalls, teamCalls'[d] # NoTeamCall
             PROVE  SparesOwner(o, teamCalls'[d])
  BY DEF StaysOwner, SparesOwner, Op, About
<1>1. CASE d = c
  BY <1>1 DEF TeamInv, TeamTypes
<1>2. CASE d # c
  <2>1. teamCalls'[d] = teamCalls[d]
    BY <1>2 DEF TeamInv, TeamTypes
  <2> QED
    BY <2>1 DEF StaysOwner, SparesOwner, Op, About
<1> QED
  BY <1>1, <1>2

\* When one call gets on, and nobody's role or list changes.
LEMMA OwnerStands ==
  ASSUME TeamInv, NEW o \in People, StaysOwner(o), UNCHANGED <<members, team>>,
         NEW c \in TeamCalls, NEW k, teamCalls' = [teamCalls EXCEPT ![c] = k],
         k # NoTeamCall => SparesOwner(o, k)
  PROVE  StaysOwner(o)'
<1>1. members'[o] = "owner" /\ \A p \in People : team'[p].members[o] = "owner"
  BY DEF StaysOwner
<1> QED
  BY <1>1, OwnerKept

\* A step of a call that reads no list.
LEMMA OwnerStepped ==
  ASSUME TeamInv, NEW o \in People, StaysOwner(o), NEW c \in TeamCalls,
         teamCalls[c] # NoTeamCall, NEW step, step \in {"refused", "created", "added"} \/ Op(c) # "list",
         TeamStep(c, step)
  PROVE  \E k : /\ teamCalls' = [teamCalls EXCEPT ![c] = k]
                /\ k # NoTeamCall => SparesOwner(o, k)
<1> DEFINE k == [teamCalls[c] EXCEPT !.step = step]
<1>1. teamCalls[c] \in TeamCallType
  BY DEF TeamInv, TeamTypes
<1>2. k.op = Op(c) /\ k.step = step /\ k.about = About(c) /\ k.found = teamCalls[c].found
  BY <1>1 DEF TeamCallType, Op, About
<1>3. SparesOwner(o, k)
  BY <1>2 DEF SparesOwner, StaysOwner
<1>4. teamCalls' = [teamCalls EXCEPT ![c] = k]
  BY DEF TeamStep
<1> QED
  BY <1>3, <1>4

\* The steps that write no member and change no list.
LEMMA OwnerUnwritten ==
  ASSUME TeamInv, NEW o \in People, StaysOwner(o), NEW c \in TeamCalls,
         \/ CheckRole(c) \/ CreateInvite(c) \/ DeleteInvite(c) \/ CreateUser(c) \/ MarkAccepted(c)
         \/ TeamCallFails(c)
  PROVE  StaysOwner(o)'
<1>1. UNCHANGED <<members, team>> /\ teamCalls[c] # NoTeamCall
  BY DEF CheckRole, CreateInvite, DeleteInvite, CreateUser, MarkAccepted, TeamCallFails,
         TeamAt, Accepting, teamServer
<1>2. \E step : TeamStep(c, step) /\ (step \in {"refused", "created", "added"} \/ Op(c) # "list")
  BY DEF CheckRole, CreateInvite, DeleteInvite, CreateUser, MarkAccepted, TeamCallFails,
         TeamAt, Accepting, Op
<1> QED
  BY <1>1, <1>2, OwnerStepped, OwnerStands

\* A role is written for somebody else, and nobody is added who is a member.
LEMMA OwnerWritten ==
  ASSUME TeamInv, NEW o \in People, StaysOwner(o), NEW c \in TeamCalls, WriteRole(c) \/ AddMember(c)
  PROVE  StaysOwner(o)'
<1>1. UNCHANGED team /\ teamCalls[c] # NoTeamCall /\ members'[o] = "owner"
  <2>1. CASE WriteRole(c)
    <3>1. About(c) # o /\ About(c) \in People
      BY <2>1, Stepped DEF WriteRole, StaysOwner, CallShape, Op, About
    <3> QED
      BY <2>1, <3>1 DEF WriteRole, TeamAt, About, TeamInv, TeamTypes, Members, StaysOwner
  <2>2. CASE AddMember(c)
    <3>1. members[o] = "owner" /\ members \in Members
      BY DEF StaysOwner, TeamInv, TeamTypes
    <3>2. \/ UNCHANGED members
          \/ /\ members[teamCalls[c].found.email] = "none"
             /\ members' = [members EXCEPT ![teamCalls[c].found.email] = teamCalls[c].found.role]
      BY <2>2 DEF AddMember
    <3> QED
      BY <2>2, <3>1, <3>2 DEF AddMember, TeamAt, Members
  <2> QED
    BY <2>1, <2>2
<1>2. \E step : TeamStep(c, step) /\ (step \in {"refused", "created", "added"} \/ Op(c) # "list")
  BY DEF WriteRole, AddMember, TeamAt, Op
<1>3. \A p \in People : team'[p].members[o] = "owner"
  BY <1>1 DEF StaysOwner
<1> QED
  BY <1>1, <1>2, <1>3, OwnerStepped, OwnerKept

\* Reading the members finds o an owner.
LEMMA OwnerRead ==
  ASSUME TeamInv, NEW o \in People, StaysOwner(o), NEW c \in TeamCalls,
         ListMembers(c) \/ ListInvites(c) \/ ReadInvite(c)
  PROVE  StaysOwner(o)'
<1>1. /\ UNCHANGED <<members, team>>
      /\ teamCalls[c] # NoTeamCall /\ teamCalls[c] \in TeamCallType
  BY DEF ListMembers, ListInvites, ReadInvite, TeamAt, Accepting, teamServer, TeamInv, TeamTypes
<1>2. CASE TeamStep(c, "refused")
  BY <1>1, <1>2, OwnerStepped, OwnerStands
<1>3. CASE ListMembers(c) /\ ~TeamStep(c, "refused")
  <2> DEFINE k == [teamCalls[c] EXCEPT !.step = "read", !.found = members]
  <2>1. teamCalls' = [teamCalls EXCEPT ![c] = k] /\ k.op = "list" /\ k.step = "read" /\ k.found = members
    BY <1>1, <1>3 DEF ListMembers, TeamAt, TeamCallType
  <2>2. SparesOwner(o, k)
    BY <2>1 DEF SparesOwner, StaysOwner
  <2> QED
    BY <1>1, <2>1, <2>2, OwnerStands
<1>4. CASE ListInvites(c) /\ ~TeamStep(c, "refused")
  <2> DEFINE found == [members |-> teamCalls[c].found, invites |-> Pending]
             k == [teamCalls[c] EXCEPT !.step = "done", !.found = found]
  <2>1. /\ teamCalls' = [teamCalls EXCEPT ![c] = k] /\ k.op = "list" /\ k.step = "done"
        /\ k.found.members = teamCalls[c].found
    BY <1>1, <1>4 DEF ListInvites, TeamAt, TeamCallType
  <2>2. teamCalls[c].found[o] = "owner"
    BY <1>1, <1>4 DEF ListInvites, TeamAt, StaysOwner, Op
  <2>3. SparesOwner(o, k)
    BY <2>1, <2>2 DEF SparesOwner
  <2> QED
    BY <1>1, <2>1, <2>3, OwnerStands
<1>5. CASE ReadInvite(c)
  <2>1. PICK step, found :
          teamCalls' = [teamCalls EXCEPT ![c].step = step, ![c].found = found]
    BY <1>5 DEF ReadInvite
  <2> DEFINE k == [teamCalls[c] EXCEPT !.step = step, !.found = found]
  <2>2. teamCalls' = [teamCalls EXCEPT ![c] = k] /\ k.op \in {"signup", "accept"}
    <3>1. teamCalls[c].op \in {"signup", "accept"}
      BY <1>5 DEF ReadInvite, Accepting, TeamAt
    <3>2. k.op = teamCalls[c].op
      BY <1>1 DEF TeamCallType
    <3> QED
      BY <1>1, <2>1, <3>1, <3>2 DEF TeamCallType, TeamInv, TeamTypes
  <2>3. SparesOwner(o, k)
    BY <2>2 DEF SparesOwner
  <2> QED
    BY <1>1, <2>2, <2>3, OwnerStands
<1> QED
  BY <1>2, <1>3, <1>4, <1>5

\* A call for the list is as good as none.
LEMMA OwnerSparedBySending ==
  ASSUME NEW o, NEW p, NEW op, NEW about, NEW role, op # "role" \/ about # o
  PROVE  SparesOwner(o, TeamCall(op, p, about, role))
BY DEF SparesOwner, TeamCall

\* The pages: what they show of o, and what they send.
LEMMA OwnerShown ==
  ASSUME TeamInv, NEW o \in People, StaysOwner(o), NEW c \in TeamCalls,
         \/ TeamListed(c) \/ TeamChanged(c) \/ Accepted(c)
         \/ \E p \in People : RetryTeam(c, p)
  PROVE  StaysOwner(o)'
<1>1. UNCHANGED members /\ members'[o] = "owner"
  BY DEF TeamListed, TeamChanged, Accepted, RetryTeam, teamServer, StaysOwner
<1>2. \E k : /\ teamCalls' = [teamCalls EXCEPT ![c] = k]
             /\ k # NoTeamCall => SparesOwner(o, k)
  <2>1. CASE TeamTaken(c)
    BY <2>1 DEF TeamTaken
  <2>2. CASE \E p \in People : teamCalls' = [teamCalls EXCEPT ![c] = LoadTeam(p)]
    <3>1. PICK p \in People : teamCalls' = [teamCalls EXCEPT ![c] = LoadTeam(p)]
      BY <2>2
    <3>2. SparesOwner(o, LoadTeam(p))
      BY DEF SparesOwner, LoadTeam, TeamCall
    <3> QED
      BY <3>1, <3>2
  <2>3. CASE TeamChanged(c)
    <3>1. teamCalls[c].by \in People
      BY <2>3 DEF TeamChanged, TeamAt, TeamInv, TeamTypes, TeamCallType
    <3> QED
      BY <2>1, <2>2, <2>3, <3>1 DEF TeamChanged
  <2>4. CASE \E p \in People : RetryTeam(c, p)
    BY <2>2, <2>4 DEF RetryTeam, TeamSend
  <2>5. CASE TeamListed(c) \/ Accepted(c)
    BY <2>1, <2>5 DEF TeamListed, Accepted
  <2> QED
    BY <2>3, <2>4, <2>5
<1>3. ASSUME NEW q \in People PROVE team'[q].members[o] = "owner"
  <2>1. team[q].members[o] = "owner" /\ team \in [People -> [members : Members, invites : SUBSET Invites,
                              status : {"table", "loading", "error", "closed"}]]
    BY DEF StaysOwner, TeamInv, TeamTypes
  <2>2. CASE TeamListed(c)
    <3>1. CASE TeamAt(c, "list", "done")
      <4>1. teamCalls[c].found.members[o] = "owner"
        BY <3>1 DEF TeamAt, StaysOwner, Op
      <4>2. team' = [team EXCEPT ![teamCalls[c].by] =
                      [members |-> teamCalls[c].found.members,
                       invites |-> teamCalls[c].found.invites, status |-> "table"]]
        BY <2>2, <3>1 DEF TeamListed, TeamAt
      <4> QED
        BY <2>1, <4>1, <4>2
    <3>2. CASE team' = [team EXCEPT ![teamCalls[c].by].status = "error"]
      BY <2>1, <3>2
    <3> QED
      BY <2>2, <3>1, <3>2 DEF TeamListed
  <2>3. CASE UNCHANGED team
    BY <2>1, <2>3
  <2>4. CASE \E p : Loading(p)
    BY <2>1, <2>4 DEF Loading
  <2> QED
    BY <2>2, <2>3, <2>4 DEF TeamChanged, Accepted, RetryTeam
<1> QED
  BY <1>1, <1>2, <1>3, OwnerKept

\* The options of a page: none for an owner that its list shows as one.
LEMMA OwnerNotOffered ==
  ASSUME NEW o \in People, StaysOwner(o), NEW p \in People PROVE Offered(p, o) = {}
<1>1. Listed(p, o) = "owner"
  BY DEF StaysOwner, Listed
<1>2. CASE CanEdit(p, o)
  <2>1. Listed(p, p) = "owner"
    BY <1>1, <1>2 DEF CanEdit
  <2> QED
    BY <1>1, <2>1 DEF Offered, RoleOptions
<1> QED
  BY <1>2 DEF Offered

LEMMA OwnerAsked ==
  ASSUME TeamInv, NEW o \in People, StaysOwner(o), NEW c \in TeamCalls, NEW p \in People,
         \/ \E m \in People, role \in Role : ChangeRole(c, p, m, role)
         \/ \E m \in Invitees, role \in {"scanner", "admin"} : Invite(c, p, m, role)
         \/ \E i \in Invites : \/ Revoke(c, p, i)
                               \/ \E mode \in {"signup", "accept"} : Accept(c, p, i, mode)
  PROVE  StaysOwner(o)'
<1>1. UNCHANGED <<members, team>>
  BY DEF ChangeRole, Invite, Revoke, Accept, teamServer
<1>2. \E op, about, role : /\ TeamSend(c, TeamCall(op, p, about, role))
                           /\ op # "role" \/ about # o
  <2>1. CASE \E m \in People, role \in Role : ChangeRole(c, p, m, role)
    BY <2>1, OwnerNotOffered DEF ChangeRole
  <2>2. CASE \E m \in Invitees, role \in {"scanner", "admin"} : Invite(c, p, m, role)
    BY <2>2 DEF Invite
  <2>3. CASE \E i \in Invites : \/ Revoke(c, p, i)
                                \/ \E mode \in {"signup", "accept"} : Accept(c, p, i, mode)
    BY <2>3 DEF Revoke, Accept
  <2> QED
    BY <2>1, <2>2, <2>3
<1>3. \E k : teamCalls' = [teamCalls EXCEPT ![c] = k] /\ SparesOwner(o, k)
  BY <1>2, OwnerSparedBySending DEF TeamSend
<1> QED
  BY <1>1, <1>3, OwnerStands

LEMMA OwnerStays ==
  ASSUME TeamInv, NEW o \in People, StaysOwner(o), TeamNext \/ UNCHANGED teamVars
  PROVE  StaysOwner(o)'
<1>1. CASE TeamAnswers
  BY <1>1, OwnerUnwritten, OwnerWritten, OwnerRead, OwnerShown DEF TeamAnswers
<1>2. CASE TeamInitiatives
  <2>1. CASE \E i \in Invites : ExpireInvite(i)
    <3>1. UNCHANGED <<members, teamCalls, team>>
      BY <2>1 DEF ExpireInvite
    <3> QED
      BY <3>1 DEF StaysOwner, Op, About
  <2> QED
    BY <1>2, <2>1, OwnerAsked, OwnerShown, OwnerUnwritten DEF TeamInitiatives
<1>3. CASE UNCHANGED teamVars
  BY <1>3 DEF StaysOwner, teamVars, teamServer, Op, About
<1> QED
  BY <1>1, <1>2, <1>3 DEF TeamNext

\* PATCH /orgs/{id}/members/{user} checks that an owner is left and demotes in two statements:
\* two owners could demote each other.  What keeps an owner is the page: each list was read
\* while the first owner was one, and offers an owner nothing but to stay one.
THEOREM AnOwnerRemains == Spec => []OrganisationKeepsAnOwner
<1> DEFINE Kept == \E o \in People : StaysOwner(o)
<1>1. Init => Kept
  <2> SUFFICES ASSUME TeamInit PROVE Kept
    BY DEF Init
  <2>1. PICK o \in People : members[o] = "owner"
    BY TeamAssumption DEF TeamInit
  <2>2. \A p \in People : team[p].members = members
    BY DEF TeamInit
  <2>3. \A c \in TeamCalls : teamCalls[c] = NoTeamCall
    BY DEF TeamInit
  <2> QED
    BY <2>1, <2>2, <2>3 DEF StaysOwner
<1>2. Kept /\ TeamInv /\ [Next]_adminVars => Kept'
  BY TeamSteps, OwnerStays
<1>3. Kept => OrganisationKeepsAnOwner
  BY DEF StaysOwner, OrganisationKeepsAnOwner
<1> HIDE DEF Kept
<1> QED
  BY <1>1, <1>2, <1>3, TeamInvariant, PTL DEF Spec

-----------------------------------------------------------------------------
(* Exports. *)

\* Instances count as everybody does.
LEMMA ExportsCount == \A S : Exports!Cardinality(S) = Cardinality(S)
BY Zenon DEF Exports!Cardinality, Cardinality, Exports!IsFiniteSet, IsFiniteSet

ExportCall == Exports!CallOver(Exports!Tables)
ExportTypes ==
  /\ exportSale \in Exports!Tables
  /\ session \in {"valid", "expired", "revoked", "out"}
  /\ exportScreen \in Exports!Pages
  /\ exportingPdf \in BOOLEAN /\ resending \in BOOLEAN
  /\ exportCalls \in [Calls -> ExportCall \cup {NoCall}]
  /\ queued \in [Orders -> Nat] /\ clicks \in [Orders -> Nat]

\* A call k has read whatever rows there were when it was made, and asks what its kind asks.
SoundCall(k) ==
  /\ k.owed \subseteq Exports!Owed(k.kind, exportSale)
  /\ \A s \in DOMAIN k.got : k.owed \subseteq Exports!Owed(k.kind, k.got[s])
  /\ k.kind \in {"ticketPdf", "resend"} => k.order \in Orders
  /\ k.kind = "resend" /\ "resend" \in DOMAIN k.got => queued[k.order] >= 1
  /\ k.kind = "resend" => k.lost \subseteq {"resend"}
  /\ k.kind = "admissionsCsv" => DOMAIN k.got \subseteq {"attendees", "conflicts", "checkin"}

CallsAreSound == \A c \in Calls : Exports!UnderWay(c) => SoundCall(exportCalls[c])

\* The requests for an e-mail of order o that the server may still serve.
Asking(o) ==
  {c \in Calls : /\ Exports!UnderWay(c) /\ exportCalls[c].kind = "resend"
                 /\ exportCalls[c].order = o
                 /\ "resend" \notin DOMAIN exportCalls[c].got \cup exportCalls[c].lost}

EmailsAreCounted == \A o \in Orders : queued[o] + Cardinality(Asking(o)) <= clicks[o]

\* The page in front waits for call c of this kind.
Awaited(c, kind) ==
  Exports!UnderWay(c) /\ exportCalls[c].here /\ exportCalls[c].kind = kind

ButtonsWait ==
  /\ exportingPdf <=> \E c \in Calls : Awaited(c, "participantsPdf")
  /\ \A c, d \in Calls : Awaited(c, "participantsPdf") /\ Awaited(d, "participantsPdf") => c = d
  /\ resending <=> exportScreen = "participant" /\ \E c \in Calls : Awaited(c, "resend")
  /\ exportScreen = "participant" =>
       \A c, d \in Calls : Awaited(c, "resend") /\ Awaited(d, "resend") => c = d

\* What the call that ended last has left.
EndWasTrue ==
  /\ Exports!FilesAreComplete /\ Exports!SuccessToastsAreTrue /\ Exports!EndsAreTold
  /\ last.kind = "resend" => last.order \in Orders

ExportInv == ExportTypes /\ CallsAreSound /\ EmailsAreCounted /\ ButtonsWait /\ EndWasTrue

-----------------------------------------------------------------------------
\* The requests of each kind of call, in their order.
LEMMA SourcesOfCalls ==
  /\ Exports!Sources("participantsCsv") = <<"csv">> /\ Exports!Sources("nexusCsv") = <<"csv">>
  /\ Exports!Sources("participantsPdf") = <<"attendees", "orders">>
  /\ Exports!Sources("ordersCsv") = <<"orders">>
  /\ Exports!Sources("ticketsCsv") = <<"attendees">>
  /\ Exports!Sources("admissionsCsv") = <<"attendees", "conflicts", "checkin">>
  /\ Exports!Sources("ticketPdf") = <<"pdf">>
  /\ Exports!Sources("resend") = <<"resend">>
BY DEF Exports!Sources

LEMMA KindsOfCalls ==
  ASSUME NEW k \in ExportCall
  PROVE  k.kind \in {"participantsCsv", "participantsPdf", "nexusCsv", "ordersCsv", "ticketsCsv",
                     "admissionsCsv", "ticketPdf", "resend"}
BY DEF ExportCall, Exports!CallOver, Exports!Exports, Exports!Told

\* A request of a call is one that its kind makes, and that was not answered yet.
LEMMA EarliestIsOpen ==
  ASSUME NEW c \in Calls, exportCalls[c] \in ExportCall, NEW s \in Exports!Earliest(c)
  PROVE  /\ s \in Exports!Requested
         /\ s \notin DOMAIN exportCalls[c].got \cup exportCalls[c].lost
         /\ exportCalls[c].kind = "resend" <=> s = "resend"
         /\ exportCalls[c].kind = "admissionsCsv" => s \in {"attendees", "conflicts", "checkin"}
<1> DEFINE kind == exportCalls[c].kind
<1>1. PICK i \in DOMAIN Exports!Sources(kind) :
        /\ s = Exports!Sources(kind)[i]
        /\ s \notin DOMAIN exportCalls[c].got \cup exportCalls[c].lost
  BY DEF Exports!Earliest, Exports!Open
<1>2. kind \in {"participantsCsv", "participantsPdf", "nexusCsv", "ordersCsv", "ticketsCsv",
                "admissionsCsv", "ticketPdf", "resend"}
  BY KindsOfCalls
<1> HIDE DEF kind
<1>3. /\ s \in Exports!Requested
      /\ kind = "resend" <=> s = "resend"
      /\ kind = "admissionsCsv" => s \in {"attendees", "conflicts", "checkin"}
  BY <1>1, <1>2, SourcesOfCalls DEF Exports!Requested
<1> QED
  BY <1>1, <1>3 DEF kind

\* A call without open or lost requests has all of its answers.
LEMMA CompleteCallsHaveAnswers ==
  ASSUME NEW c \in Calls, exportCalls[c] \in ExportCall, Exports!Open(c) = {},
         exportCalls[c].lost = {}
  PROVE  LET k == exportCalls[c]
         IN /\ k.kind \in {"participantsCsv", "nexusCsv"} => "csv" \in DOMAIN k.got
            /\ k.kind \in {"participantsPdf", "ticketsCsv"} => "attendees" \in DOMAIN k.got
            /\ k.kind = "ordersCsv" => "orders" \in DOMAIN k.got
            /\ k.kind = "resend" => "resend" \in DOMAIN k.got
<1>1. \A i \in DOMAIN Exports!Sources(exportCalls[c].kind) :
        Exports!Sources(exportCalls[c].kind)[i] \in DOMAIN exportCalls[c].got
  BY DEF Exports!Open
<1>2. CASE exportCalls[c].kind \in {"participantsCsv", "nexusCsv"}
  BY <1>1, <1>2, SourcesOfCalls
<1>3. CASE exportCalls[c].kind = "participantsPdf"
  BY <1>1, <1>3, SourcesOfCalls
<1>4. CASE exportCalls[c].kind = "ticketsCsv"
  BY <1>1, <1>4, SourcesOfCalls
<1>5. CASE exportCalls[c].kind = "ordersCsv"
  BY <1>1, <1>5, SourcesOfCalls
<1>6. CASE exportCalls[c].kind = "resend"
  BY <1>1, <1>6, SourcesOfCalls
<1> QED
  BY <1>2, <1>3, <1>4, <1>5, <1>6

\* The limit of the lists that are exported is above what there is (100000).
LEMMA LimitIsNoLimit ==
  ASSUME NEW rows \in SUBSET Orders
  PROVE  Exports!Limited(rows, ExportLimit) = rows
<1>1. /\ IsFiniteSet(Orders) /\ Cardinality(Orders) <= ExportLimit /\ Orders \subseteq Nat
      /\ ExportLimit \in Nat
  BY AdministrationAssumption, ExportsCount, Zenon
     DEF Exports!ExportsAssumption, ExportCall, Exports!IsFiniteSet, IsFiniteSet
<1>2. ASSUME NEW o \in rows
      PROVE  Exports!Cardinality({p \in rows : p > o}) < ExportLimit
  <2> DEFINE later == {p \in rows : p > o}
  <2>1. later \in SUBSET Orders /\ later # Orders
    <3>1. o \in Orders /\ o \notin later
      BY <1>1
    <3> QED
      BY <3>1
  <2>2. Cardinality(later) <= Cardinality(Orders) /\ Cardinality(later) # Cardinality(Orders)
    BY <1>1, <2>1, FS_Subset
  <2>3. Cardinality(later) \in Nat /\ Cardinality(Orders) \in Nat
    BY <1>1, <2>1, FS_Subset, FS_CardinalityType
  <2> HIDE DEF later
  <2>4. Cardinality(later) < ExportLimit
    BY <1>1, <2>2, <2>3
  <2> QED
    BY <2>4, ExportsCount DEF later
<1> QED
  BY <1>2 DEF Exports!Limited

\* Orders go on, and stay in the lists.
LEMMA OwedGrows ==
  ASSUME ExportTypes, NEW o \in Orders, Exports!Trade(o), NEW kind
  PROVE  /\ exportSale' \in Exports!Tables
         /\ Exports!Owed(kind, exportSale) \subseteq Exports!Owed(kind, exportSale')
<1>1. exportSale' \in Exports!Tables
  BY DEF Exports!Trade, ExportTypes, Exports!Tables
<1>2. \A p \in Orders :
        /\ exportSale[p] \in {"paid", "entered", "disputed"} =>
             exportSale'[p] \in {"paid", "entered", "disputed"}
        /\ exportSale[p] # "none" => exportSale'[p] # "none"
  BY DEF Exports!Trade, ExportTypes, Exports!Tables
<1>3. Exports!Attendees(exportSale) \subseteq Exports!Attendees(exportSale')
  BY <1>2 DEF Exports!Attendees
<1>4. {p \in Orders : exportSale[p] # "none"} \subseteq {p \in Orders : exportSale'[p] # "none"}
  BY <1>2
<1> QED
  BY <1>1, <1>3, <1>4 DEF Exports!Owed

-----------------------------------------------------------------------------
\* What a call claims stays true while orders and e-mails only grow.
LEMMA SoundnessLasts ==
  ASSUME ExportInv, NEW c \in Calls, Exports!UnderWay(c),
         \A kind : Exports!Owed(kind, exportSale) \subseteq Exports!Owed(kind, exportSale'),
         \A o \in Orders : queued'[o] >= queued[o], queued' \in [Orders -> Nat],
         exportCalls'[c] = exportCalls[c]
            \/ exportCalls'[c] = [exportCalls[c] EXCEPT !.here = FALSE]
  PROVE  SoundCall(exportCalls[c])'
<1> DEFINE k == exportCalls[c]
           l == exportCalls'[c]
<1>1. k \in ExportCall /\ SoundCall(k) /\ queued \in [Orders -> Nat]
  BY DEF ExportInv, ExportTypes, CallsAreSound, Exports!UnderWay
<1>2. /\ l.owed = k.owed /\ l.kind = k.kind /\ l.got = k.got /\ l.order = k.order /\ l.lost = k.lost
  BY <1>1 DEF ExportCall, Exports!CallOver
<1>3. k.owed \subseteq Exports!Owed(k.kind, exportSale')
  BY <1>1 DEF SoundCall
<1>4. k.kind = "resend" /\ "resend" \in DOMAIN k.got => queued'[k.order] >= 1
  BY <1>1 DEF SoundCall
<1> HIDE DEF k
<1> QED
  BY <1>1, <1>2, <1>3, <1>4 DEF SoundCall

\* A step of one call leaves the claims of the others, and who asks for other e-mails.
LEMMA OtherCallsStand ==
  ASSUME ExportInv, NEW c \in Calls,
         exportCalls' = [exportCalls EXCEPT ![c] = exportCalls'[c]],
         exportCalls'[c] \in ExportCall \cup {NoCall},
         UNCHANGED exportSale,
         \A o \in Orders : queued'[o] >= queued[o], queued' \in [Orders -> Nat],
         Exports!UnderWay(c)' => SoundCall(exportCalls[c])'
  PROVE  /\ exportCalls' \in [Calls -> ExportCall \cup {NoCall}]
         /\ CallsAreSound'
         /\ \A o \in Orders : Asking(o)' \ {c} = Asking(o) \ {c}
         /\ \A d \in Calls \ {c} : exportCalls'[d] = exportCalls[d]
<1>1. exportCalls \in [Calls -> ExportCall \cup {NoCall}]
  BY DEF ExportInv, ExportTypes
<1>2. exportCalls' \in [Calls -> ExportCall \cup {NoCall}]
  BY <1>1
<1>3. \A d \in Calls \ {c} : exportCalls'[d] = exportCalls[d]
  BY <1>1
<1>4. CallsAreSound'
  <2> SUFFICES ASSUME NEW d \in Calls, Exports!UnderWay(d)'
               PROVE  SoundCall(exportCalls[d])'
    BY DEF CallsAreSound
  <2>1. CASE d = c
    BY <2>1
  <2>2. CASE d # c
    <3>1. Exports!UnderWay(d) /\ exportCalls'[d] = exportCalls[d]
      BY <1>3, <2>2 DEF Exports!UnderWay
    <3> QED
      BY <3>1, SoundnessLasts
  <2> QED
    BY <2>1, <2>2
<1>5. \A o \in Orders : Asking(o)' \ {c} = Asking(o) \ {c}
  BY <1>3 DEF Asking, Exports!UnderWay
<1> QED
  BY <1>2, <1>3, <1>4, <1>5

\* Who asks can be counted.
LEMMA AskingIsFinite ==
  ASSUME NEW o \in Orders
  PROVE  IsFiniteSet(Asking(o)) /\ Cardinality(Asking(o)) \in Nat
<1>1. IsFiniteSet(Calls)
  BY AdministrationAssumption, Zenon DEF Exports!ExportsAssumption, ExportCall, Exports!IsFiniteSet, IsFiniteSet
<1>2. Asking(o) \in SUBSET Calls
  BY DEF Asking
<1> QED
  BY <1>1, <1>2, FS_Subset, FS_CardinalityType

\* One request more or less.
LEMMA OneMoreAsks ==
  ASSUME NEW o \in Orders, NEW c, NEW S, S \ {c} = Asking(o) \ {c}
  PROVE  /\ IsFiniteSet(S) /\ Cardinality(S) \in Nat
         /\ Cardinality(S) <= Cardinality(Asking(o)) + 1
         /\ c \notin S => Cardinality(S) <= Cardinality(Asking(o))
         /\ c \notin S /\ c \in Asking(o) => Cardinality(S) + 1 = Cardinality(Asking(o))
         /\ c \in S /\ c \in Asking(o) => Cardinality(S) = Cardinality(Asking(o))
<1> DEFINE R == Asking(o) \ {c}
<1>1. IsFiniteSet(Asking(o)) /\ Cardinality(Asking(o)) \in Nat
  BY AskingIsFinite
<1>2. /\ IsFiniteSet(R) /\ Cardinality(R) \in Nat
      /\ Cardinality(R) = IF c \in Asking(o) THEN Cardinality(Asking(o)) - 1
                          ELSE Cardinality(Asking(o))
  BY <1>1, FS_RemoveElement, FS_CardinalityType
<1>3. IsFiniteSet(R \cup {c}) /\ Cardinality(R \cup {c}) = Cardinality(R) + 1
  BY <1>2, FS_AddElement
<1>4. CASE c \in S
  <2>1. S = R \cup {c}
    BY <1>4
  <2> QED
    BY <1>1, <1>2, <1>3, <1>4, <2>1
<1>5. CASE c \notin S
  <2>1. S = R
    BY <1>5
  <2> QED
    BY <1>1, <1>2, <1>5, <2>1
<1> QED
  BY <1>4, <1>5

-----------------------------------------------------------------------------
\* What was said of the last call stays true while e-mails only grow.
LEMMA EndsStayTrue ==
  ASSUME EndWasTrue, UNCHANGED last, \A o \in Orders : queued'[o] >= queued[o],
         queued' \in [Orders -> Nat], queued \in [Orders -> Nat]
  PROVE  EndWasTrue'
<1>1. last.kind = "resend" /\ last.toast = "success" =>
        last.sent /\ last.order \in Orders /\ queued'[last.order] >= 1
  BY DEF EndWasTrue, Exports!SuccessToastsAreTrue
<1> QED
  BY <1>1 DEF EndWasTrue, Exports!FilesAreComplete, Exports!SuccessToastsAreTrue, Exports!EndsAreTold

\* A page that shows the same waits for the same.
LEMMA ButtonsStay ==
  ASSUME ButtonsWait, UNCHANGED <<exportScreen, exportingPdf, resending>>,
         \A c \in Calls : /\ Awaited(c, "participantsPdf")' <=> Awaited(c, "participantsPdf")
                          /\ Awaited(c, "resend")' <=> Awaited(c, "resend")
  PROVE  ButtonsWait'
BY DEF ButtonsWait

\* An e-mail that is given to the service was asked for by a request that asks no more.
LEMMA EmailsStayCounted ==
  ASSUME ExportInv, NEW c \in Calls, UNCHANGED clicks, queued' \in [Orders -> Nat],
         \A o \in Orders : /\ Asking(o)' \ {c} = Asking(o) \ {c}
                           /\ c \in Asking(o)' => c \in Asking(o)
                           /\ queued'[o] # queued[o] =>
                                /\ queued'[o] = queued[o] + 1
                                /\ c \in Asking(o) /\ c \notin Asking(o)'
  PROVE  EmailsAreCounted'
<1> SUFFICES ASSUME NEW o \in Orders
             PROVE  queued'[o] + Cardinality(Asking(o)') <= clicks'[o]
  BY DEF EmailsAreCounted
<1>1. /\ queued[o] + Cardinality(Asking(o)) <= clicks[o]
      /\ queued[o] \in Nat /\ clicks[o] \in Nat /\ clicks'[o] = clicks[o]
      /\ Cardinality(Asking(o)) \in Nat /\ queued'[o] \in Nat
  BY AskingIsFinite DEF ExportInv, ExportTypes, EmailsAreCounted
<1> DEFINE S == Asking(o)'
<1>2. /\ S \ {c} = Asking(o) \ {c}
      /\ c \in S => c \in Asking(o)
      /\ queued'[o] # queued[o] =>
           queued'[o] = queued[o] + 1 /\ c \in Asking(o) /\ c \notin S
  OBVIOUS
<1> HIDE DEF S
<1>3. /\ Cardinality(S) \in Nat
      /\ c \notin S => Cardinality(S) <= Cardinality(Asking(o))
      /\ c \notin S /\ c \in Asking(o) => Cardinality(S) + 1 = Cardinality(Asking(o))
      /\ c \in S /\ c \in Asking(o) => Cardinality(S) = Cardinality(Asking(o))
  BY <1>2, OneMoreAsks
<1>4. queued'[o] + Cardinality(S) <= clicks'[o]
  BY <1>1, <1>2, <1>3
<1> QED
  BY <1>4 DEF S

\* The server answers.
LEMMA AnswersAreKept ==
  ASSUME ExportInv, NEW c \in Calls, Exports!Answer(c)
  PROVE  ExportInv'
<1>1. PICK s \in Exports!Earliest(c) :
        /\ exportCalls' = [exportCalls EXCEPT ![c].got =
             [t \in DOMAIN @ \cup {s} |-> IF t = s THEN exportSale ELSE @[t]]]
        /\ queued' = IF s = "resend" THEN [queued EXCEPT ![exportCalls[c].order] = @ + 1] ELSE queued
  BY DEF Exports!Answer
<1>2. /\ UNCHANGED <<exportSale, session, exportScreen, exportingPdf, resending, clicks, last>>
      /\ exportCalls[c] # NoCall
  BY DEF Exports!Answer, Exports!UnderWay, Exports!page
<1> DEFINE k == exportCalls[c]
           g == [t \in DOMAIN k.got \cup {s} |-> IF t = s THEN exportSale ELSE k.got[t]]
           l == [k EXCEPT !.got = g]
<1>3. /\ k \in ExportCall /\ SoundCall(k) /\ exportSale \in Exports!Tables
      /\ exportCalls \in [Calls -> ExportCall \cup {NoCall}]
      /\ queued \in [Orders -> Nat]
  BY <1>2 DEF ExportInv, ExportTypes, CallsAreSound, Exports!UnderWay
<1>4. exportCalls' = [exportCalls EXCEPT ![c] = l] /\ exportCalls'[c] = l
  BY <1>1, <1>3
<1>5. /\ s \in Exports!Requested
      /\ s \notin DOMAIN k.got \cup k.lost
      /\ k.kind = "resend" <=> s = "resend"
      /\ k.kind = "admissionsCsv" => s \in {"attendees", "conflicts", "checkin"}
  BY <1>3, EarliestIsOpen
<1>6. g \in UNION {[S -> Exports!Tables] : S \in SUBSET Exports!Requested}
  <2>1. PICK S \in SUBSET Exports!Requested : k.got \in [S -> Exports!Tables]
    BY <1>3 DEF ExportCall, Exports!CallOver
  <2>2. g \in [S \cup {s} -> Exports!Tables] /\ S \cup {s} \in SUBSET Exports!Requested
    BY <1>3, <1>5, <2>1
  <2> QED
    BY <2>2
<1>7. DOMAIN g = DOMAIN k.got \cup {s} /\ \A t \in DOMAIN g : g[t] = IF t = s THEN exportSale ELSE k.got[t]
  OBVIOUS
<1> HIDE DEF g
<1>8. /\ l \in ExportCall /\ l.got = g
      /\ l.kind = k.kind /\ l.order = k.order /\ l.owed = k.owed /\ l.here = k.here /\ l.lost = k.lost
  BY <1>3, <1>6 DEF ExportCall, Exports!CallOver
<1>9. /\ queued' \in [Orders -> Nat]
      /\ \A o \in Orders : queued'[o] >= queued[o]
      /\ s = "resend" => k.order \in Orders /\ queued'[k.order] = queued[k.order] + 1
      /\ \A o \in Orders : queued'[o] # queued[o] =>
           s = "resend" /\ o = k.order /\ queued'[o] = queued[o] + 1
  BY <1>1, <1>3, <1>5 DEF SoundCall
<1> HIDE DEF l
<1>10. SoundCall(exportCalls[c])'
  <2>1. \A t \in DOMAIN g : k.owed \subseteq Exports!Owed(k.kind, g[t])
    BY <1>3, <1>7 DEF SoundCall
  <2>2. k.kind = "admissionsCsv" => DOMAIN g \subseteq {"attendees", "conflicts", "checkin"}
    BY <1>3, <1>5, <1>7 DEF SoundCall
  <2>3. k.kind = "resend" => queued'[k.order] >= 1
    BY <1>3, <1>5, <1>9
  <2> HIDE DEF k
  <2> QED
    BY <1>2, <1>3, <1>4, <1>8, <2>1, <2>2, <2>3 DEF SoundCall
<1>11. exportCalls' = [exportCalls EXCEPT ![c] = exportCalls'[c]]
  BY <1>4
<1>12. /\ exportCalls' \in [Calls -> ExportCall \cup {NoCall}]
       /\ CallsAreSound'
       /\ \A o \in Orders : Asking(o)' \ {c} = Asking(o) \ {c}
       /\ \A d \in Calls \ {c} : exportCalls'[d] = exportCalls[d]
  BY <1>2, <1>4, <1>8, <1>9, <1>10, <1>11, OtherCallsStand
<1>13. EmailsAreCounted'
  <2>1. ASSUME NEW o \in Orders
        PROVE  /\ c \in Asking(o)' => c \in Asking(o)
               /\ s = "resend" => c \notin Asking(o)'
               /\ s = "resend" /\ o = k.order => c \in Asking(o)
    BY <1>2, <1>4, <1>5, <1>7, <1>8 DEF Asking, Exports!UnderWay
  <2> QED
    BY <1>2, <1>9, <1>12, <2>1, EmailsStayCounted
<1>14. ExportTypes'
  BY <1>2, <1>9, <1>12 DEF ExportInv, ExportTypes
<1>15. ButtonsWait'
  <2>1. \A d \in Calls : exportCalls'[d] = exportCalls[d] \/ d = c
    BY <1>12
  <2>2. l # NoCall
    BY <1>8, AdministrationAssumption DEF Exports!ExportsAssumption, ExportCall
  <2>3. \A kind : \A d \in Calls : Awaited(d, kind)' <=> Awaited(d, kind)
    BY <1>2, <1>4, <1>8, <2>1, <2>2 DEF Awaited, Exports!UnderWay
  <2> QED
    BY <1>2, <2>3, ButtonsStay DEF ExportInv
<1>16. EndWasTrue'
  BY <1>2, <1>3, <1>9, EndsStayTrue DEF ExportInv
<1> QED
  BY <1>12, <1>13, <1>14, <1>15, <1>16 DEF ExportInv

\* A request is lost, refused, or made again: a lost request for an e-mail may have been served,
\* and is not made again.
LEMMA LossesAreKept ==
  ASSUME ExportInv, NEW c \in Calls, Exports!Refused(c) \/ Exports!Lose(c)
  PROVE  ExportInv'
<1> DEFINE k == exportCalls[c]
<1>1. PICK s \in Exports!Earliest(c) :
        /\ \/ exportCalls' = [exportCalls EXCEPT ![c].lost = @ \cup {s}]
           \/ exportCalls' = [exportCalls EXCEPT ![c].retried = @ \cup {s}] /\ UNCHANGED queued
        /\ \/ UNCHANGED queued
           \/ s = "resend" /\ queued' = [queued EXCEPT ![exportCalls[c].order] = @ + 1]
        /\ session' \in {session, "valid", "out"}
  BY DEF Exports!Refused, Exports!Lose
<1>2. /\ UNCHANGED <<exportSale, exportScreen, exportingPdf, resending, clicks, last>>
      /\ exportCalls[c] # NoCall
  BY DEF Exports!Refused, Exports!Lose, Exports!UnderWay, Exports!page
<1>3. /\ k \in ExportCall /\ SoundCall(k)
      /\ exportCalls \in [Calls -> ExportCall \cup {NoCall}]
      /\ queued \in [Orders -> Nat]
  BY <1>2 DEF ExportInv, ExportTypes, CallsAreSound, Exports!UnderWay
<1>4. /\ s \in Exports!Requested
      /\ s \notin DOMAIN k.got \cup k.lost
      /\ k.kind = "resend" <=> s = "resend"
  BY <1>3, EarliestIsOpen
<1>5. PICK l \in ExportCall :
        /\ exportCalls' = [exportCalls EXCEPT ![c] = l] /\ exportCalls'[c] = l
        /\ l.kind = k.kind /\ l.order = k.order /\ l.owed = k.owed /\ l.here = k.here
        /\ l.got = k.got
        /\ l.lost = k.lost \cup {s} \/ (l.lost = k.lost /\ UNCHANGED queued)
  <2>1. CASE exportCalls' = [exportCalls EXCEPT ![c].lost = @ \cup {s}]
    <3> DEFINE l == [k EXCEPT !.lost = @ \cup {s}]
    <3>1. exportCalls' = [exportCalls EXCEPT ![c] = l] /\ exportCalls'[c] = l
      BY <1>3, <2>1
    <3>2. /\ l \in ExportCall /\ l.lost = k.lost \cup {s} /\ l.got = k.got
          /\ l.kind = k.kind /\ l.order = k.order /\ l.owed = k.owed /\ l.here = k.here
      BY <1>3, <1>4 DEF ExportCall, Exports!CallOver
    <3> HIDE DEF l
    <3> QED
      BY <3>1, <3>2
  <2>2. CASE exportCalls' = [exportCalls EXCEPT ![c].retried = @ \cup {s}] /\ UNCHANGED queued
    <3> DEFINE l == [k EXCEPT !.retried = @ \cup {s}]
    <3>1. exportCalls' = [exportCalls EXCEPT ![c] = l] /\ exportCalls'[c] = l
      BY <1>3, <2>2
    <3>2. /\ l \in ExportCall /\ l.lost = k.lost /\ l.got = k.got
          /\ l.kind = k.kind /\ l.order = k.order /\ l.owed = k.owed /\ l.here = k.here
      BY <1>3, <1>4 DEF ExportCall, Exports!CallOver
    <3> HIDE DEF l
    <3> QED
      BY <2>2, <3>1, <3>2
  <2> QED
    BY <1>1, <2>1, <2>2
<1>6. /\ queued' \in [Orders -> Nat]
      /\ \A o \in Orders : queued'[o] >= queued[o]
      /\ \A o \in Orders : queued'[o] # queued[o] =>
           s = "resend" /\ o = k.order /\ queued'[o] = queued[o] + 1
  BY <1>1, <1>3, <1>4 DEF SoundCall
<1>7. SoundCall(exportCalls[c])'
  <2>1. k.kind = "resend" /\ "resend" \in DOMAIN k.got => queued'[k.order] >= 1
    BY <1>3, <1>6 DEF SoundCall
  <2>2. k.kind = "resend" => l.lost \subseteq {"resend"}
    BY <1>3, <1>4, <1>5 DEF SoundCall
  <2> HIDE DEF k
  <2> QED
    BY <1>2, <1>3, <1>5, <2>1, <2>2 DEF SoundCall
<1>8. exportCalls' = [exportCalls EXCEPT ![c] = exportCalls'[c]]
  BY <1>5
<1>9. /\ exportCalls' \in [Calls -> ExportCall \cup {NoCall}]
      /\ CallsAreSound'
      /\ \A o \in Orders : Asking(o)' \ {c} = Asking(o) \ {c}
      /\ \A d \in Calls \ {c} : exportCalls'[d] = exportCalls[d]
  BY <1>2, <1>5, <1>6, <1>7, <1>8, OtherCallsStand
<1>10. EmailsAreCounted'
  <2>1. ASSUME NEW o \in Orders
        PROVE  /\ c \in Asking(o)' => c \in Asking(o)
               /\ queued'[o] # queued[o] => c \notin Asking(o)'
               /\ s = "resend" /\ o = k.order => c \in Asking(o)
    BY <1>2, <1>4, <1>5, <1>6 DEF Asking, Exports!UnderWay
  <2> QED
    BY <1>2, <1>6, <1>9, <2>1, EmailsStayCounted
<1>11. ExportTypes'
  BY <1>1, <1>2, <1>6, <1>9 DEF ExportInv, ExportTypes
<1>12. ButtonsWait'
  <2>1. \A d \in Calls : exportCalls'[d] = exportCalls[d] \/ d = c
    BY <1>9
  <2>2. l # NoCall
    BY AdministrationAssumption DEF Exports!ExportsAssumption, ExportCall
  <2>3. \A kind : \A d \in Calls : Awaited(d, kind)' <=> Awaited(d, kind)
    BY <1>2, <1>5, <2>1, <2>2 DEF Awaited, Exports!UnderWay
  <2> QED
    BY <1>2, <2>3, ButtonsStay DEF ExportInv
<1>13. EndWasTrue'
  BY <1>2, <1>3, <1>6, EndsStayTrue DEF ExportInv
<1> QED
  BY <1>9, <1>10, <1>11, <1>12, <1>13 DEF ExportInv

\* A call begins with what it owes.
LEMMA StartsAreSound ==
  ASSUME ExportInv, NEW c \in Calls, NEW kind \in Exports!Exports \cup Exports!Told,
         NEW order \in Orders \cup {0}, kind \in {"ticketPdf", "resend"} => order \in Orders,
         Exports!Start(c, kind, order)
  PROVE  /\ UNCHANGED <<exportSale, session, queued, last>>
         /\ exportCalls' \in [Calls -> ExportCall \cup {NoCall}]
         /\ CallsAreSound'
         /\ \A o \in Orders : Asking(o)' \ {c} = Asking(o) \ {c}
         /\ \A o \in Orders : c \in Asking(o)' => kind = "resend" /\ o = order
         /\ \A d \in Calls \ {c} : \A k : Awaited(d, k)' <=> Awaited(d, k)
         /\ \A k : ~Awaited(c, k) /\ (Awaited(c, k)' <=> k = kind)
<1> DEFINE l == [kind |-> kind, order |-> order, owed |-> Exports!Owed(kind, exportSale), here |-> TRUE,
                 got |-> Exports!NothingGot, lost |-> {}, retried |-> {}]
<1>1. /\ UNCHANGED <<exportSale, session, queued, last>>
      /\ ~Exports!UnderWay(c)
      /\ exportCalls' = [exportCalls EXCEPT ![c] = l]
  BY DEF Exports!Start, Exports!server, Exports!IsFree
<1>2. exportCalls'[c] = l /\ queued \in [Orders -> Nat]
  BY <1>1 DEF ExportInv, ExportTypes
<1>3. DOMAIN Exports!NothingGot = {}
      /\ Exports!NothingGot \in UNION {[S -> Exports!Tables] : S \in SUBSET Exports!Requested}
  <2>1. Exports!NothingGot \in [{} -> Exports!Tables]
    BY DEF Exports!NothingGot
  <2> QED
    BY <2>1
<1>4. Exports!Owed(kind, exportSale) \subseteq Orders
  BY DEF Exports!Owed, Exports!Attendees
<1>5. /\ l \in ExportCall
      /\ l.kind = kind /\ l.order = order /\ l.owed = Exports!Owed(kind, exportSale) /\ l.here
      /\ DOMAIN l.got = {} /\ l.lost = {}
  BY <1>3, <1>4 DEF ExportCall, Exports!CallOver
<1>6. l # NoCall
  BY <1>5, AdministrationAssumption DEF Exports!ExportsAssumption, ExportCall
<1> HIDE DEF l
<1>7. SoundCall(exportCalls[c])'
  BY <1>1, <1>2, <1>5 DEF SoundCall
<1>8. /\ exportCalls' = [exportCalls EXCEPT ![c] = exportCalls'[c]]
      /\ exportCalls'[c] \in ExportCall \cup {NoCall}
  BY <1>1, <1>2, <1>5
<1>9. queued' \in [Orders -> Nat] /\ \A o \in Orders : queued'[o] >= queued[o]
  BY <1>1, <1>2
<1>10. /\ exportCalls' \in [Calls -> ExportCall \cup {NoCall}]
       /\ CallsAreSound'
       /\ \A o \in Orders : Asking(o)' \ {c} = Asking(o) \ {c}
       /\ \A d \in Calls \ {c} : exportCalls'[d] = exportCalls[d]
  BY <1>1, <1>7, <1>8, <1>9, OtherCallsStand
<1>11. \A o \in Orders : c \in Asking(o)' => kind = "resend" /\ o = order
  BY <1>2, <1>5 DEF Asking
<1>12. ASSUME NEW d \in Calls \ {c}, NEW k
       PROVE  Awaited(d, k)' <=> Awaited(d, k)
  <2>1. exportCalls'[d] = exportCalls[d]
    BY <1>10
  <2> QED
    BY <2>1 DEF Awaited, Exports!UnderWay
<1>13. \A k : ~Awaited(c, k) /\ (Awaited(c, k)' <=> k = kind)
  BY <1>1, <1>2, <1>5, <1>6 DEF Awaited, Exports!UnderWay
<1> QED
  BY <1>1, <1>10, <1>11, <1>12, <1>13

\* Whoever exports or downloads asks for no e-mail.
LEMMA DownloadsAreKept ==
  ASSUME ExportInv, NEW c \in Calls,
         \/ Exports!ExportCsv(c) \/ Exports!ExportPdf(c) \/ Exports!ExportList(c)
         \/ Exports!DownloadPdf(c)
  PROVE  ExportInv'
<1>1. PICK kind \in {"participantsCsv", "participantsPdf", "nexusCsv", "ordersCsv", "ticketsCsv",
                     "admissionsCsv", "ticketPdf"}, order \in Orders \cup {0} :
        /\ Exports!Start(c, kind, order)
        /\ kind = "ticketPdf" => order \in Orders
        /\ UNCHANGED <<exportScreen, resending, clicks>>
        /\ IF kind = "participantsPdf" THEN ~exportingPdf /\ exportingPdf' ELSE UNCHANGED exportingPdf
        /\ exportingPdf' \in BOOLEAN
  <2>0. exportingPdf \in BOOLEAN
    BY DEF ExportInv, ExportTypes
  <2>1. CASE Exports!ExportCsv(c)
    BY <2>0, <2>1 DEF Exports!ExportCsv, Exports!page
  <2>2. CASE Exports!ExportPdf(c)
    BY <2>2 DEF Exports!ExportPdf
  <2>3. CASE Exports!ExportList(c)
    <3>1. PICK kind \in {"nexusCsv", "ordersCsv", "ticketsCsv", "admissionsCsv"} : Exports!Start(c, kind, 0)
      BY <2>3 DEF Exports!ExportList
    <3> QED
      BY <2>0, <2>3, <3>1 DEF Exports!ExportList, Exports!page
  <2>4. CASE Exports!DownloadPdf(c)
    <3>1. PICK o \in Orders : Exports!Start(c, "ticketPdf", o)
      BY <2>4 DEF Exports!DownloadPdf, Exports!Listed, Exports!Attendees
    <3> QED
      BY <2>0, <2>4, <3>1 DEF Exports!DownloadPdf, Exports!page
  <2> QED
    BY <2>1, <2>2, <2>3, <2>4
<1>2. kind \in Exports!Exports \cup Exports!Told /\ kind # "resend"
  BY DEF Exports!Exports, Exports!Told
<1>3. /\ UNCHANGED <<exportSale, session, queued, last>>
      /\ exportCalls' \in [Calls -> ExportCall \cup {NoCall}]
      /\ CallsAreSound'
      /\ \A o \in Orders : Asking(o)' \ {c} = Asking(o) \ {c}
      /\ \A o \in Orders : c \in Asking(o)' => kind = "resend" /\ o = order
      /\ \A d \in Calls \ {c} : \A k : Awaited(d, k)' <=> Awaited(d, k)
      /\ \A k : ~Awaited(c, k) /\ (Awaited(c, k)' <=> k = kind)
  BY <1>1, <1>2, StartsAreSound
<1>4. ExportTypes'
  BY <1>1, <1>3 DEF ExportInv, ExportTypes
<1>5. EmailsAreCounted'
  BY <1>1, <1>2, <1>3, <1>4, EmailsStayCounted DEF ExportTypes
<1>6. ButtonsWait'
  BY <1>1, <1>2, <1>3 DEF ExportInv, ButtonsWait
<1>7. EndWasTrue'
  <2>1. queued \in [Orders -> Nat] /\ \A o \in Orders : queued'[o] >= queued[o]
    BY <1>3 DEF ExportInv, ExportTypes
  <2> QED
    BY <1>3, <2>1, EndsStayTrue DEF ExportInv
<1> QED
  BY <1>3, <1>4, <1>5, <1>6, <1>7 DEF ExportInv

\* A click asks for one e-mail.
LEMMA ResendsAreKept ==
  ASSUME ExportInv, NEW c \in Calls, Exports!Resend(c)
  PROVE  ExportInv'
<1>1. PICK o \in Orders : Exports!Start(c, "resend", o) /\ clicks' = [clicks EXCEPT ![o] = @ + 1]
  BY DEF Exports!Resend, Exports!Listed, Exports!Attendees
<1>2. /\ UNCHANGED <<exportScreen, exportingPdf>>
      /\ resending' = (exportScreen = "participant")
      /\ exportScreen = "participant" => ~resending
      /\ exportScreen # "participant" => exportScreen = "tickets"
  BY DEF Exports!Resend, Exports!MayResend
<1>3. /\ UNCHANGED <<exportSale, session, queued, last>>
      /\ exportCalls' \in [Calls -> ExportCall \cup {NoCall}]
      /\ CallsAreSound'
      /\ \A p \in Orders : Asking(p)' \ {c} = Asking(p) \ {c}
      /\ \A p \in Orders : c \in Asking(p)' => p = o
      /\ \A d \in Calls \ {c} : \A k : Awaited(d, k)' <=> Awaited(d, k)
      /\ \A k : ~Awaited(c, k) /\ (Awaited(c, k)' <=> k = "resend")
  <2>1. "resend" \in Exports!Exports \cup Exports!Told
    BY DEF Exports!Told
  <2> QED
    BY <1>1, <2>1, StartsAreSound
<1>4. ExportTypes'
  BY <1>1, <1>2, <1>3 DEF ExportInv, ExportTypes
<1>5. EmailsAreCounted'
  <2> SUFFICES ASSUME NEW p \in Orders
               PROVE  queued'[p] + Cardinality(Asking(p)') <= clicks'[p]
    BY DEF EmailsAreCounted
  <2>1. /\ queued[p] + Cardinality(Asking(p)) <= clicks[p]
        /\ queued[p] \in Nat /\ clicks[p] \in Nat /\ queued'[p] = queued[p]
        /\ clicks'[p] = IF p = o THEN clicks[p] + 1 ELSE clicks[p]
        /\ Cardinality(Asking(p)) \in Nat
    BY <1>1, <1>3, AskingIsFinite DEF ExportInv, ExportTypes, EmailsAreCounted
  <2> DEFINE S == Asking(p)'
  <2>2. S \ {c} = Asking(p) \ {c} /\ (c \in S => p = o)
    BY <1>3
  <2> HIDE DEF S
  <2>3. /\ Cardinality(S) \in Nat
        /\ Cardinality(S) <= Cardinality(Asking(p)) + 1
        /\ c \notin S => Cardinality(S) <= Cardinality(Asking(p))
    BY <2>2, OneMoreAsks
  <2>4. queued'[p] + Cardinality(S) <= clicks'[p]
    BY <2>1, <2>2, <2>3
  <2> QED
    BY <2>4 DEF S
<1>6. ButtonsWait'
  BY <1>2, <1>3 DEF ExportInv, ButtonsWait
<1>7. EndWasTrue'
  <2>1. queued \in [Orders -> Nat] /\ \A p \in Orders : queued'[p] >= queued[p]
    BY <1>3 DEF ExportInv, ExportTypes
  <2> QED
    BY <1>3, <2>1, EndsStayTrue DEF ExportInv
<1> QED
  BY <1>3, <1>4, <1>5, <1>6, <1>7 DEF ExportInv

\* A call that ends leaves the others, and the e-mails, as they are.
LEMMA EndsAreSound ==
  ASSUME ExportInv, NEW c \in Calls, Exports!UnderWay(c), NEW file, NEW toast,
         Exports!Ends(c, file, toast)
  PROVE  /\ UNCHANGED <<exportSale, session, queued, exportScreen, clicks>>
         /\ exportCalls' \in [Calls -> ExportCall \cup {NoCall}]
         /\ CallsAreSound' /\ EmailsAreCounted'
         /\ \A d \in Calls \ {c} : \A k : Awaited(d, k)' <=> Awaited(d, k)
         /\ \A k : ~Awaited(c, k)'
         /\ last'.kind = exportCalls[c].kind /\ last'.owed = exportCalls[c].owed
         /\ last'.order = exportCalls[c].order /\ last'.file = file /\ last'.toast = toast
         /\ last'.sent <=> "resend" \in DOMAIN exportCalls[c].got
<1>1. /\ UNCHANGED <<exportSale, session, queued, exportScreen, clicks>>
      /\ exportCalls' = [exportCalls EXCEPT ![c] = NoCall]
      /\ last' = [kind |-> exportCalls[c].kind, owed |-> exportCalls[c].owed,
                  order |-> exportCalls[c].order, sent |-> "resend" \in DOMAIN exportCalls[c].got,
                  file |-> file, toast |-> toast]
  BY DEF Exports!Ends, Exports!server
<1>2. exportCalls'[c] = NoCall /\ queued \in [Orders -> Nat]
  BY <1>1 DEF ExportInv, ExportTypes
<1>3. exportCalls' = [exportCalls EXCEPT ![c] = exportCalls'[c]] /\ ~Exports!UnderWay(c)'
  BY <1>1, <1>2 DEF Exports!UnderWay
<1>4. queued' \in [Orders -> Nat] /\ \A o \in Orders : queued'[o] >= queued[o]
  BY <1>1, <1>2
<1>5. /\ exportCalls' \in [Calls -> ExportCall \cup {NoCall}]
      /\ CallsAreSound'
      /\ \A o \in Orders : Asking(o)' \ {c} = Asking(o) \ {c}
      /\ \A d \in Calls \ {c} : exportCalls'[d] = exportCalls[d]
  BY <1>1, <1>2, <1>3, <1>4, OtherCallsStand
<1>6. \A o \in Orders : c \notin Asking(o)'
  BY <1>3 DEF Asking
<1>7. EmailsAreCounted'
  BY <1>1, <1>4, <1>5, <1>6, EmailsStayCounted
<1>8. ASSUME NEW d \in Calls \ {c}, NEW k
      PROVE  Awaited(d, k)' <=> Awaited(d, k)
  BY <1>5 DEF Awaited, Exports!UnderWay
<1>9. \A k : ~Awaited(c, k)'
  BY <1>3 DEF Awaited
<1>10. /\ last'.kind = exportCalls[c].kind /\ last'.owed = exportCalls[c].owed
       /\ last'.order = exportCalls[c].order /\ last'.file = file /\ last'.toast = toast
       /\ last'.sent <=> "resend" \in DOMAIN exportCalls[c].got
  BY <1>1
<1> QED
  BY <1>1, <1>5, <1>7, <1>8, <1>9, <1>10

\* The rows of a file are those that its tables had, and no file is none of them.
LEMMA FilesOfCalls ==
  ASSUME ExportInv, NEW c \in Calls, Exports!UnderWay(c), Exports!Open(c) = {},
         exportCalls[c].lost = {},
         exportCalls[c].kind \in {"participantsCsv", "participantsPdf", "nexusCsv", "ordersCsv", "ticketsCsv"}
  PROVE  LET rows == Exports!Rows(exportCalls[c].kind, exportCalls[c].got)
         IN rows # NoFile /\ exportCalls[c].owed \subseteq rows
<1> DEFINE k == exportCalls[c]
           rows == Exports!Rows(k.kind, k.got)
<1>1. k \in ExportCall /\ SoundCall(k)
  BY DEF ExportInv, ExportTypes, CallsAreSound, Exports!UnderWay
<1>2. /\ k.kind \in {"participantsCsv", "nexusCsv"} => "csv" \in DOMAIN k.got
      /\ k.kind \in {"participantsPdf", "ticketsCsv"} => "attendees" \in DOMAIN k.got
      /\ k.kind = "ordersCsv" => "orders" \in DOMAIN k.got
  BY <1>1, CompleteCallsHaveAnswers
<1>3. \A s \in DOMAIN k.got : k.owed \subseteq Exports!Owed(k.kind, k.got[s])
  BY <1>1 DEF SoundCall
<1>4. \A table : Exports!Attendees(table) \in SUBSET Orders
                 /\ {o \in Orders : table[o] # "none"} \in SUBSET Orders
  BY DEF Exports!Attendees
<1>5. \A R \in SUBSET Orders : R # NoFile
  BY AdministrationAssumption DEF Exports!ExportsAssumption, ExportCall
<1>6. CASE k.kind \in {"participantsCsv", "nexusCsv"}
  <2>1. rows = Exports!Attendees(k.got["csv"])
    BY <1>6 DEF Exports!Rows, Exports!ParticipantsCsv
  <2>2. k.owed \subseteq Exports!Attendees(k.got["csv"])
    BY <1>2, <1>3, <1>6 DEF Exports!Owed
  <2> QED
    BY <1>4, <1>5, <2>1, <2>2
<1>7. CASE k.kind = "participantsPdf"
  <2>1. rows = Exports!Attendees(k.got["attendees"])
    BY <1>4, <1>7, LimitIsNoLimit DEF Exports!Rows
  <2>2. k.owed \subseteq Exports!Attendees(k.got["attendees"])
    BY <1>2, <1>3, <1>7 DEF Exports!Owed
  <2> QED
    BY <1>4, <1>5, <2>1, <2>2
<1>8. CASE k.kind = "ordersCsv"
  <2>1. rows = {o \in Orders : k.got["orders"][o] # "none"}
    BY <1>4, <1>8, LimitIsNoLimit DEF Exports!Rows
  <2>2. k.owed \subseteq {o \in Orders : k.got["orders"][o] # "none"}
    BY <1>2, <1>3, <1>8 DEF Exports!Owed
  <2> QED
    BY <1>4, <1>5, <2>1, <2>2
<1>9. CASE k.kind = "ticketsCsv"
  <2>1. rows = Exports!Attendees(k.got["attendees"])
    BY <1>9 DEF Exports!Rows
  <2>2. k.owed \subseteq Exports!Attendees(k.got["attendees"])
    BY <1>2, <1>3, <1>9 DEF Exports!Owed
  <2> QED
    BY <1>4, <1>5, <2>1, <2>2
<1> QED
  BY <1>6, <1>7, <1>8, <1>9

\* The scans of the admissions are rows of another shape.
LEMMA AdmissionsAreRows ==
  ASSUME ExportInv, NEW c \in Calls, Exports!UnderWay(c), exportCalls[c].kind = "admissionsCsv"
  PROVE  /\ Exports!Rows("admissionsCsv", exportCalls[c].got) # NoFile
         /\ exportCalls[c].owed = {}
<1> DEFINE k == exportCalls[c]
           rows == Exports!Rows("admissionsCsv", k.got)
<1>1. SoundCall(k)
  BY DEF ExportInv, CallsAreSound
<1>2. k.owed = {}
  BY <1>1 DEF SoundCall, Exports!Owed
<1>3. DOMAIN k.got \subseteq {"attendees", "conflicts", "checkin"}
  BY <1>1 DEF SoundCall
<1>4. rows \in SUBSET (Orders \X {"attendees", "conflicts", "checkin"})
  BY <1>3 DEF Exports!Rows
<1>5. \A R \in SUBSET (Orders \X {"attendees", "conflicts", "checkin"}) : R # NoFile
  BY AdministrationAssumption, Zenon DEF Exports!ExportsAssumption, ExportCall
<1> QED
  BY <1>2, <1>4, <1>5

\* A call ends as it should: with all it owes, a true toast, and its button free again.
LEMMA ReturnsAreKept ==
  ASSUME ExportInv, NEW c \in Calls, Exports!UnderWay(c), NEW file, NEW toast,
         Exports!Ends(c, file, toast),
         file # NoFile => exportCalls[c].owed \subseteq file,
         toast = "success" =>
           CASE exportCalls[c].kind = "participantsPdf" -> exportCalls[c].owed # {} => file # NoFile
             [] exportCalls[c].kind = "resend" -> "resend" \in DOMAIN exportCalls[c].got
             [] OTHER -> file # NoFile,
         exportCalls[c].kind \in Exports!Told => toast # "none",
         exportingPdf' =
           (exportingPdf /\ ~(exportCalls[c].kind = "participantsPdf" /\ exportCalls[c].here)),
         resending' = (resending /\ ~(exportCalls[c].kind = "resend" /\ exportCalls[c].here))
  PROVE  ExportInv'
<1> DEFINE k == exportCalls[c]
<1>1. /\ UNCHANGED <<exportSale, session, queued, exportScreen, clicks>>
      /\ exportCalls' \in [Calls -> ExportCall \cup {NoCall}]
      /\ CallsAreSound' /\ EmailsAreCounted'
      /\ \A d \in Calls \ {c} : \A kind : Awaited(d, kind)' <=> Awaited(d, kind)
      /\ \A kind : ~Awaited(c, kind)'
      /\ last'.kind = k.kind /\ last'.owed = k.owed
      /\ last'.order = k.order /\ last'.file = file /\ last'.toast = toast
      /\ last'.sent <=> "resend" \in DOMAIN k.got
  BY EndsAreSound
<1>2. k \in ExportCall /\ SoundCall(k)
  BY DEF ExportInv, ExportTypes, CallsAreSound, Exports!UnderWay
<1>3. ExportTypes'
  BY <1>1 DEF ExportInv, ExportTypes
<1>4. ButtonsWait'
  <2>1. \A kind : Awaited(c, kind) <=> k.here /\ k.kind = kind
    BY DEF Awaited
  <2>2. ButtonsWait
    BY DEF ExportInv
  <2>3. exportingPdf' <=> exportingPdf /\ ~Awaited(c, "participantsPdf")
    BY <2>1
  <2>4. resending' <=> resending /\ ~Awaited(c, "resend")
    BY <2>1
  <2> HIDE DEF k
  <2>5. exportingPdf' <=> \E d \in Calls : Awaited(d, "participantsPdf")'
    BY <1>1, <2>2, <2>3 DEF ButtonsWait
  <2>6. resending' <=> exportScreen = "participant" /\ \E d \in Calls : Awaited(d, "resend")'
    BY <1>1, <2>2, <2>4 DEF ButtonsWait
  <2>7. \A d, e \in Calls :
          Awaited(d, "participantsPdf")' /\ Awaited(e, "participantsPdf")' => d = e
    BY <1>1, <2>2 DEF ButtonsWait
  <2>8. exportScreen = "participant" =>
          \A d, e \in Calls : Awaited(d, "resend")' /\ Awaited(e, "resend")' => d = e
    BY <1>1, <2>2 DEF ButtonsWait
  <2> QED
    BY <1>1, <2>5, <2>6, <2>7, <2>8 DEF ButtonsWait
<1>5. EndWasTrue'
  <2>1. last'.file # NoFile => last'.owed \subseteq last'.file
    BY <1>1
  <2>2. last'.toast = "success" =>
          CASE last'.kind = "participantsPdf" -> last'.owed # {} => last'.file # NoFile
            [] last'.kind = "resend" -> last'.sent /\ queued'[last'.order] >= 1
            [] OTHER -> last'.file # NoFile
    BY <1>1, <1>2 DEF SoundCall
  <2>3. last'.kind \in Exports!Told => last'.toast # "none"
    BY <1>1
  <2>4. last'.kind = "resend" => last'.order \in Orders
    BY <1>1, <1>2 DEF SoundCall
  <2> QED
    BY <2>1, <2>2, <2>3, <2>4
       DEF EndWasTrue, Exports!FilesAreComplete, Exports!SuccessToastsAreTrue, Exports!EndsAreTold
<1> QED
  BY <1>1, <1>3, <1>4, <1>5 DEF ExportInv

\* Exports of a page that waits for no button.
LEMMA ListsReturnSoundly ==
  ASSUME ExportInv, NEW c \in Calls, Exports!CsvReturns(c) \/ Exports!ListReturns(c)
  PROVE  ExportInv'
<1> DEFINE k == exportCalls[c]
           rows == Exports!Rows(k.kind, k.got)
           says == IF k.kind = "nexusCsv" THEN "none" ELSE "success"
<1>1. Exports!UnderWay(c) /\ UNCHANGED <<exportingPdf, resending>>
  BY DEF Exports!CsvReturns, Exports!ListReturns, Exports!Complete, Exports!Rejected
<1>2. /\ k.kind \in {"participantsCsv", "nexusCsv", "ordersCsv", "ticketsCsv", "admissionsCsv"}
      /\ \/ /\ rows # {}
            /\ \/ Exports!Open(c) = {} /\ k.lost = {} /\ k.kind # "admissionsCsv"
               \/ k.kind = "admissionsCsv"
            /\ Exports!Ends(c, rows, says)
         \/ k.kind = "participantsCsv" /\ Exports!Ends(c, NoFile, "error")
         \/ k.kind # "participantsCsv" /\ Exports!Ends(c, NoFile, "none")
  BY DEF Exports!CsvReturns, Exports!ListReturns, Exports!Complete, Exports!Rejected,
         Exports!IsExportable, Exports!Says
<1>3. k.kind # "participantsPdf" /\ k.kind # "resend" /\ k.kind # "ticketPdf"
  BY <1>2
<1>4. /\ exportingPdf' = (exportingPdf /\ ~(k.kind = "participantsPdf" /\ k.here))
      /\ resending' = (resending /\ ~(k.kind = "resend" /\ k.here))
  BY <1>1, <1>3, Zenon DEF ExportInv, ExportTypes
<1>5. CASE /\ \/ Exports!Open(c) = {} /\ k.lost = {} /\ k.kind # "admissionsCsv"
              \/ k.kind = "admissionsCsv"
           /\ Exports!Ends(c, rows, says)
  <2>1. rows # NoFile /\ k.owed \subseteq rows
    <3>1. CASE k.kind = "admissionsCsv"
      BY <1>1, <3>1, AdmissionsAreRows
    <3>2. CASE k.kind # "admissionsCsv"
      BY <1>1, <1>2, <1>5, <3>2, FilesOfCalls
    <3> QED
      BY <3>1, <3>2
  <2>2. k.kind \in Exports!Told => says # "none"
    BY DEF Exports!Told
  <2> HIDE DEF rows, says
  <2> QED
    BY <1>1, <1>3, <1>4, <1>5, <2>1, <2>2, ReturnsAreKept
<1>6. CASE k.kind = "participantsCsv" /\ Exports!Ends(c, NoFile, "error")
  BY <1>1, <1>3, <1>4, <1>6, ReturnsAreKept
<1>7. CASE k.kind # "participantsCsv" /\ Exports!Ends(c, NoFile, "none")
  <2>1. k.kind \notin Exports!Told
    BY <1>2, <1>7 DEF Exports!Told
  <2> QED
    BY <1>1, <1>3, <1>4, <1>7, <2>1, ReturnsAreKept
<1> QED
  BY <1>2, <1>5, <1>6, <1>7

\* The PDF of the participants, a ticket, or an e-mail.
LEMMA ButtonsReturnSoundly ==
  ASSUME ExportInv, NEW c \in Calls,
         Exports!PdfReturns(c) \/ Exports!TicketPdfReturns(c) \/ Exports!ResendReturns(c)
  PROVE  ExportInv'
<1> DEFINE k == exportCalls[c]
           rows == Exports!Rows(k.kind, k.got)
<1>1. /\ Exports!UnderWay(c)
      /\ k \in ExportCall
      /\ exportingPdf \in BOOLEAN /\ resending \in BOOLEAN
  BY DEF Exports!PdfReturns, Exports!TicketPdfReturns, Exports!ResendReturns, Exports!Complete,
         Exports!Rejected, ExportInv, ExportTypes, Exports!UnderWay
<1>2. /\ k.kind \in {"participantsPdf", "ticketPdf", "resend"}
      /\ \/ /\ Exports!Open(c) = {} /\ k.lost = {}
            /\ \/ k.kind = "participantsPdf" /\ Exports!Ends(c, Exports!PdfOf(rows), "success")
               \/ k.kind = "ticketPdf" /\ Exports!Ends(c, {k.order}, "success")
               \/ k.kind = "resend" /\ Exports!Ends(c, NoFile, "success")
         \/ Exports!Ends(c, NoFile, "error")
  BY DEF Exports!PdfReturns, Exports!TicketPdfReturns, Exports!ResendReturns, Exports!Complete,
         Exports!Rejected
<1>3. /\ exportingPdf' = (exportingPdf /\ ~(k.kind = "participantsPdf" /\ k.here))
      /\ resending' = (resending /\ ~(k.kind = "resend" /\ k.here))
  <2>1. CASE Exports!PdfReturns(c)
    <3>1. /\ k.kind = "participantsPdf" /\ exportingPdf' = (exportingPdf /\ ~k.here)
          /\ UNCHANGED resending
      BY <2>1 DEF Exports!PdfReturns, Exports!Complete, Exports!Rejected
    <3> QED
      BY <1>1, <3>1, Zenon
  <2>2. CASE Exports!TicketPdfReturns(c)
    <3>1. k.kind = "ticketPdf" /\ UNCHANGED <<exportingPdf, resending>>
      BY <2>2 DEF Exports!TicketPdfReturns, Exports!Complete, Exports!Rejected
    <3> QED
      BY <1>1, <3>1, Zenon
  <2>3. CASE Exports!ResendReturns(c)
    <3>1. k.kind = "resend" /\ resending' = (resending /\ ~k.here) /\ UNCHANGED exportingPdf
      BY <2>3 DEF Exports!ResendReturns, Exports!Complete, Exports!Rejected
    <3> QED
      BY <1>1, <3>1, Zenon
  <2> QED
    BY <2>1, <2>2, <2>3
<1>4. CASE Exports!Ends(c, NoFile, "error")
  BY <1>1, <1>3, <1>4, ReturnsAreKept
<1>5. ASSUME Exports!Open(c) = {}, k.lost = {}, k.kind = "participantsPdf",
             Exports!Ends(c, Exports!PdfOf(rows), "success")
      PROVE  ExportInv'
  <2> DEFINE file == Exports!PdfOf(rows)
  <2>1. rows # NoFile /\ k.owed \subseteq rows
    BY <1>1, <1>5, FilesOfCalls
  <2>2. /\ file # NoFile => k.owed \subseteq file
        /\ k.owed # {} => file # NoFile
    BY <2>1 DEF Exports!PdfOf
  <2>3. Exports!Ends(c, file, "success")
    BY <1>5
  <2> HIDE DEF file
  <2> QED
    BY <1>1, <1>3, <1>5, <2>2, <2>3, ReturnsAreKept
<1>6. ASSUME k.kind = "ticketPdf", Exports!Ends(c, {k.order}, "success")
      PROVE  ExportInv'
  <2>1. k.order \in Orders /\ k.owed = {}
    BY <1>1, <1>6 DEF ExportInv, CallsAreSound, SoundCall, Exports!Owed
  <2>2. {k.order} # NoFile
    BY <2>1, AdministrationAssumption DEF Exports!ExportsAssumption, ExportCall
  <2> QED
    BY <1>1, <1>3, <1>6, <2>1, <2>2, ReturnsAreKept
<1>7. ASSUME Exports!Open(c) = {}, k.lost = {}, k.kind = "resend",
             Exports!Ends(c, NoFile, "success")
      PROVE  ExportInv'
  <2>1. "resend" \in DOMAIN k.got
    BY <1>1, <1>7, CompleteCallsHaveAnswers
  <2> QED
    BY <1>1, <1>3, <1>7, <2>1, ReturnsAreKept
<1> QED
  BY <1>2, <1>4, <1>5, <1>6, <1>7

\* Whoever leaves a page leaves its buttons.
LEMMA OpenPageKeepsExports == ASSUME ExportInv, Exports!OpenPage PROVE ExportInv'
<1>1. /\ UNCHANGED <<exportSale, session, queued, clicks, last>>
      /\ exportScreen' \in Exports!Pages /\ exportingPdf' = FALSE /\ resending' = FALSE
      /\ exportCalls' = [c \in Calls |-> IF Exports!UnderWay(c)
                                         THEN [exportCalls[c] EXCEPT !.here = FALSE] ELSE NoCall]
  BY DEF Exports!OpenPage, Exports!server
<1>2. /\ exportCalls \in [Calls -> ExportCall \cup {NoCall}]
      /\ queued \in [Orders -> Nat]
  BY DEF ExportInv, ExportTypes
<1>3. ASSUME NEW c \in Calls, Exports!UnderWay(c)
      PROVE  /\ exportCalls'[c] = [exportCalls[c] EXCEPT !.here = FALSE]
             /\ exportCalls'[c] \in ExportCall
             /\ exportCalls'[c].kind = exportCalls[c].kind /\ exportCalls'[c].got = exportCalls[c].got
             /\ exportCalls'[c].lost = exportCalls[c].lost
             /\ exportCalls'[c].order = exportCalls[c].order
             /\ exportCalls'[c].here = FALSE
  <2>1. exportCalls[c] \in ExportCall
    BY <1>2, <1>3 DEF Exports!UnderWay
  <2>2. exportCalls'[c] = [exportCalls[c] EXCEPT !.here = FALSE]
    BY <1>1, <1>3
  <2> QED
    BY <2>1, <2>2 DEF ExportCall, Exports!CallOver
<1>4. \A c \in Calls : ~Exports!UnderWay(c) => exportCalls'[c] = NoCall
  BY <1>1
<1>5. NoCall \notin ExportCall
  BY AdministrationAssumption DEF Exports!ExportsAssumption, ExportCall
<1>6. \A c \in Calls : Exports!UnderWay(c)' <=> Exports!UnderWay(c)
  BY <1>3, <1>4, <1>5 DEF Exports!UnderWay
<1>7. ExportTypes'
  <2>1. exportCalls' \in [Calls -> ExportCall \cup {NoCall}]
    BY <1>1, <1>3
  <2> QED
    BY <1>1, <2>1 DEF ExportInv, ExportTypes
<1>8. CallsAreSound'
  <2>1. /\ \A kind : Exports!Owed(kind, exportSale) \subseteq Exports!Owed(kind, exportSale')
        /\ \A o \in Orders : queued'[o] >= queued[o]
        /\ queued' \in [Orders -> Nat]
    BY <1>1, <1>2
  <2> QED
    BY <1>3, <1>6, <2>1, SoundnessLasts DEF CallsAreSound
<1>9. EmailsAreCounted'
  <2>1. \A o \in Orders : Asking(o)' = Asking(o)
    BY <1>3, <1>6 DEF Asking
  <2> QED
    BY <1>1, <2>1 DEF ExportInv, EmailsAreCounted
<1>10. ButtonsWait'
  <2>1. \A c \in Calls : \A kind : ~Awaited(c, kind)'
    BY <1>3, <1>6 DEF Awaited
  <2> QED
    BY <1>1, <2>1 DEF ButtonsWait
<1>11. EndWasTrue'
  BY <1>1, <1>2, EndsStayTrue DEF ExportInv
<1> QED
  BY <1>7, <1>8, <1>9, <1>10, <1>11 DEF ExportInv

\* Sales go on, and the token of the session expires.
LEMMA TradesKeepExports ==
  ASSUME ExportInv, Exports!Expire \/ \E o \in Orders : Exports!Trade(o)
  PROVE  ExportInv'
<1>1. /\ UNCHANGED <<queued, exportScreen, exportingPdf, resending, exportCalls, clicks, last>>
      /\ session' \in {"valid", "expired", "revoked", "out"}
  BY DEF Exports!Expire, Exports!Trade, Exports!page, ExportInv, ExportTypes
<1>2. /\ exportSale' \in Exports!Tables
      /\ \A kind : Exports!Owed(kind, exportSale) \subseteq Exports!Owed(kind, exportSale')
  <2>1. CASE Exports!Expire
    BY <2>1 DEF Exports!Expire, ExportInv, ExportTypes
  <2>2. CASE \E o \in Orders : Exports!Trade(o)
    BY <2>2, OwedGrows DEF ExportInv
  <2> QED
    BY <2>1, <2>2
<1>3. ExportTypes'
  BY <1>1, <1>2 DEF ExportInv, ExportTypes
<1>4. CallsAreSound'
  <2>1. /\ \A o \in Orders : queued'[o] >= queued[o]
        /\ queued' \in [Orders -> Nat]
    BY <1>1 DEF ExportInv, ExportTypes
  <2>2. ASSUME NEW c \in Calls, Exports!UnderWay(c)'
        PROVE  SoundCall(exportCalls[c])'
    <3>1. Exports!UnderWay(c) /\ exportCalls'[c] = exportCalls[c]
      BY <1>1, <2>2 DEF Exports!UnderWay
    <3> QED
      BY <1>2, <2>1, <3>1, SoundnessLasts
  <2> QED
    BY <2>2 DEF CallsAreSound
<1>5. EmailsAreCounted'
  BY <1>1 DEF ExportInv, EmailsAreCounted, Asking, Exports!UnderWay
<1>6. ButtonsWait'
  BY <1>1 DEF ExportInv, ButtonsWait, Awaited, Exports!UnderWay
<1>7. EndWasTrue'
  BY <1>1, <1>3, EndsStayTrue DEF ExportInv, ExportTypes
<1> QED
  BY <1>3, <1>4, <1>5, <1>6, <1>7 DEF ExportInv

LEMMA ExportsStep == ASSUME ExportInv, Exports!Next PROVE ExportInv'
BY AnswersAreKept, LossesAreKept, ListsReturnSoundly, ButtonsReturnSoundly, DownloadsAreKept,
   ResendsAreKept, OpenPageKeepsExports, TradesKeepExports
   DEF Exports!Next

\* The part that is open starts, the others are as empty.
LEMMA ExportsInitially ==
  ASSUME Exports!Init \/ Exports!Closed
  PROVE  ExportInv
<1>1. /\ exportSale \in Exports!Tables /\ session = "valid" /\ queued = [o \in Orders |-> 0]
      /\ exportScreen \in Exports!Pages /\ exportingPdf = FALSE /\ resending = FALSE
      /\ exportCalls = [c \in Calls |-> NoCall] /\ clicks = [o \in Orders |-> 0]
      /\ last.kind = "none" /\ last.toast = "none" /\ last.file = NoFile
  <2>1. CASE Exports!Init
    BY <2>1, AdministrationAssumption DEF Exports!Init, Exports!ExportsAssumption, ExportCall
  <2>2. CASE Exports!Closed
    BY <2>2 DEF Exports!Closed, Exports!Tables, Exports!Pages
  <2> QED
    BY <2>1, <2>2
<1>2. \A c \in Calls : ~Exports!UnderWay(c)
  BY <1>1 DEF Exports!UnderWay
<1>3. EmailsAreCounted
  <2>1. \A o \in Orders : Asking(o) = {}
    BY <1>2 DEF Asking
  <2> QED
    BY <1>1, <2>1, FS_EmptySet DEF EmailsAreCounted
<1>4. ButtonsWait
  BY <1>1, <1>2 DEF ButtonsWait, Awaited
<1>5. EndWasTrue
  BY <1>1 DEF EndWasTrue, Exports!FilesAreComplete, Exports!SuccessToastsAreTrue,
              Exports!EndsAreTold, Exports!Told
<1>6. ExportTypes
  BY <1>1 DEF ExportTypes
<1> QED
  BY <1>2, <1>3, <1>4, <1>5, <1>6 DEF ExportInv, CallsAreSound

\* What the exports rest on: each call has read at least the rows it owes, the e-mails sent and
\* those still asked for are not more than the clicks, a button waits for the one call of its page.
THEOREM ExportsInvariant == Spec => []ExportInv
<1>1. Init => ExportInv
  BY ExportsInitially DEF Init
<1>2. ExportInv /\ [Next]_adminVars => ExportInv'
  <2>1. ASSUME ExportInv, UNCHANGED exportVars
        PROVE  ExportInv'
    BY <2>1 DEF exportVars, ExportInv, ExportTypes, CallsAreSound, SoundCall, EmailsAreCounted, Asking,
       ButtonsWait, Awaited, EndWasTrue, Exports!UnderWay, Exports!FilesAreComplete,
       Exports!SuccessToastsAreTrue, Exports!EndsAreTold
  <2>2. ASSUME [Next]_adminVars
        PROVE  Exports!Next \/ UNCHANGED exportVars
    BY <2>2 DEF Next, Answers, Initiatives, adminVars
  <2> QED
    BY <2>1, <2>2, ExportsStep
<1> QED
  BY <1>1, <1>2, PTL DEF Spec

\* exports.service: a file of participants, orders or tickets has at least the rows there were
\* when it was asked for, a toast of success comes with its file or with an e-mail given to
\* NotifyService, which is given one per click at most, and on the pages that catch what a call
\* throws whoever waits is told; whatever answers are lost, sessions renewed and pages left.
THEOREM TheExportsAreSound == Spec => []ExportsAreSound
<1>1. ExportInv => ExportsAreSound
  <2> SUFFICES ASSUME ExportInv PROVE Exports!ExportsAreSound
    BY DEF ExportsAreSound
  <2>1. Exports!ExportsTypeOK
    BY DEF ExportInv, ExportTypes, ButtonsWait, Awaited, Exports!ExportsTypeOK
  <2>2. Exports!OneEmailPerClick
    <3>1. ASSUME NEW o \in Orders
          PROVE  queued[o] <= clicks[o]
      <4>1. /\ queued[o] \in Nat /\ clicks[o] \in Nat /\ Cardinality(Asking(o)) \in Nat
            /\ queued[o] + Cardinality(Asking(o)) <= clicks[o]
        BY AskingIsFinite DEF ExportInv, ExportTypes, EmailsAreCounted
      <4> QED
        BY <4>1
    <3> QED
      BY <3>1 DEF Exports!OneEmailPerClick
  <2> QED
    BY <2>1, <2>2 DEF ExportInv, EndWasTrue, Exports!ExportsAreSound
<1> QED
  BY <1>1, ExportsInvariant, PTL
-----------------------------------------------------------------------------
(* The dashboard. *)

LEMMA DashboardCount == \A S : Dashboard!Cardinality(S) = Cardinality(S)
BY Zenon DEF Dashboard!Cardinality, Cardinality, Dashboard!IsFiniteSet, IsFiniteSet

DashboardLoad == Dashboard!LoadOver(Dashboard!Tables)
DashboardTypes ==
  /\ dashboardSale \in Dashboard!Tables
  /\ loads \in [Loads -> DashboardLoad \cup {NoLoad}]
  /\ kpis \in Dashboard!Kpis \cup {NoKpis}
  /\ loading \in BOOLEAN /\ due \in BOOLEAN /\ told \in {"unread", "lost", "read"}
  /\ IsFiniteSet(orders)
  /\ recent \in [status : DashboardStatuses \cup {"all"}, page : Nat \ {0}]
  /\ toasts \in [Toasts -> {"free", "success", "error", "closed"}]

\* A load that asks for the charts has brought the figures, and whoever is to see them waits
\* for a load, for the effect of the last render, or for the event, without which nothing starts.
FiguresComeFirst ==
  /\ \A l \in Loads : Dashboard!UnderWay(l) /\ loads[l].step = "charts" => kpis # NoKpis
  /\ ~loading /\ ~due => kpis # NoKpis /\ told # "unread"
  /\ loading /\ eventKnown => \E l \in Loads : Dashboard!UnderWay(l)
  /\ due => eventKnown
  /\ \A l \in Loads : Dashboard!UnderWay(l) => eventKnown

DashboardInv == DashboardTypes /\ FiguresComeFirst

-----------------------------------------------------------------------------
\* What is supposed of the instance.
LEMMA DashboardGiven ==
  /\ IsFiniteSet(Orders) /\ Orders \subseteq Nat /\ CreatedAt \in [Orders -> Nat] /\ Now \in Nat
  /\ DayLength \in Nat \ {0} /\ PerPage \in Nat \ {0}
  /\ DashboardSales \subseteq Dashboard!Tables
  /\ \E first \in Loads : \A l \in Loads : first <= l
  /\ NoLoad \notin DashboardLoad /\ NoKpis \notin Dashboard!Kpis
BY AdministrationAssumption, Zenon
   DEF Dashboard!DashboardAssumption, DashboardLoad, Dashboard!IsFiniteSet, IsFiniteSet

\* A load that starts has read nothing.
LEMMA NewLoadIsTyped ==
  ASSUME dashboardSale \in Dashboard!Tables, NEW step \in {"kpis", "charts"}
  PROVE  /\ Dashboard!NewLoad \in DashboardLoad /\ Dashboard!NewLoad.step = "kpis"
         /\ [Dashboard!NewLoad EXCEPT !.step = step] \in DashboardLoad
         /\ [Dashboard!NewLoad EXCEPT !.step = step].step = step
<1>1. Dashboard!NothingGot \in [{} -> Dashboard!Tables]
  BY DEF Dashboard!NothingGot
<1>2. Dashboard!NothingGot \in UNION {[S -> Dashboard!Tables] : S \in SUBSET Dashboard!Requested}
  BY <1>1
<1>3. Dashboard!NewLoad = [step |-> "kpis", got |-> Dashboard!NothingGot, lost |-> {}]
  BY DEF Dashboard!NewLoad
<1> QED
  BY <1>2, <1>3 DEF DashboardLoad, Dashboard!LoadOver

\* A request that a load makes next.
LEMMA RequestsAreKnown ==
  ASSUME NEW l \in Loads, NEW source \in Dashboard!Earliest(l)
  PROVE  source \in Dashboard!Requested
BY DEF Dashboard!Earliest, Dashboard!Open, Dashboard!Sources, Dashboard!Requested

\* A load that reads one more table.
LEMMA LoadsGet ==
  ASSUME dashboardSale \in Dashboard!Tables, NEW k \in DashboardLoad,
         NEW source \in Dashboard!Requested
  PROVE  [s \in DOMAIN k.got \cup {source} |-> IF s = source THEN dashboardSale ELSE k.got[s]] \in
           UNION {[S -> Dashboard!Tables] : S \in SUBSET Dashboard!Requested}
<1> DEFINE read == DOMAIN k.got \cup {source}
           got == [s \in read |-> IF s = source THEN dashboardSale ELSE k.got[s]]
<1>1. PICK sources \in SUBSET Dashboard!Requested : k.got \in [sources -> Dashboard!Tables]
  BY DEF DashboardLoad, Dashboard!LoadOver
<1>2. read \in SUBSET Dashboard!Requested
  BY <1>1
<1>3. got \in [read -> Dashboard!Tables]
  BY <1>1
<1>4. \A g : g \in [read -> Dashboard!Tables] =>
              g \in UNION {[S -> Dashboard!Tables] : S \in SUBSET Dashboard!Requested}
  BY <1>2
<1>5. got \in UNION {[S -> Dashboard!Tables] : S \in SUBSET Dashboard!Requested}
  BY <1>3, <1>4, Zenon
<1> QED
  BY <1>5, Zenon

\* The figures are numbers.
LEMMA FiguresAreTyped == ASSUME NEW got PROVE Dashboard!GetKPIs(got) \in Dashboard!Kpis
<1>1. ASSUME NEW S \in SUBSET Orders
      PROVE  Dashboard!Cardinality(S) \in Nat
  BY DashboardGiven, DashboardCount, FS_Subset, FS_CardinalityType
<1>2. ASSUME NEW table, NEW tiers
      PROVE  Dashboard!Sold(table, tiers) \in Nat
  BY <1>1 DEF Dashboard!Sold
<1>3. /\ Dashboard!Cardinality({o \in Orders : got.stats[o] = "entered"}) \in Nat
      /\ Dashboard!Cardinality({o \in Orders : got.orders[o] = "pending"}) \in Nat
  BY <1>1
<1>4. Dashboard!GetKPIs(got) =
        [tickets_sold |-> Dashboard!Sold(got.stats, Dashboard!SoldTiers),
         tickets_total |-> Dashboard!TicketsTotal,
         nexus_night_count |-> Dashboard!Sold(got.stats, {"vip"}),
         scans_total |-> Dashboard!Cardinality({o \in Orders : got.stats[o] = "entered"}),
         pending_orders_count |-> Dashboard!Cardinality({o \in Orders : got.orders[o] = "pending"})]
  BY Zenon DEF Dashboard!GetKPIs
<1> QED
  BY <1>2, <1>3, <1>4 DEF Dashboard!Kpis

\* The orders that are shown are not more than the orders there are.
LEMMA ShownOrdersAreFinite == ASSUME NEW table PROVE IsFiniteSet(Dashboard!RecentOrders(table))
<1> DEFINE there == {o \in Orders : table[o] # "none"}
           new == {p \in there : Dashboard!Cardinality({newer \in there : newer > p}) < RecentLimit}
           row == [o \in new |-> [id |-> o, status |-> IF Dashboard!IsPaid(table, o) THEN "paid" ELSE table[o]]]
           rows == {row[o] : o \in new}
<1>1. IsFiniteSet(new)
  BY DashboardGiven, FS_Subset
<1>2. row \in Surjection(new, rows)
  BY DEF Surjection
<1>3. IsFiniteSet(rows)
  BY <1>1, <1>2, FS_Surjection
<1>4. Dashboard!RecentOrders(table) = rows
  BY DEF Dashboard!RecentOrders
<1> QED
  BY <1>3, <1>4

\* There is a page of the table of recent orders at least.
LEMMA SomePage ==
  ASSUME NEW rows, IsFiniteSet(rows)
  PROVE  Dashboard!TotalPages(rows) \in Nat \ {0}
<1>1. CASE rows = {}
  BY <1>1 DEF Dashboard!TotalPages
<1>2. CASE rows # {}
  <2>1. Cardinality(rows) \in Nat \ {0}
    BY <1>2, FS_EmptySet, FS_CardinalityType
  <2>2. \A n \in Nat \ {0} : \A p \in Nat \ {0} : (n + p - 1) \div p \in Nat \ {0}
    OBVIOUS
  <2> QED
    BY <1>2, <2>1, <2>2, DashboardGiven, DashboardCount DEF Dashboard!TotalPages
<1> QED
  BY <1>1, <1>2
-----------------------------------------------------------------------------
\* A load that is made, or gets on.
LEMMA LoadsGetOn ==
  ASSUME DashboardInv, NEW l \in Loads, Dashboard!UnderWay(l), NEW k \in DashboardLoad,
         loads' = [loads EXCEPT ![l] = k],
         k.step = "charts" => kpis' # NoKpis, kpis # NoKpis => kpis' # NoKpis,
         UNCHANGED <<eventKnown, loading, due, told>>
  PROVE  loads' \in [Loads -> DashboardLoad \cup {NoLoad}] /\ FiguresComeFirst'
<1>1. /\ loads \in [Loads -> DashboardLoad \cup {NoLoad}] /\ FiguresComeFirst
      /\ k # NoLoad
  BY DashboardGiven DEF DashboardInv, DashboardTypes
<1>2. loads' \in [Loads -> DashboardLoad \cup {NoLoad}] /\ loads'[l] = k
  BY <1>1
<1>3. \A d \in Loads : d # l => loads'[d] = loads[d]
  BY <1>1
<1> QED
  BY <1>1, <1>2, <1>3 DEF FiguresComeFirst, Dashboard!UnderWay

\* The effect of DashboardPage starts a load where there is an event, and nothing otherwise.
LEMMA EffectsLoad ==
  ASSUME DashboardInv, NEW l \in Loads, Dashboard!Effect(l), due' \in {due, FALSE},
         eventKnown => eventKnown', UNCHANGED <<kpis, told>>
  PROVE  /\ loads' \in [Loads -> DashboardLoad \cup {NoLoad}]
         /\ loading' \in BOOLEAN /\ due' \in BOOLEAN /\ told' \in {"unread", "lost", "read"}
         /\ FiguresComeFirst'
<1>1. /\ FiguresComeFirst /\ loading \in BOOLEAN /\ due \in BOOLEAN
      /\ loads \in [Loads -> DashboardLoad \cup {NoLoad}]
      /\ told' \in {"unread", "lost", "read"} /\ due' \in BOOLEAN
      /\ Dashboard!NewLoad \in DashboardLoad /\ Dashboard!NewLoad.step = "kpis"
      /\ Dashboard!NewLoad # NoLoad
  BY NewLoadIsTyped, DashboardGiven DEF DashboardInv, DashboardTypes
<1>2. CASE eventKnown'
  <2>1. loads' = [loads EXCEPT ![l] = Dashboard!NewLoad] /\ loading' = TRUE
    BY <1>2 DEF Dashboard!Effect
  <2>2. loads'[l] = Dashboard!NewLoad /\ \A d \in Loads : d # l => loads'[d] = loads[d]
    BY <1>1, <2>1
  <2>3. loads' \in [Loads -> DashboardLoad \cup {NoLoad}]
    BY <1>1, <2>1
  <2> QED
    BY <1>1, <1>2, <2>1, <2>2, <2>3 DEF FiguresComeFirst, Dashboard!UnderWay
<1>3. CASE ~eventKnown'
  <2>1. loads' = loads /\ loading' = loading
    BY <1>3 DEF Dashboard!Effect
  <2>2. ~due /\ ~due' /\ \A d \in Loads : ~Dashboard!UnderWay(d)
    BY <1>1, <1>3 DEF FiguresComeFirst
  <2> QED
    BY <1>1, <1>3, <2>1, <2>2 DEF FiguresComeFirst, Dashboard!UnderWay
<1> QED
  BY <1>2, <1>3

\* A toast comes or goes, and whoever uses the toasts renders.
LEMMA RendersKeep ==
  ASSUME DashboardInv, NEW l \in Loads, NEW t \in Toasts,
         NEW kind \in {"free", "success", "error", "closed"},
         toasts' = [toasts EXCEPT ![t] = kind], Dashboard!Renders(l),
         UNCHANGED <<dashboardSale, kpis, orders, told, recent>>
  PROVE  DashboardInv'
<1>1. toasts' \in [Toasts -> {"free", "success", "error", "closed"}]
  BY DEF DashboardInv, DashboardTypes
<1>2. /\ loads' \in [Loads -> DashboardLoad \cup {NoLoad}]
      /\ loading' \in BOOLEAN /\ due' \in BOOLEAN /\ told' \in {"unread", "lost", "read"}
      /\ FiguresComeFirst'
  BY EffectsLoad DEF Dashboard!Renders
<1> QED
  BY <1>1, <1>2 DEF DashboardInv, DashboardTypes

LEMMA ToastsAreKept ==
  ASSUME DashboardInv, NEW l \in Loads, NEW t \in Toasts,
         \/ Dashboard!CloseToast(t, l) \/ Dashboard!ToastTimeout(t, l)
         \/ \E kind \in {"success", "error"} : Dashboard!ExportReturns(t, l, kind)
  PROVE  DashboardInv'
BY RendersKeep
   DEF Dashboard!CloseToast, Dashboard!ToastTimeout, Dashboard!ExportReturns, Dashboard!shown

\* A load fails: the page is rendered with its toast, and the effect of that is due.
LEMMA FailuresAreKept ==
  ASSUME DashboardInv, NEW l \in Loads, NEW t \in Toasts, Dashboard!KpisFail(l, t)
  PROVE  DashboardInv'
<1>1. /\ toasts' = [toasts EXCEPT ![t] = "error"] /\ Dashboard!UnderWay(l)
      /\ loads' = [loads EXCEPT ![l] = NoLoad] /\ loading' = FALSE /\ due' = TRUE
      /\ UNCHANGED <<dashboardSale, eventKnown, kpis, orders, told, recent>>
  BY DEF Dashboard!KpisFail, Dashboard!Rejected, Dashboard!shown
<1>2. loads' \in [Loads -> DashboardLoad \cup {NoLoad}]
  BY <1>1 DEF DashboardInv, DashboardTypes
<1>3. \A d \in Loads : Dashboard!UnderWay(d)' => Dashboard!UnderWay(d) /\ loads'[d] = loads[d]
  BY <1>1 DEF Dashboard!UnderWay, DashboardInv, DashboardTypes
<1>4. FiguresComeFirst'
  BY <1>1, <1>3 DEF DashboardInv, FiguresComeFirst
<1> QED
  BY <1>1, <1>2, <1>4 DEF DashboardInv, DashboardTypes

\* The effect that was due starts the next load, and so does the event that is there at last.
LEMMA EffectsAreKept ==
  ASSUME DashboardInv, NEW l \in Loads, Dashboard!RunEffect(l) \/ Dashboard!EventResolves(l)
  PROVE  DashboardInv'
<1>1. /\ Dashboard!Effect(l) /\ due' \in {due, FALSE} /\ (eventKnown => eventKnown')
      /\ UNCHANGED <<dashboardSale, kpis, orders, told, recent, toasts>>
  <2>1. CASE Dashboard!RunEffect(l)
    BY <2>1 DEF Dashboard!RunEffect, Dashboard!shown
  <2>2. CASE Dashboard!EventResolves(l)
    BY <2>2 DEF Dashboard!EventResolves, Dashboard!shown
  <2> QED
    BY <2>1, <2>2
<1>2. /\ loads' \in [Loads -> DashboardLoad \cup {NoLoad}]
      /\ loading' \in BOOLEAN /\ due' \in BOOLEAN /\ told' \in {"unread", "lost", "read"}
      /\ FiguresComeFirst'
  BY <1>1, EffectsLoad
<1> QED
  BY <1>1, <1>2 DEF DashboardInv, DashboardTypes

\* One request of a load is answered, or lost.
LEMMA SourcesAreKept ==
  ASSUME DashboardInv, NEW l \in Loads, Dashboard!ReadSource(l) \/ Dashboard!LoseSource(l)
  PROVE  DashboardInv'
<1>1. /\ loads[l] \in DashboardLoad /\ loads \in [Loads -> DashboardLoad \cup {NoLoad}]
      /\ dashboardSale \in Dashboard!Tables
      /\ Dashboard!UnderWay(l) /\ (loads[l].step = "charts" => kpis # NoKpis)
      /\ UNCHANGED <<dashboardSale, eventKnown, kpis, orders, loading, due, told, recent, toasts>>
  BY DEF Dashboard!ReadSource, Dashboard!LoseSource, Dashboard!UnderWay, Dashboard!shown,
         Dashboard!waiting, DashboardInv, DashboardTypes, FiguresComeFirst
<1>2. ASSUME NEW k \in DashboardLoad, k.step = loads[l].step, loads' = [loads EXCEPT ![l] = k]
      PROVE  DashboardInv'
  <2>1. loads' \in [Loads -> DashboardLoad \cup {NoLoad}] /\ FiguresComeFirst'
    BY <1>1, <1>2, LoadsGetOn
  <2> QED
    BY <1>1, <2>1 DEF DashboardInv, DashboardTypes
<1>3. CASE Dashboard!ReadSource(l)
  <2>1. PICK source \in Dashboard!Earliest(l) :
          loads' = [loads EXCEPT ![l].got =
                      [s \in DOMAIN @ \cup {source} |-> IF s = source THEN dashboardSale ELSE @[s]]]
    BY <1>3 DEF Dashboard!ReadSource
  <2> DEFINE got == [s \in DOMAIN loads[l].got \cup {source} |->
                       IF s = source THEN dashboardSale ELSE loads[l].got[s]]
             k == [loads[l] EXCEPT !.got = got]
  <2>2. got \in UNION {[S -> Dashboard!Tables] : S \in SUBSET Dashboard!Requested}
    BY <1>1, LoadsGet, RequestsAreKnown
  <2>3. loads' = [loads EXCEPT ![l] = k]
    BY <2>1
  <2> HIDE DEF got
  <2>4. k \in DashboardLoad /\ k.step = loads[l].step
    BY <1>1, <2>2 DEF DashboardLoad, Dashboard!LoadOver
  <2> QED
    BY <1>2, <2>3, <2>4
<1>4. CASE Dashboard!LoseSource(l)
  <2>1. PICK source \in Dashboard!Earliest(l) :
          loads' = [loads EXCEPT ![l].lost = @ \cup {source}]
    BY <1>4 DEF Dashboard!LoseSource
  <2> DEFINE k == [loads[l] EXCEPT !.lost = @ \cup {source}]
  <2>2. loads' = [loads EXCEPT ![l] = k]
    BY <2>1
  <2>3. k \in DashboardLoad /\ k.step = loads[l].step
    BY <1>1, RequestsAreKnown DEF DashboardLoad, Dashboard!LoadOver
  <2> QED
    BY <1>2, <2>2, <2>3
<1> QED
  BY <1>3, <1>4

\* The figures are shown, and the charts asked for.
LEMMA FiguresAreKept ==
  ASSUME DashboardInv, NEW l \in Loads, Dashboard!KpisReturn(l)
  PROVE  DashboardInv'
<1> DEFINE k == [Dashboard!NewLoad EXCEPT !.step = "charts"]
<1>1. /\ kpis' = Dashboard!GetKPIs(loads[l].got) /\ loads' = [loads EXCEPT ![l] = k]
      /\ Dashboard!UnderWay(l)
      /\ UNCHANGED <<dashboardSale, eventKnown, orders, loading, due, told, recent, toasts>>
  BY DEF Dashboard!KpisReturn, Dashboard!waiting
<1>2. kpis' \in Dashboard!Kpis /\ kpis' # NoKpis
  BY <1>1, FiguresAreTyped, DashboardGiven
<1>3. k \in DashboardLoad
  BY NewLoadIsTyped DEF DashboardInv, DashboardTypes
<1> HIDE DEF k
<1>4. loads' \in [Loads -> DashboardLoad \cup {NoLoad}] /\ FiguresComeFirst'
  BY <1>1, <1>2, <1>3, LoadsGetOn
<1> QED
  BY <1>1, <1>2, <1>4 DEF DashboardInv, DashboardTypes

\* The charts that arrived are shown, and nothing waits for this load any more.
LEMMA ChartsAreKept ==
  ASSUME DashboardInv, NEW l \in Loads, Dashboard!ChartsReturn(l)
  PROVE  DashboardInv'
<1>1. /\ Dashboard!UnderWay(l) /\ loads[l].step = "charts" /\ Dashboard!ShowCharts(l)
      /\ loads' = [loads EXCEPT ![l] = NoLoad] /\ loading' = FALSE
      /\ UNCHANGED <<dashboardSale, eventKnown, kpis, due, recent, toasts>>
  BY DEF Dashboard!ChartsReturn, Dashboard!Settled
<1>2. IsFiniteSet(orders') /\ told' \in {"lost", "read"}
  BY <1>1, ShownOrdersAreFinite DEF Dashboard!ShowCharts, DashboardInv, DashboardTypes
<1>3. loads \in [Loads -> DashboardLoad \cup {NoLoad}] /\ kpis # NoKpis
  BY <1>1 DEF DashboardInv, DashboardTypes, FiguresComeFirst
<1>4. loads' \in [Loads -> DashboardLoad \cup {NoLoad}]
  BY <1>1, <1>3
<1>5. \A d \in Loads : Dashboard!UnderWay(d)' => Dashboard!UnderWay(d) /\ loads'[d] = loads[d]
  BY <1>1, <1>3 DEF Dashboard!UnderWay
<1>6. FiguresComeFirst'
  BY <1>1, <1>2, <1>3, <1>5 DEF DashboardInv, FiguresComeFirst
<1> QED
  BY <1>1, <1>2, <1>3, <1>4, <1>6 DEF DashboardInv, DashboardTypes

\* The table of recent orders is filtered, and its pages turned.
LEMMA PagesAreKept ==
  ASSUME DashboardInv, Dashboard!FilterRecent \/ Dashboard!TurnRecent
  PROVE  DashboardInv'
<1>1. UNCHANGED <<dashboardSale, eventKnown, loads, kpis, orders, loading, due, told, toasts>>
  BY DEF Dashboard!FilterRecent, Dashboard!TurnRecent, Dashboard!shown, Dashboard!waiting
<1>2. recent' \in [status : DashboardStatuses \cup {"all"}, page : Nat \ {0}]
  <2>1. CASE Dashboard!FilterRecent
    BY <2>1 DEF Dashboard!FilterRecent
  <2>2. CASE Dashboard!TurnRecent
    <3> DEFINE total == Dashboard!TotalPages(Dashboard!Filtered(orders, recent))
    <3>1. IsFiniteSet(Dashboard!Filtered(orders, recent))
      BY FS_Subset DEF Dashboard!Filtered, DashboardInv, DashboardTypes
    <3>2. total \in Nat \ {0}
      BY <3>1, SomePage
    <3>3. /\ recent \in [status : DashboardStatuses \cup {"all"}, page : Nat \ {0}]
          /\ \/ recent.page # 1 /\ recent' = [recent EXCEPT !.page = @ - 1]
             \/ \E page1 \in 1..total : recent' = [recent EXCEPT !.page = page1]
             \/ recent' = [recent EXCEPT !.page = IF total < @ + 1 THEN total ELSE @ + 1]
      BY <2>2 DEF Dashboard!TurnRecent, DashboardInv, DashboardTypes
    <3> HIDE DEF total
    <3> QED
      BY <3>2, <3>3
  <2> QED
    BY <2>1, <2>2
<1> QED
  BY <1>1, <1>2 DEF DashboardInv, DashboardTypes, FiguresComeFirst, Dashboard!UnderWay

\* Sales go on, and a list is downloaded.
LEMMA TradesKeepDashboard ==
  ASSUME DashboardInv, Dashboard!Export \/ \E o \in Orders : Dashboard!Trade(o)
  PROVE  DashboardInv'
<1>1. UNCHANGED <<eventKnown, loads, kpis, orders, loading, due, told, recent, toasts>>
  BY DEF Dashboard!Export, Dashboard!Trade, Dashboard!shown, Dashboard!waiting
<1>2. dashboardSale' \in Dashboard!Tables
  BY DEF Dashboard!Export, Dashboard!Trade, Dashboard!Tables, DashboardInv, DashboardTypes
<1> QED
  BY <1>1, <1>2 DEF DashboardInv, DashboardTypes, FiguresComeFirst, Dashboard!UnderWay

LEMMA DashboardStep == ASSUME DashboardInv, Dashboard!Next PROVE DashboardInv'
BY ToastsAreKept, FailuresAreKept, EffectsAreKept, SourcesAreKept, FiguresAreKept, ChartsAreKept,
   PagesAreKept, TradesKeepDashboard
   DEF Dashboard!Next, Dashboard!Answers, Dashboard!Initiatives, Dashboard!Filters,
       Dashboard!Returns

\* The page that is open waits for the event or has a load under way.
LEMMA DashboardInitially ==
  ASSUME Dashboard!Init \/ Dashboard!Closed
  PROVE  DashboardInv
<1>1. dashboardSale \in Dashboard!Tables
  BY DashboardGiven DEF Dashboard!Init, Dashboard!Closed, Dashboard!Tables
<1>2. /\ kpis = NoKpis /\ orders = {} /\ loading = TRUE /\ due = FALSE /\ told = "unread"
      /\ recent \in [status : DashboardStatuses \cup {"all"}, page : Nat \ {0}]
      /\ toasts \in [Toasts -> {"free", "success", "error", "closed"}]
  BY DEF Dashboard!Init, Dashboard!Closed
<1>3. loads = [l \in Loads |-> IF eventKnown /\ \A m \in Loads : l <= m
                               THEN Dashboard!NewLoad ELSE NoLoad]
  BY DEF Dashboard!Init, Dashboard!Closed
<1>4. /\ Dashboard!NewLoad \in DashboardLoad /\ Dashboard!NewLoad.step = "kpis"
      /\ Dashboard!NewLoad # NoLoad
  BY <1>1, NewLoadIsTyped, DashboardGiven
<1>5. loads \in [Loads -> DashboardLoad \cup {NoLoad}]
  BY <1>3, <1>4
<1>6. \E l \in Loads : \A m \in Loads : l <= m
  BY DashboardGiven
<1>7. eventKnown => \E l \in Loads : Dashboard!UnderWay(l)
  BY <1>3, <1>4, <1>6 DEF Dashboard!UnderWay
<1>8. \A l \in Loads : Dashboard!UnderWay(l) => eventKnown /\ loads[l].step = "kpis"
  BY <1>3, <1>4 DEF Dashboard!UnderWay
<1> QED
  BY <1>1, <1>2, <1>5, <1>7, <1>8, FS_EmptySet DEF DashboardInv, DashboardTypes, FiguresComeFirst

\* What a dashboard shows rests on: figures come before charts, and a load, the effect of a
\* render, or the event is awaited while there is nothing to show.
THEOREM DashboardInvariant == Spec => []DashboardInv
<1>1. Init => DashboardInv
  BY DashboardInitially DEF Init
<1>2. DashboardInv /\ [Next]_adminVars => DashboardInv'
  <2>1. ASSUME DashboardInv, UNCHANGED dashboardVars
        PROVE  DashboardInv'
    BY <2>1 DEF dashboardVars, DashboardInv, DashboardTypes, FiguresComeFirst, Dashboard!UnderWay
  <2>2. ASSUME [Next]_adminVars
        PROVE  Dashboard!Next \/ UNCHANGED dashboardVars
    BY <2>2 DEF Next, Answers, Initiatives, adminVars
  <2> QED
    BY <2>1, <2>2, DashboardStep
<1> QED
  BY <1>1, <1>2, PTL DEF Spec

-----------------------------------------------------------------------------
\* Days that are less than seven apart by the calendar are so by the clock.
LEMMA DaysAndHours ==
  ASSUME NEW day \in Nat \ {0}, NEW at \in Nat, NEW now \in Nat, NEW i \in 0 .. 6,
         at \div day = (now \div day) - i
  PROVE  (now - at) \div day \in 0 .. 6 <=> at <= now
<1> DEFINE a == at \div day
           n == now \div day
           q == (now - at) \div day
<1>1. /\ a \in Int /\ n \in Int /\ q \in Int
      /\ day * a <= at /\ at < day * a + day
      /\ day * n <= now /\ now < day * n + day
      /\ day * q <= now - at /\ now - at < day * q + day
  OBVIOUS
<1>2. a = n - i
  OBVIOUS
<1> HIDE DEF a, n, q
<1>3. day * n = day * a + day * i
  BY <1>1, <1>2
<1>4. day * i <= day * 6
  OBVIOUS
<1>5. now - at < day * 7
  BY <1>1, <1>3, <1>4
<1>6. q \in 0 .. 6 <=> at <= now
  <2>1. q >= 7 => day * q >= day * 7
    BY <1>1
  <2>2. q >= 0 => day * q >= 0
    BY <1>1
  <2>3. q <= -1 => day * q <= -day
    BY <1>1
  <2> QED
    BY <1>1, <1>5, <2>1, <2>2, <2>3
<1> QED
  BY <1>6 DEF q

\* dashboard.service and DashboardPage: a dashboard at rest, which neither waits nor has a load
\* to start, has figures that were read in its cards, and has asked for its recent orders (which
\* may have been lost); the bars are the sales of the seven days they name, and a dashboard that
\* loads has a load under way or no event yet; however many loads fail and overlap.
THEOREM TheDashboardIsSound == Spec => []DashboardIsSound
<1>1. Dashboard!BarsAreTheirDays
  <2>1. ASSUME NEW table, NEW i \in 0 .. 6, NEW o \in Orders
        PROVE  /\ Dashboard!Age(o) \in 0 .. 6
               /\ Dashboard!Day(CreatedAt[o]) = Dashboard!Day(Now) - i
               <=> /\ CreatedAt[o] <= Now
                   /\ Dashboard!Day(CreatedAt[o]) = Dashboard!Day(Now) - i
    BY DaysAndHours, DashboardGiven DEF Dashboard!Age, Dashboard!Day
  <2>2. ASSUME NEW table, NEW i \in 0 .. 6
        PROVE  Dashboard!GetSalesChart(table)[i] =
                 Dashboard!Cardinality({o \in Orders :
                   /\ Dashboard!IsPaid(table, o)
                   /\ CreatedAt[o] <= Now
                   /\ Dashboard!Day(CreatedAt[o]) = Dashboard!Day(Now) - i})
    <3> DEFINE shown == {o \in Orders : /\ Dashboard!IsPaid(table, o) /\ Dashboard!Age(o) \in 0..6
                                        /\ Dashboard!Day(CreatedAt[o]) = Dashboard!Day(Now) - i}
               named == {o \in Orders : /\ Dashboard!IsPaid(table, o) /\ CreatedAt[o] <= Now
                                        /\ Dashboard!Day(CreatedAt[o]) = Dashboard!Day(Now) - i}
    <3>1. shown = named
      BY <2>1
    <3>2. Dashboard!GetSalesChart(table)[i] = Dashboard!Cardinality(shown)
      BY DEF Dashboard!GetSalesChart
    <3> HIDE DEF shown, named
    <3>3. Dashboard!GetSalesChart(table)[i] = Dashboard!Cardinality(named)
      BY <3>1, <3>2
    <3> QED
      BY <3>3 DEF named
  <2> QED
    BY <2>2 DEF Dashboard!BarsAreTheirDays
<1>2. DashboardInv => DashboardIsSound
  <2> SUFFICES ASSUME DashboardInv PROVE Dashboard!DashboardIsSound
    BY DEF DashboardIsSound
  <2>1. Dashboard!DashboardTypeOK
    BY DEF DashboardInv, DashboardTypes, FiguresComeFirst, Dashboard!DashboardTypeOK
  <2>2. Dashboard!ZerosAreFigures
    BY DEF DashboardInv, FiguresComeFirst, Dashboard!ZerosAreFigures
  <2> QED
    BY <1>1, <2>1, <2>2 DEF Dashboard!DashboardIsSound
<1> QED
  BY <1>2, DashboardInvariant, PTL
-----------------------------------------------------------------------------
(* The lists. *)

Read == ReadOver(Book)

\* A row of a list or of a page of a participant.
RowStatus == {Blank, "none", "pending", "paid", "valid", "admitted", "duplicate"}
Row ==
  [id : Orders, status : RowStatus]
  \cup [id : Orders, status : RowStatus, tier : {PassTier[o] : o \in Orders}, admitted : BOOLEAN]

Pane ==
  [q : Query, of : Query, total : Nat, rows : SUBSET Row, loading : BOOLEAN, error : BOOLEAN,
   sent : Reads \cup {0}, settled : BOOLEAN, about : Orders \cup {0}, order : Orders \cup {0}]

Search ==
  [open : BOOLEAN, query : Terms, timer : Terms \cup {"off"}, loading : BOOLEAN,
   people : SUBSET Orders, orders : SUBSET Orders]

ListTypes ==
  /\ sale \in Book
  /\ screen \in ListPages \cup {"participant", "order", "dashboard", "storefront", "closed"}
  /\ pane \in Pane
  /\ reads \in [Reads -> Read \cup {NoRead}]
  /\ search \in Search

\* What a read has found paid is paid still.
WasPaid(k) == \A s \in DOMAIN k.got : \A o \in Orders : k.got[s][o].status = "paid" => sale[o].status = "paid"
ReadsWereTrue == \A r \in Reads : InFlight(r) => WasPaid(reads[r])

\* What is under way is a search, or of the page that is open.
OfThePage(kind) ==
  \/ kind = "search"
  \/ kind = screen /\ screen \in ListPages \cup {"participant", "order"}
  \/ kind = "participantOrder" /\ screen = "participant"
ReadsAreOfThePage == \A r \in Reads : InFlight(r) => OfThePage(reads[r].kind)

\* A list never has more rows than it says, and whoever loads or searches waits for a read.
ListsWait ==
  screen \in ListPages =>
    /\ Cardinality(pane.rows) <= pane.total
    /\ pane.loading => \E r \in Reads : InFlight(r) /\ reads[r].kind = screen
SearchWaits == search.loading => \E r \in Reads : Searches(r)

\* The read that was sent last asks what the filters are, and so did the rows once it is back.
IsLast(r) == r = pane.sent /\ InFlight(r) /\ ~Searches(r)
AnswersAreInOrder ==
  screen \in ListPages =>
    /\ \A r \in Reads : IsLast(r) => reads[r].q = pane.q
    /\ pane.settled /\ ~pane.error /\ (\A r \in Reads : ~IsLast(r)) => pane.of = pane.q

PaidRows == \A row \in pane.rows : sale[row.id].status = "paid"
ListsHoldTickets ==
  /\ screen \in {"participants", "nexus", "participant"} => PaidRows
  /\ \A o \in search.people : sale[o].status = "paid"

ListInv ==
  /\ ListTypes /\ ReadsWereTrue /\ ReadsAreOfThePage /\ ListsWait /\ SearchWaits
  /\ AnswersAreInOrder /\ ListsHoldTickets

-----------------------------------------------------------------------------
LEMMA ListsGiven ==
  /\ IsFiniteSet(Orders) /\ Orders \subseteq Nat /\ Sales \subseteq Book
  /\ Reads \subseteq Nat /\ NoRead \notin Read
  /\ Blank \in Terms /\ Found \in [Terms -> SUBSET Orders]
BY ListsAssumption, Zenon DEF Read

LEMMA RowsAreTyped ==
  ASSUME NEW o \in Orders, NEW status \in RowStatus
  PROVE  [id |-> o, status |-> status] \in Row /\ [id |-> o, status |-> status].id = o
BY DEF Row

LEMMA ParticipantRowsAreTyped ==
  ASSUME NEW o \in Orders, NEW status \in RowStatus, NEW admitted \in BOOLEAN
  PROVE  LET row == [id |-> o, status |-> status, tier |-> PassTier[o], admitted |-> admitted]
         IN row \in Row /\ row.id = o
BY DEF Row

\* Rows of which no two are of one order are finitely many.
LEMMA RowsAreFinite ==
  ASSUME NEW rows, \A row \in rows : row.id \in Orders, \A a, b \in rows : a.id = b.id => a = b
  PROVE  IsFiniteSet(rows)
<1> DEFINE order == [row \in rows |-> row.id]
<1>1. order \in Injection(rows, Orders)
  BY DEF Injection, IsInjective
<1> QED
  BY <1>1, ListsGiven, FS_Injection

\* A page has no more rows than the list.
LEMMA PagesArePartial ==
  ASSUME NEW rows \in SUBSET Row, IsFiniteSet(rows), NEW number
  PROVE  /\ Paged(rows, number).data \in SUBSET rows /\ Paged(rows, number).total \in Nat
         /\ Cardinality(Paged(rows, number).data) <= Paged(rows, number).total
         /\ Whole(rows).data = rows /\ Whole(rows).total \in Nat
         /\ Cardinality(Whole(rows).data) <= Whole(rows).total
<1> DEFINE shown == {row \in rows : Place(rows, row) \div Limit = number - 1}
<1>1. shown \in SUBSET rows /\ Cardinality(rows) \in Nat
  BY FS_CardinalityType
<1>2. Cardinality(shown) <= Cardinality(rows)
  BY <1>1, FS_Subset
<1> HIDE DEF shown
<1>3. Paged(rows, number) = [total |-> Cardinality(rows), data |-> shown]
  BY Zenon DEF Paged, shown
<1>4. Whole(rows) = [total |-> Cardinality(rows), data |-> rows]
  BY DEF Whole
<1> QED
  BY <1>1, <1>2, <1>3, <1>4

\* What the reads of a page have found.
LEMMA GotTables ==
  ASSUME NEW k \in Read, NEW s \in DOMAIN k.got
  PROVE  k.got[s] \in Book
BY DEF Read, ReadOver

LEMMA ParticipantsAreRows ==
  ASSUME NEW k \in Read, {"attendees", "orders"} \subseteq DOMAIN k.got, WasPaid(k)
  PROVE  /\ Participants(k.got) \in SUBSET Row /\ IsFiniteSet(Participants(k.got))
         /\ \A p \in Participants(k.got) : p.id \in Orders /\ sale[p.id].status = "paid"
<1>1. k.got.attendees \in Book /\ k.got.orders \in Book
  BY GotTables
<1> DEFINE row(o) == [id |-> o,
                      status |-> IF k.got.orders[o].status = "none" THEN Blank ELSE k.got.orders[o].status,
                      tier |-> PassTier[o], admitted |-> k.got.attendees[o].scan # "none"]
<1>2. ASSUME NEW o \in Attendees(k.got.attendees)
      PROVE  /\ o \in Orders /\ sale[o].status = "paid"
             /\ row(o) \in Row /\ row(o).id = o
  <2>1. o \in Orders /\ sale[o].status = "paid"
    <3>1. o \in Orders /\ k.got["attendees"][o].status = "paid"
      BY DEF Attendees
    <3> QED
      BY <3>1 DEF WasPaid
  <2>2. k.got.orders[o].status \in {"none", "pending", "paid"}
    BY <1>1, <2>1 DEF Book
  <2> DEFINE status == IF k.got.orders[o].status = "none" THEN Blank ELSE k.got.orders[o].status
             admitted == k.got.attendees[o].scan # "none"
  <2>3. status \in RowStatus /\ admitted \in BOOLEAN
    BY <2>2 DEF RowStatus
  <2>4. row(o) = [id |-> o, status |-> status, tier |-> PassTier[o], admitted |-> admitted]
    OBVIOUS
  <2> HIDE DEF status, admitted, row
  <2> QED
    BY <2>1, <2>3, <2>4, ParticipantRowsAreTyped
<1>3. Participants(k.got) = {row(o) : o \in Attendees(k.got.attendees)}
  BY DEF Participants
<1> HIDE DEF row
<1>4. \A p \in Participants(k.got) : p \in Row /\ p.id \in Orders /\ sale[p.id].status = "paid" /\ p = row(p.id)
  BY <1>2, <1>3
<1>5. IsFiniteSet(Participants(k.got))
  BY <1>4, RowsAreFinite
<1> QED
  BY <1>4, <1>5

LEMMA OrdersAreRows ==
  ASSUME NEW k \in Read, "orders" \in DOMAIN k.got, NEW q
  PROVE  OrdersGetAll(q, k.got) \in SUBSET Row /\ IsFiniteSet(OrdersGetAll(q, k.got))
<1>1. k.got.orders \in Book
  BY GotTables
<1>2. ASSUME NEW row \in OrdersGetAll(q, k.got)
      PROVE  /\ row \in Row /\ row.id \in Orders
             /\ row = [id |-> row.id, status |-> k.got.orders[row.id].status]
  <2>1. PICK o \in Orders : row = [id |-> o, status |-> k.got.orders[o].status]
    BY DEF OrdersGetAll
  <2>2. k.got.orders[o].status \in RowStatus
    BY <1>1 DEF Book, RowStatus
  <2> QED
    BY <2>1, <2>2, RowsAreTyped
<1>3. \A a, b \in OrdersGetAll(q, k.got) : a.id = b.id => a = b
  BY <1>2
<1> QED
  BY <1>2, <1>3, RowsAreFinite

LEMMA TicketsAreRows ==
  ASSUME NEW got, NEW q
  PROVE  TicketsGetAll(q, got) \in SUBSET Row /\ IsFiniteSet(TicketsGetAll(q, got))
<1>1. ASSUME NEW row \in TicketsGetAll(q, got)
      PROVE  row \in Row /\ row.id \in Orders /\ row = [id |-> row.id, status |-> "valid"]
  <2>1. PICK o \in Orders : row = [id |-> o, status |-> "valid"]
    BY DEF TicketsGetAll, Attendees
  <2> QED
    BY <2>1, RowsAreTyped DEF RowStatus
<1>2. \A a, b \in TicketsGetAll(q, got) : a.id = b.id => a = b
  BY <1>1
<1> QED
  BY <1>1, <1>2, RowsAreFinite

LEMMA EntriesAreRows ==
  ASSUME NEW got, NEW q
  PROVE  AdmissionsGetAll(q, got) \in SUBSET Row /\ IsFiniteSet(AdmissionsGetAll(q, got))
<1>1. ASSUME NEW source, NEW result \in {"admitted", "duplicate"}, NEW scans
      PROVE  Scanned(got, source, result, scans) \in SUBSET Row /\ IsFiniteSet(Scanned(got, source, result, scans))
  <2>1. ASSUME NEW row \in Scanned(got, source, result, scans)
        PROVE  row \in Row /\ row.id \in Orders /\ row = [id |-> row.id, status |-> result]
    <3>1. PICK o \in Orders : row = [id |-> o, status |-> result]
      BY DEF Scanned
    <3> QED
      BY <3>1, RowsAreTyped DEF RowStatus
  <2>2. \A a, b \in Scanned(got, source, result, scans) : a.id = b.id => a = b
    BY <2>1
  <2> QED
    BY <2>1, <2>2, RowsAreFinite
<1> DEFINE admitted == Scanned(got, "attendees", "admitted", {"once", "gate", "station"})
           gates == Scanned(got, "conflicts", "duplicate", {"gate"})
           stations == Scanned(got, "checkin", "duplicate", {"station"})
<1>2. /\ admitted \in SUBSET Row /\ IsFiniteSet(admitted)
      /\ gates \in SUBSET Row /\ IsFiniteSet(gates)
      /\ stations \in SUBSET Row /\ IsFiniteSet(stations)
  BY <1>1
<1>3. AdmissionsGetAll(q, got) \in SUBSET (admitted \cup gates \cup stations)
  BY Zenon DEF AdmissionsGetAll
<1> HIDE DEF admitted, gates, stations
<1>4. IsFiniteSet(admitted \cup gates \cup stations)
  BY <1>2, FS_Union
<1> QED
  BY <1>2, <1>3, <1>4, FS_Subset
-----------------------------------------------------------------------------
\* A read that starts has found nothing.
LEMMA NewReads ==
  ASSUME sale \in Book, NEW q \in Query,
         NEW kind \in ListPages \cup {"participant", "order", "participantOrder", "search"}
  PROVE  /\ ReadOf(kind, q) \in Read /\ ReadOf(kind, q) # NoRead
         /\ ReadOf(kind, q).kind = kind /\ ReadOf(kind, q).q = q
         /\ WasPaid(ReadOf(kind, q))
<1> DEFINE nothing == [s \in {} |-> sale]
<1>1. nothing \in [{} -> Book]
  OBVIOUS
<1>2. nothing \in UNION {[S -> Book] : S \in SUBSET Requests}
  BY <1>1
<1>3. DOMAIN nothing = {}
  OBVIOUS
<1>4. ReadOf(kind, q) = [kind |-> kind, q |-> q, got |-> nothing, lost |-> {}]
  BY DEF ReadOf
<1> HIDE DEF nothing
<1>5. ReadOf(kind, q) \in Read /\ ReadOf(kind, q).kind = kind /\ ReadOf(kind, q).q = q
  BY <1>2, <1>4 DEF Read, ReadOver
<1>6. WasPaid(ReadOf(kind, q))
  BY <1>3, <1>4 DEF WasPaid
<1> QED
  BY <1>5, <1>6, ListsGiven

LEMMA FirstRows ==
  ASSUME NEW r \in Reads \cup {0}
  PROVE  AllRows \in Query /\ Mounted(r) \in Pane /\ [Mounted(r) EXCEPT !.loading = FALSE] \in Pane
<1>1. AllRows \in Query
  BY ListsGiven DEF AllRows, Query
<1> QED
  BY <1>1 DEF Mounted, Pane

\* What holds of each read that is there.
LEMMA ReadsAreTyped ==
  ASSUME ListInv, NEW r \in Reads, InFlight(r)
  PROVE  /\ reads[r] \in Read /\ WasPaid(reads[r]) /\ OfThePage(reads[r].kind)
         /\ reads[r].q \in Query
BY DEF ListInv, ListTypes, ReadsWereTrue, ReadsAreOfThePage, InFlight, Read, ReadOver

\* A list is loaded with filters q.
Reloads(r, q) ==
  /\ FreeRead(r) /\ screen \in ListPages
  /\ reads' = [reads EXCEPT ![r] = ReadOf(screen, q)]
  /\ pane' = [pane EXCEPT !.q = q, !.loading = TRUE, !.error = FALSE, !.sent = r]
  /\ UNCHANGED <<sale, screen, search>>

LEMMA LoadsAreKept ==
  ASSUME ListInv, NEW r \in Reads, NEW q \in Query, Reloads(r, q)
  PROVE  ListInv'
<1> USE DEF Reloads
<1> DEFINE new == ReadOf(screen, q)
<1>1. /\ sale \in Book /\ pane \in Pane /\ reads \in [Reads -> Read \cup {NoRead}]
      /\ reads[r] = NoRead
  BY DEF ListInv, ListTypes, FreeRead
<1>2. /\ new \in Read /\ new # NoRead /\ new.kind = screen /\ new.q = q /\ WasPaid(new)
  BY <1>1, NewReads
<1>3. /\ pane' \in Pane /\ pane'.q = q /\ pane'.loading = TRUE /\ pane'.sent = r
      /\ pane'.rows = pane.rows /\ pane'.total = pane.total /\ pane'.settled = pane.settled
  BY <1>1 DEF Pane
<1> HIDE DEF new
<1>4. /\ reads' \in [Reads -> Read \cup {NoRead}] /\ reads'[r] = new
      /\ \A d \in Reads : d # r => reads'[d] = reads[d]
  BY <1>1, <1>2 DEF new
<1>5. ListTypes'
  BY <1>3, <1>4 DEF ListInv, ListTypes
<1>6. ReadsWereTrue'
  BY <1>2, <1>4 DEF ListInv, ReadsWereTrue, WasPaid, InFlight
<1>7. ReadsAreOfThePage'
  BY <1>2, <1>4 DEF ListInv, ReadsAreOfThePage, OfThePage, InFlight
<1>8. ListsWait'
  BY <1>2, <1>3, <1>4 DEF ListInv, ListsWait, InFlight
<1>9. SearchWaits'
  BY <1>1, <1>4 DEF ListInv, SearchWaits, Searches, InFlight
<1>10. AnswersAreInOrder'
  <2>1. screen # "search"
    BY DEF ListPages
  <2>2. IsLast(r)'
    BY <1>2, <1>3, <1>4, <2>1 DEF IsLast, InFlight, Searches
  <2> QED
    BY <1>2, <1>3, <1>4, <2>2 DEF AnswersAreInOrder, IsLast
<1>11. ListsHoldTickets'
  BY <1>3 DEF ListInv, ListsHoldTickets, PaidRows
<1> QED
  BY <1>5, <1>6, <1>7, <1>8, <1>9, <1>10, <1>11 DEF ListInv

\* What a filter may be.
LEMMA FiltersAreTyped ==
  ASSUME NEW q \in Query
  PROVE  /\ \A t \in Terms : /\ [q EXCEPT !.search = t] \in Query
                           /\ [q EXCEPT !.search = t, !.page = 1] \in Query
         /\ \A s \in {"all", "paid", "pending", "valid", "void", "admitted", "duplicate"} :
              /\ [q EXCEPT !.status = s] \in Query
              /\ [q EXCEPT !.status = s, !.page = 1] \in Query
         /\ \A t \in {"all", "student", "vip"} : [q EXCEPT !.tier = t, !.page = 1] \in Query
         /\ \A n \in Nat \ {0} : [q EXCEPT !.page = n] \in Query
<1>1. ASSUME NEW p \in Query, NEW n \in Nat \ {0} PROVE [p EXCEPT !.page = n] \in Query
  BY <1>1 DEF Query
<1>2. ASSUME NEW t \in Terms
      PROVE  [q EXCEPT !.search = t] \in Query /\ [q EXCEPT !.search = t, !.page = 1] \in Query
  <2> DEFINE p == [q EXCEPT !.search = t]
  <2>1. p \in Query
    BY DEF Query
  <2> HIDE DEF p
  <2>2. [p EXCEPT !.page = 1] \in Query
    BY <1>1, <2>1
  <2> QED
    BY <2>1, <2>2 DEF p
<1>3. ASSUME NEW s \in {"all", "paid", "pending", "valid", "void", "admitted", "duplicate"}
      PROVE  [q EXCEPT !.status = s] \in Query /\ [q EXCEPT !.status = s, !.page = 1] \in Query
  <2> DEFINE p == [q EXCEPT !.status = s]
  <2>1. p \in Query
    BY DEF Query
  <2> HIDE DEF p
  <2>2. [p EXCEPT !.page = 1] \in Query
    BY <1>1, <2>1
  <2> QED
    BY <2>1, <2>2 DEF p
<1>4. ASSUME NEW t \in {"all", "student", "vip"}
      PROVE  [q EXCEPT !.tier = t, !.page = 1] \in Query
  <2> DEFINE p == [q EXCEPT !.tier = t]
  <2>1. p \in Query
    BY DEF Query
  <2> HIDE DEF p
  <2>2. [p EXCEPT !.page = 1] \in Query
    BY <1>1, <2>1
  <2> QED
    BY <2>2 DEF p
<1> QED
  BY <1>1, <1>2, <1>3, <1>4, Zenon

\* The filters, the pages and the poll of a list all load it.
LEMMA FiltersLoad ==
  ASSUME ListInv, NEW r \in Reads,
         \/ Retry(r) \/ ResetFilters(r) \/ Poll(r)
         \/ SetParticipantsFilter(r) \/ SetOrdersFilter(r) \/ SetTicketsFilter(r) \/ SetAdmissionsFilter(r)
         \/ ParticipantsPages(r) \/ OrdersPages(r)
  PROVE  \E q \in Query : screen \in ListPages /\ Load(r, q)
<1>1. pane.q \in Query /\ AllRows \in Query
  BY FirstRows DEF ListInv, ListTypes, Pane
<1>2. /\ \A t \in Terms : /\ [pane.q EXCEPT !.search = t] \in Query
                       /\ [pane.q EXCEPT !.search = t, !.page = 1] \in Query
      /\ \A s \in {"all", "paid", "pending", "valid", "void", "admitted", "duplicate"} :
           /\ [pane.q EXCEPT !.status = s] \in Query
           /\ [pane.q EXCEPT !.status = s, !.page = 1] \in Query
      /\ \A t \in {"all", "student", "vip"} : [pane.q EXCEPT !.tier = t, !.page = 1] \in Query
      /\ \A n \in Nat \ {0} : [pane.q EXCEPT !.page = n] \in Query
      /\ \A n \in Nat \ {0} : [AllRows EXCEPT !.page = n] \in Query
  BY <1>1, FiltersAreTyped, Zenon
<1>3. pane.q.page \in Nat \ {0}
  BY <1>1 DEF Query
<1>4. \A n \in {pane.q.page - 1, pane.q.page + 1} : n >= 1 => n \in Nat \ {0}
  BY <1>3
<1>5. [AllRows EXCEPT !.page = pane.q.page] \in Query
  BY <1>2, <1>3, Zenon
<1>7. CASE Retry(r) \/ ResetFilters(r) \/ Poll(r)
  BY <1>1, <1>5, <1>7 DEF Retry, ResetFilters, Poll, ListPages
<1>8. CASE SetParticipantsFilter(r) \/ SetOrdersFilter(r)
  <2>1. Statuses \subseteq {"all", "paid", "pending", "valid", "void", "admitted", "duplicate"}
    BY DEF Statuses
  <2>2. screen \in ListPages
    BY <1>8, Zenon DEF SetParticipantsFilter, SetOrdersFilter, ListPages
  <2> QED
    BY <1>2, <1>8, <2>1, <2>2, Zenon DEF SetParticipantsFilter, SetOrdersFilter
<1>9. CASE SetTicketsFilter(r) \/ SetAdmissionsFilter(r)
  <2>1. screen \in ListPages
    BY <1>9 DEF SetTicketsFilter, SetAdmissionsFilter, ListPages
  <2> QED
    BY <1>2, <1>9, <2>1, Zenon DEF SetTicketsFilter, SetAdmissionsFilter
<1>10. CASE ParticipantsPages(r) \/ OrdersPages(r)
  <2>1. screen \in ListPages /\ TurnPage(r)
    BY <1>10 DEF ParticipantsPages, OrdersPages, ListPages
  <2> QED
    BY <1>2, <1>4, <2>1, Zenon DEF TurnPage
<1> QED
  BY <1>7, <1>8, <1>9, <1>10

LEMMA FiltersAreKept ==
  ASSUME ListInv, NEW r \in Reads,
         \/ Retry(r) \/ ResetFilters(r) \/ Poll(r)
         \/ SetParticipantsFilter(r) \/ SetOrdersFilter(r) \/ SetTicketsFilter(r) \/ SetAdmissionsFilter(r)
         \/ ParticipantsPages(r) \/ OrdersPages(r)
  PROVE  ListInv'
<1>1. PICK q \in Query : screen \in ListPages /\ Load(r, q)
  BY FiltersLoad
<1>2. Reloads(r, q)
  BY <1>1 DEF Load, Reloads
<1> QED
  BY <1>2, LoadsAreKept

\* A page that comes to the front: the admissions are loaded, nothing else happens.
LEMMA ShowIsKept == ASSUME ListInv, NEW r \in Reads, Show(r) PROVE ListInv'
<1>1. CASE screen = "admissions"
  <2>1. pane.q \in Query /\ pane \in Pane
    BY DEF ListInv, ListTypes, Pane
  <2>2. [pane EXCEPT !.q = pane.q] = pane
    BY <2>1 DEF Pane
  <2>3. Reloads(r, pane.q)
    BY <1>1, <2>2 DEF Show, ListPages, Reloads
  <2> QED
    BY <2>1, <2>3, LoadsAreKept
<1>2. CASE screen # "admissions"
  BY <1>2 DEF Show, ListInv, ListTypes, ReadsWereTrue, WasPaid, ReadsAreOfThePage, OfThePage,
     ListsWait, SearchWaits, Searches, AnswersAreInOrder, IsLast, ListsHoldTickets, PaidRows, InFlight
<1> QED
  BY <1>1, <1>2
-----------------------------------------------------------------------------
\* One request of a read is answered, or lost.
LEMMA RequestsAreKept ==
  ASSUME ListInv, NEW r \in Reads, NEW source \in Requests,
         ReadSource(r, source) \/ LoseSource(r, source)
  PROVE  ListInv'
<1>1. /\ InFlight(r) /\ UNCHANGED <<sale, screen, pane, search>>
      /\ sale \in Book /\ reads \in [Reads -> Read \cup {NoRead}]
  BY DEF ReadSource, LoseSource, ListInv, ListTypes
<1>2. reads[r] \in Read /\ WasPaid(reads[r])
  BY <1>1, ReadsAreTyped
<1>3. ASSUME NEW k \in Read, k.kind = reads[r].kind, k.q = reads[r].q, WasPaid(k),
             reads' = [reads EXCEPT ![r] = k]
      PROVE  ListInv'
  <2>1. /\ reads' \in [Reads -> Read \cup {NoRead}] /\ reads'[r] = k
        /\ \A d \in Reads : d # r => reads'[d] = reads[d]
    BY <1>1, <1>3
  <2>2. /\ \A d \in Reads : InFlight(d)' <=> InFlight(d)
        /\ \A d \in Reads : reads'[d] # NoRead =>
             reads'[d].kind = reads[d].kind /\ reads'[d].q = reads[d].q
    BY <1>1, <1>3, <2>1, ListsGiven DEF InFlight
  <2>3. ReadsWereTrue'
    BY <1>1, <1>3, <2>1, <2>2 DEF ListInv, ReadsWereTrue, WasPaid
  <2>4. \A d \in Reads : (Searches(d)' <=> Searches(d)) /\ (IsLast(d)' <=> IsLast(d))
    BY <1>1, <2>2 DEF Searches, IsLast, InFlight
  <2> QED
    BY <1>1, <2>1, <2>2, <2>3, <2>4
       DEF ListInv, ListTypes, ReadsAreOfThePage, OfThePage, ListsWait, SearchWaits,
           AnswersAreInOrder, IsLast, ListsHoldTickets, PaidRows, InFlight
<1>4. CASE ReadSource(r, source)
  <2> DEFINE read == DOMAIN reads[r].got \cup {source}
             got == [s \in read |-> IF s = source THEN sale ELSE reads[r].got[s]]
             k == [reads[r] EXCEPT !.got = got]
  <2>1. PICK S \in SUBSET Requests : reads[r].got \in [S -> Book]
    BY <1>2 DEF Read, ReadOver
  <2>2. read \in SUBSET Requests /\ got \in [read -> Book]
    BY <1>1, <2>1
  <2>3. \A g : g \in [read -> Book] => g \in UNION {[T -> Book] : T \in SUBSET Requests}
    BY <2>2
  <2>4. got \in UNION {[T -> Book] : T \in SUBSET Requests}
    BY <2>2, <2>3, Zenon
  <2>5. reads' = [reads EXCEPT ![r] = k]
    BY <1>4 DEF ReadSource
  <2>6. \A s \in DOMAIN got : \A o \in Orders : got[s][o].status = "paid" => sale[o].status = "paid"
    BY <1>2 DEF WasPaid
  <2> HIDE DEF got
  <2>7. k \in Read /\ k.kind = reads[r].kind /\ k.q = reads[r].q /\ k.got = got
    BY <1>2, <2>4 DEF Read, ReadOver
  <2> HIDE DEF k
  <2>8. WasPaid(k)
    BY <2>6, <2>7 DEF WasPaid
  <2> QED
    BY <1>3, <2>5, <2>7, <2>8
<1>5. CASE LoseSource(r, source)
  <2> DEFINE k == [reads[r] EXCEPT !.lost = @ \cup {source}]
  <2>1. reads' = [reads EXCEPT ![r] = k]
    BY <1>5 DEF LoseSource
  <2>2. k \in Read /\ k.kind = reads[r].kind /\ k.q = reads[r].q /\ k.got = reads[r].got
    BY <1>2 DEF Read, ReadOver
  <2> HIDE DEF k
  <2> QED
    BY <1>2, <1>3, <2>1, <2>2 DEF WasPaid
<1> QED
  BY <1>4, <1>5

\* A read that ends leaves the others.
Ends(r) == reads' = [reads EXCEPT ![r] = NoRead]

LEMMA EndsAreKept ==
  ASSUME ListInv, NEW r \in Reads, Ends(r), UNCHANGED <<sale, screen>>
  PROVE  /\ reads' \in [Reads -> Read \cup {NoRead}] /\ reads'[r] = NoRead
         /\ \A d \in Reads : d # r => reads'[d] = reads[d]
         /\ ReadsWereTrue' /\ ReadsAreOfThePage'
         /\ \A d \in Reads : Searches(d)' <=> d # r /\ Searches(d)
<1>1. /\ reads' \in [Reads -> Read \cup {NoRead}] /\ reads'[r] = NoRead
      /\ \A d \in Reads : d # r => reads'[d] = reads[d]
  BY DEF Ends, ListInv, ListTypes
<1>2. ReadsWereTrue'
  BY <1>1 DEF ListInv, ReadsWereTrue, WasPaid, InFlight
<1>3. ReadsAreOfThePage'
  BY <1>1 DEF ListInv, ReadsAreOfThePage, OfThePage, InFlight
<1> QED
  BY <1>1, <1>2, <1>3 DEF Searches, InFlight

\* The answer to a list takes the place of its rows.
SoundAnswer(answer) ==
  /\ answer.data \in SUBSET Row /\ answer.total \in Nat
  /\ Cardinality(answer.data) <= answer.total
  /\ screen \in {"participants", "nexus"} => \A row \in answer.data : sale[row.id].status = "paid"

ListRead(r) == InFlight(r) /\ screen \in ListPages /\ reads[r].kind = screen

LEMMA AnswersAreShown ==
  ASSUME ListInv, NEW r \in Reads, ListRead(r), NEW answer, SoundAnswer(answer), Shows(r, answer)
  PROVE  ListInv'
<1>1. /\ screen \in ListPages /\ screen # "search" /\ screen # "participant" /\ ~Searches(r)
      /\ UNCHANGED <<sale, screen, search>> /\ Ends(r)
      /\ pane \in Pane /\ reads[r].q \in Query
  BY ReadsAreTyped DEF ListRead, ListPages, Searches, Shows, Ends, ListInv, ListTypes
<1>2. pane' = [pane EXCEPT !.rows = answer.data, !.total = answer.total, !.of = reads[r].q,
                           !.loading = FALSE, !.settled = (pane.sent = r)]
  BY DEF Shows
<1> DEFINE settled == pane.sent = r
<1>3. settled \in BOOLEAN
  BY Zenon
<1>4. pane' = [pane EXCEPT !.rows = answer.data, !.total = answer.total, !.of = reads[r].q,
                           !.loading = FALSE, !.settled = settled]
  BY <1>2
<1>5. settled => pane.sent = r
  OBVIOUS
<1> HIDE DEF settled
<1>6. /\ pane' \in Pane /\ pane'.rows = answer.data /\ pane'.total = answer.total
      /\ pane'.of = reads[r].q /\ pane'.loading = FALSE /\ pane'.settled = settled
      /\ pane'.q = pane.q /\ pane'.error = pane.error /\ pane'.sent = pane.sent
  BY <1>1, <1>3, <1>4 DEF Pane, SoundAnswer
<1>7. /\ reads' \in [Reads -> Read \cup {NoRead}] /\ reads'[r] = NoRead
      /\ \A d \in Reads : d # r => reads'[d] = reads[d]
      /\ ReadsWereTrue' /\ ReadsAreOfThePage'
      /\ \A d \in Reads : Searches(d)' <=> d # r /\ Searches(d)
  BY <1>1, EndsAreKept
<1>8. ListTypes'
  BY <1>1, <1>6, <1>7 DEF ListInv, ListTypes
<1>9. ListsWait'
  BY <1>6 DEF ListsWait, SoundAnswer
<1>10. SearchWaits'
  BY <1>1, <1>7 DEF ListInv, SearchWaits
<1>11. AnswersAreInOrder'
  <2>1. \A d \in Reads : IsLast(d)' => d # r /\ IsLast(d) /\ reads'[d] = reads[d]
    BY <1>6, <1>7 DEF IsLast, InFlight
  <2>2. settled => reads[r].q = pane.q
    BY <1>1, <1>5 DEF ListInv, AnswersAreInOrder, IsLast, ListRead
  <2> QED
    BY <1>1, <1>6, <2>1, <2>2 DEF ListInv, AnswersAreInOrder
<1>12. ListsHoldTickets'
  BY <1>1, <1>6 DEF ListInv, ListsHoldTickets, PaidRows, SoundAnswer
<1> QED
  BY <1>7, <1>8, <1>9, <1>10, <1>11, <1>12 DEF ListInv

LEMMA FailsAreShown ==
  ASSUME ListInv, NEW r \in Reads, ListRead(r), Fails(r)
  PROVE  ListInv'
<1>1. /\ screen \in ListPages /\ screen # "search" /\ ~Searches(r)
      /\ UNCHANGED <<sale, screen, search>> /\ Ends(r)
      /\ pane \in Pane
  BY DEF ListRead, ListPages, Searches, Fails, Ends, ListInv, ListTypes
<1> DEFINE settled == pane.sent = r
<1>2. settled \in BOOLEAN
  BY Zenon
<1>3. pane' = [pane EXCEPT !.error = TRUE, !.loading = FALSE, !.settled = settled]
  BY DEF Fails
<1> HIDE DEF settled
<1>4. /\ pane' \in Pane /\ pane'.rows = pane.rows /\ pane'.total = pane.total
      /\ pane'.loading = FALSE /\ pane'.q = pane.q /\ pane'.error = TRUE /\ pane'.sent = pane.sent
  BY <1>1, <1>2, <1>3 DEF Pane
<1>5. /\ reads' \in [Reads -> Read \cup {NoRead}] /\ reads'[r] = NoRead
      /\ \A d \in Reads : d # r => reads'[d] = reads[d]
      /\ ReadsWereTrue' /\ ReadsAreOfThePage'
      /\ \A d \in Reads : Searches(d)' <=> d # r /\ Searches(d)
  BY <1>1, EndsAreKept
<1>6. ListTypes'
  BY <1>1, <1>4, <1>5 DEF ListInv, ListTypes
<1>7. ListsWait'
  BY <1>1, <1>4 DEF ListInv, ListsWait
<1>8. SearchWaits'
  BY <1>1, <1>5 DEF ListInv, SearchWaits
<1>9. AnswersAreInOrder'
  <2>1. \A d \in Reads : IsLast(d)' => d # r /\ IsLast(d) /\ reads'[d] = reads[d]
    BY <1>4, <1>5 DEF IsLast, InFlight
  <2> QED
    BY <1>1, <1>4, <2>1 DEF ListInv, AnswersAreInOrder
<1>10. ListsHoldTickets'
  BY <1>1, <1>4 DEF ListInv, ListsHoldTickets, PaidRows
<1> QED
  BY <1>5, <1>6, <1>7, <1>8, <1>9, <1>10 DEF ListInv

\* A read of a list is of the list that is open.
LEMMA ListReadsAreHere ==
  ASSUME ListInv, NEW r \in Reads, NEW kind \in ListPages, InFlight(r), reads[r].kind = kind
  PROVE  ListRead(r) /\ screen = kind
BY ReadsAreTyped DEF ListRead, OfThePage, ListPages

LEMMA SourcesOfReads ==
  /\ Sources("participants") = {"attendees", "orders"} /\ Sources("nexus") = {"attendees", "orders"}
  /\ Sources("participant") = {"attendees", "orders"} /\ Sources("search") = {"attendees", "orders"}
  /\ Sources("orders") = {"orders"}
BY DEF Sources

LEMMA ListsReturn ==
  ASSUME ListInv, NEW r \in Reads,
         \/ ParticipantsReturn(r) \/ NexusReturn(r) \/ OrdersReturn(r) \/ TicketsReturn(r)
         \/ AdmissionsReturn(r)
  PROVE  ListInv'
<1> DEFINE k == reads[r]
<1>1. ASSUME NEW kind \in ListPages, Rejected(r, kind), Fails(r)
      PROVE  ListInv'
  BY <1>1, ListReadsAreHere, FailsAreShown DEF Rejected
<1>2. ASSUME NEW kind \in ListPages, Answered(r, kind)
      PROVE  ListRead(r) /\ screen = kind /\ k \in Read /\ WasPaid(k)
  BY <1>2, ListReadsAreHere, ReadsAreTyped DEF Answered
<1>3. ASSUME NEW rows \in SUBSET Row, IsFiniteSet(rows),
             screen \in {"participants", "nexus"} => \A row \in rows : sale[row.id].status = "paid"
      PROVE  SoundAnswer(Whole(rows)) /\ \A n : SoundAnswer(Paged(rows, n))
  BY <1>3, PagesArePartial DEF SoundAnswer
<1>4. CASE ParticipantsReturn(r)
  <2>1. CASE Rejected(r, "participants") /\ Fails(r)
    BY <1>1, <2>1 DEF ListPages
  <2>2. CASE /\ Complete(r, "participants")
             /\ Shows(r, Paged(ParticipantsGetAll(k.q, k.got), k.q.page))
    <3>1. ListRead(r) /\ k \in Read /\ WasPaid(k) /\ DOMAIN k.got = {"attendees", "orders"}
      BY <1>2, <2>2, SourcesOfReads DEF Complete, Answered, ListPages
    <3>2. ParticipantsGetAll(k.q, k.got) \in SUBSET Participants(k.got)
      BY DEF ParticipantsGetAll
    <3>3. /\ Participants(k.got) \in SUBSET Row /\ IsFiniteSet(Participants(k.got))
          /\ \A p \in Participants(k.got) : p.id \in Orders /\ sale[p.id].status = "paid"
      BY <3>1, ParticipantsAreRows
    <3>4. SoundAnswer(Paged(ParticipantsGetAll(k.q, k.got), k.q.page))
      BY <1>3, <3>2, <3>3, FS_Subset
    <3> QED
      BY <2>2, <3>1, <3>4, AnswersAreShown
  <2> QED
    BY <1>4, <2>1, <2>2 DEF ParticipantsReturn
<1>5. CASE NexusReturn(r)
  <2> DEFINE rows == {p \in Participants(k.got) : p.tier = "vip"}
  <2>1. CASE Rejected(r, "nexus") /\ Fails(r)
    BY <1>1, <2>1 DEF ListPages
  <2>2. CASE Complete(r, "nexus") /\ Shows(r, Whole(rows))
    <3>1. ListRead(r) /\ k \in Read /\ WasPaid(k) /\ DOMAIN k.got = {"attendees", "orders"}
      BY <1>2, <2>2, SourcesOfReads DEF Complete, Answered, ListPages
    <3>2. rows \in SUBSET Participants(k.got)
      OBVIOUS
    <3>3. /\ Participants(k.got) \in SUBSET Row /\ IsFiniteSet(Participants(k.got))
          /\ \A p \in Participants(k.got) : p.id \in Orders /\ sale[p.id].status = "paid"
      BY <3>1, ParticipantsAreRows
    <3> HIDE DEF rows
    <3>4. SoundAnswer(Whole(rows))
      BY <1>3, <3>2, <3>3, FS_Subset
    <3> QED
      BY <2>2, <3>1, <3>4, AnswersAreShown
  <2> QED
    BY <1>5, <2>1, <2>2 DEF NexusReturn
<1>6. CASE OrdersReturn(r)
  <2>1. CASE Rejected(r, "orders") /\ Fails(r)
    BY <1>1, <2>1 DEF ListPages
  <2>2. CASE Complete(r, "orders") /\ Shows(r, Paged(OrdersGetAll(k.q, k.got), k.q.page))
    <3>1. /\ ListRead(r) /\ k \in Read /\ DOMAIN k.got = {"orders"}
          /\ screen \notin {"participants", "nexus"}
      BY <1>2, <2>2, SourcesOfReads DEF Complete, Answered, ListPages
    <3>2. SoundAnswer(Paged(OrdersGetAll(k.q, k.got), k.q.page))
      BY <1>3, <3>1, OrdersAreRows
    <3> QED
      BY <2>2, <3>1, <3>2, AnswersAreShown
  <2> QED
    BY <1>6, <2>1, <2>2 DEF OrdersReturn
<1>7. CASE TicketsReturn(r)
  <2>1. CASE Rejected(r, "tickets") /\ Fails(r)
    BY <1>1, <2>1 DEF ListPages
  <2>2. CASE Complete(r, "tickets") /\ Shows(r, Whole(TicketsGetAll(k.q, k.got)))
    <3>1. ListRead(r) /\ screen \notin {"participants", "nexus"}
      BY <1>2, <2>2 DEF Complete, ListPages
    <3>2. SoundAnswer(Whole(TicketsGetAll(k.q, k.got)))
      BY <1>3, <3>1, TicketsAreRows
    <3> QED
      BY <2>2, <3>1, <3>2, AnswersAreShown
  <2> QED
    BY <1>7, <2>1, <2>2 DEF TicketsReturn
<1>8. CASE AdmissionsReturn(r)
  <2>1. Answered(r, "admissions") /\ Shows(r, Whole(AdmissionsGetAll(k.q, k.got)))
    BY <1>8 DEF AdmissionsReturn
  <2>2. ListRead(r) /\ screen \notin {"participants", "nexus"}
    BY <1>2, <2>1 DEF ListPages
  <2>3. SoundAnswer(Whole(AdmissionsGetAll(k.q, k.got)))
    BY <1>3, <2>2, EntriesAreRows
  <2> QED
    BY <2>1, <2>2, <2>3, AnswersAreShown
<1> QED
  BY <1>4, <1>5, <1>6, <1>7, <1>8

\* The page of a participant.
LEMMA ParticipantsAnswerIsKept == ASSUME ListInv, NEW r \in Reads, ParticipantReturns(r) PROVE ListInv'
<1> DEFINE k == reads[r]
<1>1. /\ InFlight(r) /\ k.kind = "participant" /\ UNCHANGED <<sale, screen, visible, search>>
      /\ Complete(r, "participant") \/ Rejected(r, "participant")
  BY DEF ParticipantReturns, Complete, Rejected, Answered
<1>2. /\ k \in Read /\ WasPaid(k) /\ screen = "participant" /\ screen \notin ListPages
      /\ pane \in Pane /\ sale \in Book /\ reads \in [Reads -> Read \cup {NoRead}]
  BY <1>1, ReadsAreTyped DEF OfThePage, ListPages, ListInv, ListTypes
<1>3. ~Searches(r)
  BY <1>1 DEF Searches
<1>4. ASSUME pane' \in Pane, PaidRows',
             Ends(r) \/ reads' = [reads EXCEPT ![r] = ReadOf("participantOrder", AllRows)]
      PROVE  ListInv'
  <2>1. /\ ReadOf("participantOrder", AllRows) \in Read
        /\ ReadOf("participantOrder", AllRows).kind = "participantOrder"
        /\ WasPaid(ReadOf("participantOrder", AllRows))
    BY <1>2, FirstRows, NewReads
  <2>2. /\ reads' \in [Reads -> Read \cup {NoRead}]
        /\ \A d \in Reads : d # r => reads'[d] = reads[d]
        /\ \/ reads'[r] = NoRead
           \/ /\ reads'[r].kind = "participantOrder" /\ reads'[r] \in Read
              /\ reads'[r] = ReadOf("participantOrder", AllRows)
    BY <1>2, <1>4, <2>1 DEF Ends
  <2>3. ReadsWereTrue'
    BY <1>1, <2>1, <2>2 DEF ListInv, ReadsWereTrue, WasPaid, InFlight
  <2>4. ReadsAreOfThePage'
    BY <1>1, <1>2, <2>2 DEF ListInv, ReadsAreOfThePage, OfThePage, InFlight
  <2>5. SearchWaits'
    BY <1>1, <1>3, <2>2 DEF ListInv, SearchWaits, Searches, InFlight
  <2> QED
    BY <1>1, <1>2, <1>4, <2>2, <2>3, <2>4, <2>5
       DEF ListInv, ListTypes, ListsWait, AnswersAreInOrder, ListsHoldTickets
<1>5. CASE Complete(r, "participant")
  <2>1. DOMAIN k.got = {"attendees", "orders"}
    BY <1>5, SourcesOfReads DEF Complete, Answered
  <2>2. /\ Participants(k.got) \in SUBSET Row
        /\ \A p \in Participants(k.got) : sale[p.id].status = "paid"
    BY <1>2, <2>1, ParticipantsAreRows
  <2> DEFINE found == {p \in Participants(k.got) : p.id = pane.about}
  <2>3. found \in SUBSET Row /\ \A p \in found : sale[p.id].status = "paid"
    BY <2>2
  <2>4. ~Rejected(r, "participant")
    BY <1>5 DEF Complete, Rejected
  <2>5. \/ pane' = [pane EXCEPT !.rows = {}, !.loading = FALSE] /\ Ends(r)
        \/ /\ pane' = [pane EXCEPT !.rows = found]
           /\ reads' = [reads EXCEPT ![r] = ReadOf("participantOrder", AllRows)]
    BY <2>4, Zenon DEF ParticipantReturns, Ends
  <2> HIDE DEF found
  <2>6. pane' \in Pane /\ pane'.rows \subseteq found
    BY <1>2, <2>3, <2>5 DEF Pane
  <2> QED
    BY <1>1, <1>4, <2>3, <2>5, <2>6 DEF PaidRows
<1>6. CASE Rejected(r, "participant")
  <2>1. ~Complete(r, "participant")
    BY <1>6 DEF Complete, Rejected
  <2>2. Ends(r) /\ UNCHANGED pane
    BY <2>1 DEF ParticipantReturns, Ends
  <2> QED
    BY <1>1, <1>2, <1>4, <2>2 DEF ListInv, ListsHoldTickets, PaidRows
<1> QED
  BY <1>1, <1>5, <1>6

\* An order, alone or of a participant.
LEMMA OrdersAnswerIsKept == ASSUME ListInv, NEW r \in Reads, OrderReturns(r) PROVE ListInv'
<1>1. /\ InFlight(r) /\ reads[r].kind \in {"order", "participantOrder"} /\ Ends(r)
      /\ UNCHANGED <<sale, screen, search>>
  BY DEF OrderReturns, Answered, Ends
<1>2. screen \in {"order", "participant"} /\ screen \notin ListPages /\ pane \in Pane
  BY <1>1, ReadsAreTyped DEF OfThePage, ListPages, ListInv, ListTypes
<1>3. ~Searches(r)
  BY <1>1 DEF Searches
<1>4. pane' \in Pane /\ pane'.rows = pane.rows
  <2>1. PICK order \in {pane.about, 0} : pane' = [pane EXCEPT !.order = order, !.loading = FALSE]
    BY DEF OrderReturns
  <2> QED
    BY <1>2, <2>1 DEF Pane
<1>5. /\ reads' \in [Reads -> Read \cup {NoRead}]
      /\ ReadsWereTrue' /\ ReadsAreOfThePage'
      /\ \A d \in Reads : Searches(d)' <=> d # r /\ Searches(d)
  BY <1>1, EndsAreKept
<1> QED
  BY <1>1, <1>2, <1>3, <1>4, <1>5
     DEF ListInv, ListTypes, ListsWait, SearchWaits, AnswersAreInOrder, ListsHoldTickets, PaidRows

\* A page that is left: nothing of it stays, out of the administration nor does the search.
LEMMA LeavingIsKept ==
  ASSUME ListInv, NEW place \in {"storefront", "dashboard"}, LeavesTo(place)
  PROVE  ListInv'
<1>1. /\ screen' = place /\ place \notin ListPages \cup {"participants", "nexus", "participant"}
      /\ UNCHANGED sale
  BY DEF LeavesTo, ListPages
<1>2. pane' \in Pane
  BY FirstRows DEF LeavesTo
<1>3. /\ reads' \in [Reads -> Read \cup {NoRead}]
      /\ \A r \in Reads : InFlight(r)' => reads'[r] = reads[r] /\ Searches(r) /\ Searches(r)'
  BY DEF LeavesTo, ListInv, ListTypes, InFlight, Searches
<1>4. CASE place = "storefront"
  <2>1. search' = NoSearch
    BY <1>4 DEF LeavesTo
  <2>2. search' \in Search /\ search'.loading = FALSE /\ search'.people = {}
    BY <2>1, ListsGiven DEF NoSearch, Search
  <2>3. ReadsWereTrue' /\ ReadsAreOfThePage'
    BY <1>1, <1>3 DEF ListInv, ReadsWereTrue, WasPaid, ReadsAreOfThePage, OfThePage, InFlight, Searches
  <2> QED
    BY <1>1, <1>2, <1>3, <2>2, <2>3
       DEF ListInv, ListTypes, ListsWait, SearchWaits, AnswersAreInOrder, ListsHoldTickets
<1>5. CASE place = "dashboard"
  <2>1. UNCHANGED search /\ \A r \in Reads : Searches(r) => reads'[r] = reads[r]
    BY <1>5 DEF LeavesTo
  <2>2. ReadsWereTrue' /\ ReadsAreOfThePage'
    BY <1>1, <1>3 DEF ListInv, ReadsWereTrue, WasPaid, ReadsAreOfThePage, OfThePage, InFlight, Searches
  <2>3. SearchWaits'
    BY <2>1 DEF ListInv, SearchWaits, Searches, InFlight
  <2> QED
    BY <1>1, <1>2, <1>3, <2>1, <2>2, <2>3
       DEF ListInv, ListTypes, ListsWait, AnswersAreInOrder, ListsHoldTickets
<1> QED
  BY <1>4, <1>5

\* A page that is opened, loading.
LEMMA OpeningIsKept ==
  ASSUME ListInv, NEW r \in Reads, NEW place \in ListPages, OpenPage(r, place)
  PROVE  ListInv'
<1> DEFINE new == ReadOf(place, AllRows)
<1>1. /\ screen' = place /\ pane' = Mounted(r) /\ UNCHANGED <<sale, search>>
      /\ sale \in Book /\ ~Searches(r)
  BY DEF OpenPage, ListInv, ListTypes, Searches, InFlight
<1>2. /\ new \in Read /\ new # NoRead /\ new.kind = place /\ new.q = AllRows /\ WasPaid(new)
  BY <1>1, FirstRows, NewReads
<1>3. /\ pane' \in Pane /\ pane'.q = AllRows /\ pane'.of = AllRows /\ pane'.sent = r
      /\ pane'.rows = {} /\ pane'.total = 0
  BY <1>1, FirstRows DEF Mounted
<1> HIDE DEF new
<1>4. /\ reads' \in [Reads -> Read \cup {NoRead}] /\ reads'[r] = new
      /\ \A d \in Reads : d # r /\ InFlight(d)' => reads'[d] = reads[d] /\ Searches(d)
      /\ \A d \in Reads : Searches(d) => reads'[d] = reads[d]
  BY <1>1, <1>2 DEF OpenPage, ListInv, ListTypes, InFlight, Searches, new
<1>5. ReadsWereTrue'
  BY <1>1, <1>2, <1>4 DEF ListInv, ReadsWereTrue, WasPaid, InFlight, Searches
<1>6. ReadsAreOfThePage'
  BY <1>1, <1>2, <1>4 DEF ListInv, ReadsAreOfThePage, OfThePage, InFlight, Searches
<1>7. ListsWait'
  BY <1>1, <1>2, <1>3, <1>4, FS_EmptySet DEF ListsWait, InFlight
<1>8. SearchWaits'
  BY <1>1, <1>4 DEF ListInv, SearchWaits, Searches, InFlight
<1>9. AnswersAreInOrder'
  <2>1. pane'.of = pane'.q /\ \A d \in Reads : IsLast(d)' => d = r
    BY <1>3 DEF IsLast
  <2> QED
    BY <1>2, <1>3, <1>4, <2>1 DEF AnswersAreInOrder
<1>10. ListsHoldTickets'
  BY <1>1, <1>3 DEF ListInv, ListsHoldTickets, PaidRows
<1> QED
  BY <1>1, <1>3, <1>4, <1>5, <1>6, <1>7, <1>8, <1>9, <1>10 DEF ListInv, ListTypes
-----------------------------------------------------------------------------
\* Opening, closing and typing in the search leave what it waits for and whom it found.
LEMMA SearchFieldIsKept ==
  ASSUME ListInv, search' \in Search, SearchIs(search'),
         search'.loading = search.loading, search'.people \subseteq search.people
  PROVE  ListInv'
BY DEF SearchIs, ListInv, ListTypes, ReadsWereTrue, WasPaid, ReadsAreOfThePage, OfThePage,
   ListsWait, SearchWaits, Searches, AnswersAreInOrder, IsLast, ListsHoldTickets, PaidRows, InFlight

LEMMA TypingIsKept == ASSUME ListInv, OpenSearch \/ CloseSearch \/ TypeQuery PROVE ListInv'
<1>1. search \in Search /\ Blank \in Terms
  BY ListsGiven DEF ListInv, ListTypes
<1>2. CASE OpenSearch
  <2>1. PICK timer \in {search.timer, Blank} :
          SearchIs([search EXCEPT !.open = TRUE, !.query = Blank, !.people = {}, !.orders = {}, !.timer = timer])
    BY <1>2 DEF OpenSearch
  <2>2. search' = [search EXCEPT !.open = TRUE, !.query = Blank, !.people = {}, !.orders = {}, !.timer = timer]
    BY <2>1 DEF SearchIs
  <2>3. search' \in Search /\ search'.loading = search.loading /\ search'.people = {}
    BY <1>1, <2>2 DEF Search
  <2>4. SearchIs(search')
    BY <2>1, <2>2
  <2> QED
    BY <2>3, <2>4, SearchFieldIsKept
<1>3. CASE CloseSearch
  <2>1. search' = [search EXCEPT !.open = FALSE] /\ SearchIs(search')
    BY <1>3 DEF CloseSearch, SearchIs
  <2>2. search' \in Search /\ search'.loading = search.loading /\ search'.people = search.people
    BY <1>1, <2>1 DEF Search
  <2> QED
    BY <2>1, <2>2, SearchFieldIsKept
<1>4. CASE TypeQuery
  <2>1. PICK t \in Terms : SearchIs([search EXCEPT !.query = t, !.timer = t])
    BY <1>4, Zenon DEF TypeQuery
  <2>2. search' = [search EXCEPT !.query = t, !.timer = t] /\ SearchIs(search')
    BY <2>1 DEF SearchIs
  <2>3. search' \in Search /\ search'.loading = search.loading /\ search'.people = search.people
    BY <1>1, <2>2 DEF Search
  <2> QED
    BY <2>2, <2>3, SearchFieldIsKept
<1> QED
  BY <1>2, <1>3, <1>4

\* The timer of the search: nothing was typed, or a read starts in a slot that is free.
LEMMA FiringIsKept == ASSUME ListInv, NEW r \in Reads, SearchFires(r) PROVE ListInv'
<1>1. search \in Search /\ sale \in Book /\ reads \in [Reads -> Read \cup {NoRead}]
  BY DEF ListInv, ListTypes
<1>2. CASE search.timer = Blank /\ SearchIs([search EXCEPT !.timer = "off", !.people = {}, !.orders = {}])
  <2>1. search' = [search EXCEPT !.timer = "off", !.people = {}, !.orders = {}] /\ SearchIs(search')
    BY <1>2 DEF SearchIs
  <2>2. search' \in Search /\ search'.loading = search.loading /\ search'.people = {}
    BY <1>1, <2>1 DEF Search
  <2> QED
    BY <2>1, <2>2, SearchFieldIsKept
<1>3. CASE /\ search.timer \notin {Blank, "off"} /\ FreeRead(r)
           /\ reads' = [reads EXCEPT ![r] = ReadOf("search", [AllRows EXCEPT !.search = search.timer])]
           /\ search' = [search EXCEPT !.timer = "off", !.loading = TRUE]
           /\ UNCHANGED <<sale, screen, pane, visible>>
  <2> DEFINE q == [AllRows EXCEPT !.search = search.timer]
             new == ReadOf("search", q)
  <2>1. search.timer \in Terms /\ AllRows \in Query
    BY <1>1, <1>3, FirstRows DEF Search
  <2>2. q \in Query
    BY <2>1, FiltersAreTyped, Zenon
  <2> HIDE DEF q
  <2>3. new \in Read /\ new # NoRead /\ new.kind = "search" /\ WasPaid(new)
    BY <1>1, <2>2, NewReads
  <2>4. reads' = [reads EXCEPT ![r] = new]
    BY <1>3 DEF q
  <2> HIDE DEF new
  <2>5. /\ reads' \in [Reads -> Read \cup {NoRead}] /\ reads'[r] = new /\ reads[r] = NoRead
        /\ \A d \in Reads : d # r => reads'[d] = reads[d]
    BY <1>1, <1>3, <2>3, <2>4 DEF FreeRead
  <2>6. search' \in Search /\ search'.people = search.people
    BY <1>1, <1>3 DEF Search
  <2>7. ReadsWereTrue' /\ ReadsAreOfThePage'
    BY <1>3, <2>3, <2>5 DEF ListInv, ReadsWereTrue, WasPaid, ReadsAreOfThePage, OfThePage, InFlight
  <2>8. ListsWait'
    BY <1>3, <2>5 DEF ListInv, ListsWait, InFlight
  <2>9. SearchWaits'
    BY <2>3, <2>5 DEF SearchWaits, Searches, InFlight
  <2>10. AnswersAreInOrder'
    <3>1. \A d \in Reads : (IsLast(d)' <=> IsLast(d)) /\ (IsLast(d) => reads'[d] = reads[d])
      BY <1>3, <2>3, <2>5 DEF IsLast, Searches, InFlight
    <3> QED
      BY <1>3, <3>1 DEF ListInv, AnswersAreInOrder
  <2> QED
    BY <1>3, <2>5, <2>6, <2>7, <2>8, <2>9, <2>10 DEF ListInv, ListTypes, ListsHoldTickets, PaidRows
<1> QED
  BY <1>2, <1>3 DEF SearchFires

\* What a search has found, or that it failed.
LEMMA SearchAnswersAreKept == ASSUME ListInv, NEW r \in Reads, SearchReturns(r) PROVE ListInv'
<1> DEFINE k == reads[r]
<1>1. /\ InFlight(r) /\ k.kind = "search" /\ Ends(r) /\ UNCHANGED <<sale, screen, pane>>
      /\ search \in Search /\ k \in Read /\ WasPaid(k) /\ k.q \in Query
  BY ReadsAreTyped DEF SearchReturns, Complete, Rejected, Answered, Ends, ListInv, ListTypes
<1>2. /\ reads' \in [Reads -> Read \cup {NoRead}] /\ reads'[r] = NoRead
      /\ \A d \in Reads : d # r => reads'[d] = reads[d]
      /\ ReadsWereTrue' /\ ReadsAreOfThePage'
  BY <1>1, EndsAreKept
<1>3. /\ search' \in Search /\ search'.loading = FALSE
      /\ \A o \in search'.people : sale[o].status = "paid"
  <2>1. CASE Complete(r, "search")
    <3> DEFINE people == {p.id : p \in {p \in Participants(k.got) : p.id \in Found[k.q.search]}}
               bought == {o \in Found[k.q.search] : k.got.orders[o].status # "none"}
    <3>1. DOMAIN k.got = {"attendees", "orders"}
      BY <2>1, SourcesOfReads DEF Complete, Answered
    <3>2. \A p \in Participants(k.got) : p.id \in Orders /\ sale[p.id].status = "paid"
      BY <1>1, <3>1, ParticipantsAreRows
    <3>3. people \in SUBSET Orders /\ \A o \in people : sale[o].status = "paid"
      BY <3>2
    <3>4. bought \in SUBSET Orders
      BY <1>1, ListsGiven DEF Query
    <3>5. ~Rejected(r, "search")
      BY <2>1 DEF Complete, Rejected
    <3>6. search' = [search EXCEPT !.loading = FALSE, !.people = people, !.orders = bought]
      BY <3>5, Zenon DEF SearchReturns
    <3> HIDE DEF people, bought
    <3> QED
      BY <1>1, <3>3, <3>4, <3>6 DEF Search
  <2>2. CASE Rejected(r, "search")
    <3>1. search' = [search EXCEPT !.loading = FALSE]
      BY <2>2 DEF SearchReturns, Complete, Rejected
    <3> QED
      BY <1>1, <3>1 DEF Search, ListInv, ListsHoldTickets
  <2> QED
    BY <2>1, <2>2 DEF SearchReturns
<1>4. ListsWait'
  <2>1. screen \in ListPages => k.kind # screen
    BY <1>1 DEF ListPages
  <2> QED
    BY <1>1, <1>2, <2>1 DEF ListInv, ListsWait, InFlight
<1>5. AnswersAreInOrder'
  <2>1. \A d \in Reads : (IsLast(d)' <=> IsLast(d)) /\ (IsLast(d) => reads'[d] = reads[d])
    BY <1>1, <1>2 DEF IsLast, Searches, InFlight
  <2> QED
    BY <1>1, <2>1 DEF ListInv, AnswersAreInOrder
<1> QED
  BY <1>1, <1>2, <1>3, <1>4, <1>5 DEF ListInv, ListTypes, SearchWaits, ListsHoldTickets, PaidRows
-----------------------------------------------------------------------------
\* An order that is paid stays paid.
LEMMA TradesAreKept == ASSUME ListInv, NEW o \in Orders, Trade(o) PROVE ListInv'
<1>1. sale \in Book /\ UNCHANGED <<screen, pane, reads, search>>
  BY DEF Trade, browser, ListInv, ListTypes
<1>2. sale' \in Book /\ \A p \in Orders : sale[p].status = "paid" => sale'[p].status = "paid"
  <2>1. CASE sale[o].status = "none" /\ sale' = [sale EXCEPT ![o].status = "pending"]
    BY <1>1, <2>1 DEF Book
  <2>2. CASE sale[o].status = "pending" /\ sale' = [sale EXCEPT ![o].status = "paid"]
    BY <1>1, <2>2 DEF Book
  <2>3. ASSUME NEW scan \in {"once", "gate", "station"}, sale' = [sale EXCEPT ![o].scan = scan]
        PROVE  sale' \in Book /\ \A p \in Orders : sale[p].status = "paid" => sale'[p].status = "paid"
    BY <1>1, <2>3 DEF Book
  <2> QED
    BY <2>1, <2>2, <2>3, Zenon DEF Trade
<1>3. ReadsWereTrue'
  BY <1>1, <1>2 DEF ListInv, ReadsWereTrue, WasPaid, InFlight
<1>4. ListsHoldTickets'
  <2>1. (\A row \in pane.rows : row.id \in Orders) /\ search.people \subseteq Orders
    BY DEF ListInv, ListTypes, Pane, Row, Search
  <2> QED
    BY <1>1, <1>2, <2>1 DEF ListInv, ListsHoldTickets, PaidRows
<1> QED
  BY <1>1, <1>2, <1>3, <1>4
     DEF ListInv, ListTypes, ReadsAreOfThePage, OfThePage, ListsWait, SearchWaits, Searches,
         AnswersAreInOrder, IsLast, InFlight

LEMMA ListsKept == ASSUME ListInv, UNCHANGED <<sale, screen, pane, reads, search>> PROVE ListInv'
BY DEF ListInv, ListTypes, ReadsWereTrue, WasPaid, ReadsAreOfThePage, OfThePage, ListsWait,
   SearchWaits, Searches, AnswersAreInOrder, IsLast, ListsHoldTickets, PaidRows, InFlight

LEMMA ListAnswersKeep == ASSUME ListInv, ListAnswers PROVE ListInv'
<1>1. PICK r \in Reads : \/ \E source \in Requests : ReadSource(r, source)
                         \/ ReadReturns(r) \/ SearchFires(r) \/ Poll(r)
  BY DEF ListAnswers
<1>2. CASE ReadReturns(r)
  BY <1>2, ListsReturn, ParticipantsAnswerIsKept, OrdersAnswerIsKept, SearchAnswersAreKept DEF ReadReturns
<1> QED
  BY <1>1, <1>2, RequestsAreKept, FiringIsKept, FiltersAreKept

LEMMA ListInitiativesKeep == ASSUME ListInv, ListInitiatives PROVE ListInv'
<1>1. ASSUME NEW r \in Reads,
             \/ \E source \in Requests : LoseSource(r, source)
             \/ Retry(r) \/ Show(r) \/ ResetFilters(r)
             \/ SetParticipantsFilter(r) \/ SetOrdersFilter(r) \/ SetTicketsFilter(r) \/ SetAdmissionsFilter(r)
             \/ ParticipantsPages(r) \/ OrdersPages(r)
             \/ \E place \in ListPages : OpenPage(r, place)
      PROVE  ListInv'
  BY <1>1, RequestsAreKept, ShowIsKept, FiltersAreKept, OpeningIsKept
<1>2. CASE Hide
  BY <1>2, ListsKept DEF Hide
<1>3. CASE NavigateTo \/ OpenParticipant \/ OpenOrder \/ GoBackToList
  BY <1>3, LeavingIsKept DEF NavigateTo, OpenParticipant, OpenOrder, GoBackToList
<1> QED
  BY <1>1, <1>2, <1>3, TypingIsKept, TradesAreKept DEF ListInitiatives

LEMMA ListSteps ==
  ASSUME [Next]_adminVars
  PROVE  ListAnswers \/ ListInitiatives \/ UNCHANGED <<sale, screen, pane, reads, search>>
<1>1. CASE Answers
  BY <1>1 DEF Answers, listVars
<1>2. CASE Initiatives
  BY <1>2 DEF Initiatives, listVars
<1>3. CASE UNCHANGED listedVars
  BY <1>3 DEF listedVars, listVars
<1> QED
  BY <1>1, <1>2, <1>3 DEF Next, adminVars

\* The first page loads, or the part of the lists is closed.
LEMMA ListInitially == ASSUME Init PROVE ListInv
<1>1. ASSUME NEW first \in Reads \cup {0}, NEW kind, sale \in Book, search \in Search,
             search.loading = FALSE, search.people = {}, screen = kind,
             pane \in Pane, pane.rows = {}, pane.total = 0, pane.q = AllRows, pane.of = AllRows,
             pane.sent = first,
             \/ /\ kind = "closed" /\ reads = [r \in Reads |-> NoRead]
             \/ /\ kind \in ListPages \cup {"participant", "order"} /\ first \in Reads
                /\ reads = [r \in Reads |-> IF r = first THEN ReadOf(kind, AllRows) ELSE NoRead]
      PROVE  ListInv
  <2> DEFINE new == ReadOf(kind, AllRows)
  <2>1. CASE kind = "closed"
    <3>1. \A r \in Reads : ~InFlight(r)
      BY <1>1, <2>1, ListsGiven DEF InFlight, ListPages
    <3>2. screen \notin ListPages \cup {"participants", "nexus", "participant"}
      BY <1>1, <2>1 DEF ListPages
    <3> QED
      BY <1>1, <2>1, <3>1, <3>2
         DEF ListInv, ListTypes, ReadsWereTrue, ReadsAreOfThePage, ListsWait, SearchWaits,
             AnswersAreInOrder, ListsHoldTickets, PaidRows, ListPages
  <2>2. CASE kind \in ListPages \cup {"participant", "order"} /\ kind # "closed"
    <3>1. new \in Read /\ new # NoRead /\ new.kind = kind /\ new.q = AllRows /\ WasPaid(new)
      <4>1. AllRows \in Query
        BY <1>1, FirstRows
      <4>2. sale \in Book /\ kind \in ListPages \cup {"participant", "order", "participantOrder", "search"}
        BY <1>1, <2>2
      <4> QED
        BY <4>1, <4>2, NewReads
    <3>2. /\ first \in Reads /\ reads = [r \in Reads |-> IF r = first THEN new ELSE NoRead]
      BY <1>1, <2>2
    <3> HIDE DEF new
    <3>3. \A r \in Reads : InFlight(r) => r = first /\ reads[r] = new
      BY <3>2, ListsGiven DEF InFlight
    <3>4. reads \in [Reads -> Read \cup {NoRead}] /\ reads[first] = new /\ InFlight(first)
      BY <3>1, <3>2 DEF InFlight
    <3> QED
      BY <1>1, <2>2, <3>1, <3>3, <3>4, FS_EmptySet
         DEF ListInv, ListTypes, ReadsWereTrue, ReadsAreOfThePage, OfThePage, ListsWait, SearchWaits,
             AnswersAreInOrder, IsLast, ListsHoldTickets, PaidRows
  <2> QED
    BY <1>1, <2>1, <2>2 DEF ListPages
<1>2. ASSUME NEW open \in BOOLEAN, search = [NoSearch EXCEPT !.open = open]
      PROVE  search \in Search /\ search.loading = FALSE /\ search.people = {}
  BY <1>2, ListsGiven DEF NoSearch, Search
<1>3. CASE ListsInit
  <2>1. PICK open \in BOOLEAN : search = [NoSearch EXCEPT !.open = open]
    BY <1>3 DEF ListsInit
  <2>2. PICK o \in Orders, first \in Reads :
          /\ pane = [Mounted(first) EXCEPT !.about = IF screen \in ListPages THEN 0 ELSE o]
          /\ reads = [r \in Reads |-> IF r = first THEN ReadOf(screen, AllRows) ELSE NoRead]
    BY <1>3 DEF ListsInit
  <2>3. sale \in Book /\ screen \in ListPages \cup {"participant", "order"}
    BY <1>3, ListsGiven DEF ListsInit
  <2>4. PICK about \in Orders \cup {0} : pane = [Mounted(first) EXCEPT !.about = about]
    BY <2>2
  <2>5. Mounted(first) \in Pane
    BY FirstRows
  <2>6. /\ pane \in Pane /\ pane.rows = {} /\ pane.total = 0 /\ pane.q = AllRows /\ pane.of = AllRows
        /\ pane.sent = first
    BY <2>4, <2>5 DEF Mounted, Pane
  <2> QED
    BY <1>1, <1>2, <2>1, <2>2, <2>3, <2>6
<1>4. CASE ListsClosed
  <2>1. search = NoSearch /\ sale \in Book /\ Mounted(0) \in Pane
    BY <1>4, FirstRows, ListsGiven DEF ListsClosed
  <2>2. search \in Search /\ search.loading = FALSE /\ search.people = {}
    BY <2>1, ListsGiven DEF NoSearch, Search
  <2> QED
    BY <1>1, <1>4, <2>1, <2>2 DEF ListsClosed, Mounted
<1> QED
  BY <1>3, <1>4 DEF Init

\* The inductive invariant of the lists: types; what reads found paid is paid; reads are of the
\* page that is open, or searches; the read that was sent last asks what the filters are.
THEOREM ListsInvariant == Spec => []ListInv
<1>1. Init => ListInv
  BY ListInitially
<1>2. ListInv /\ [Next]_adminVars => ListInv'
  BY ListSteps, ListsKept, ListAnswersKeep, ListInitiativesKeep
<1> QED
  BY <1>1, <1>2, PTL DEF Spec

\* Types and waiting, the rows of a quiet list, and who is shown as a participant: answers come
\* in any order, each request of a read at its own time, while orders are paid and people enter.
THEOREM TheListsAreSound == Spec => []ListsAreSound
<1>1. ASSUME ListInv PROVE ListsTypeOK
  <2>1. pane.q.page >= 1
    BY <1>1 DEF ListInv, ListTypes, Pane, Query
  <2> QED
    BY <1>1, <2>1 DEF ListInv, ListTypes, ListsWait, SearchWaits, ListsTypeOK
<1>2. ASSUME ListInv PROVE QuietListsAreCurrent
  BY <1>2 DEF ListInv, AnswersAreInOrder, QuietListsAreCurrent, Idle, IsLast
<1>3. ASSUME ListInv PROVE ParticipantsHoldTickets
  BY <1>3 DEF ListInv, ListsHoldTickets, PaidRows, ParticipantsHoldTickets
<1>4. ListInv => ListsAreSound
  BY <1>1, <1>2, <1>3 DEF ListsAreSound
<1> QED
  BY <1>4, ListsInvariant, PTL

-----------------------------------------------------------------------------
(* The catalogue. *)

LEMMA CatalogGiven ==
  /\ OfficialPrice \in [Tiers -> Nat] /\ OfficialPrice["student"] = 0
  /\ NoPass \notin PassRow /\ NoPass \notin Passes /\ NoCall \notin Request
  /\ MaxSold \in Nat /\ Calls \subseteq Nat /\ 1 \in Calls /\ 2 \in Calls
  BY CatalogAssumption DEF ValidInput

\* Rows and drafts have their columns.
LEMMA ColumnsOfRows ==
  /\ \A row \in PassRow :
       DOMAIN row = {"tier", "kind", "name", "description", "price", "total", "sold", "status"}
  /\ \A draft \in Draft :
       DOMAIN draft = {"tier", "kind", "name", "description", "price", "total", "status"}
  /\ \A draft \in Untiered :
       DOMAIN draft = {"kind", "name", "description", "price", "total", "status"}
  /\ \A body \in [status : {"inactive"}] : DOMAIN body = {"status"}
  BY DEF PassRow, Draft, Untiered

LEMMA RowsAreRecords ==
  ASSUME NEW row, row = [f \in DOMAIN row |-> row[f]],
         DOMAIN row = {"tier", "kind", "name", "description", "price", "total", "sold", "status"},
         row.tier \in Tiers \cup {"none"}, row.kind \in {"ticket", "goodie"}, row.name \in Text,
         row.description \in Text, row.price \in Nat, row.total \in Nat, row.sold \in 0 .. MaxSold,
         row.status \in {"active", "inactive"}
  PROVE  row \in PassRow
  BY DEF PassRow

LEMMA DraftsAreRecords ==
  ASSUME NEW row, row = [f \in DOMAIN row |-> row[f]],
         DOMAIN row = {"tier", "kind", "name", "description", "price", "total", "status"},
         row.tier \in Tiers \cup {"none"}, row.kind \in {"ticket", "goodie"}, row.name \in Text,
         row.description \in Text, row.price \in Nat, row.total \in Nat,
         row.status \in {"active", "inactive"}
  PROVE  row \in Draft
  BY DEF Draft

\* What a body may say of the columns of a pass.
Fits(body) ==
  /\ "tier" \in DOMAIN body => body.tier \in Tiers \cup {"none"}
  /\ "kind" \in DOMAIN body => body.kind \in {"ticket", "goodie"}
  /\ "name" \in DOMAIN body => body.name \in Text
  /\ "description" \in DOMAIN body => body.description \in Text
  /\ "price" \in DOMAIN body => body.price \in Nat
  /\ "total" \in DOMAIN body => body.total \in Nat
  /\ "status" \in DOMAIN body => body.status \in {"active", "inactive"}

LEMMA BodiesFit == \A body \in PassBody : Fits(body)
  BY ColumnsOfRows DEF PassBody, Fits, Draft, Untiered

\* A body laid over a row is a row, over a draft a draft.
LEMMA OverlaysFit ==
  ASSUME NEW body, Fits(body)
  PROVE  /\ "sold" \notin DOMAIN body => \A row \in PassRow : Overlay(body, row) \in PassRow
         /\ \A draft \in Draft : Overlay(body, draft) \in Draft
<1>1. ASSUME "sold" \notin DOMAIN body, NEW row \in PassRow PROVE Overlay(body, row) \in PassRow
  <2> DEFINE new == Overlay(body, row)
  <2>1. /\ DOMAIN new = DOMAIN row /\ new = [f \in DOMAIN new |-> new[f]]
        /\ \A f \in DOMAIN row : new[f] = IF f \in DOMAIN body THEN body[f] ELSE row[f]
    BY DEF Overlay, Get
  <2> HIDE DEF new
  <2> QED
    <3>1. /\ new.tier \in Tiers \cup {"none"} /\ new.kind \in {"ticket", "goodie"}
          /\ new.name \in Text /\ new.description \in Text /\ new.price \in Nat /\ new.total \in Nat
          /\ new.sold \in 0 .. MaxSold /\ new.status \in {"active", "inactive"}
      BY <1>1, <2>1, ColumnsOfRows DEF Fits, PassRow
    <3>2. DOMAIN new =
            {"tier", "kind", "name", "description", "price", "total", "sold", "status"}
      BY <1>1, <2>1, ColumnsOfRows
    <3>3. new \in PassRow
      BY <2>1, <3>1, <3>2 DEF PassRow
    <3> QED
      BY <3>3 DEF new
<1>2. ASSUME NEW draft \in Draft PROVE Overlay(body, draft) \in Draft
  <2> DEFINE new == Overlay(body, draft)
  <2>1. /\ DOMAIN new = DOMAIN draft /\ new = [f \in DOMAIN new |-> new[f]]
        /\ \A f \in DOMAIN draft : new[f] = IF f \in DOMAIN body THEN body[f] ELSE draft[f]
    BY DEF Overlay, Get
  <2> HIDE DEF new
  <2> QED
    <3>1. /\ new.tier \in Tiers \cup {"none"} /\ new.kind \in {"ticket", "goodie"}
          /\ new.name \in Text /\ new.description \in Text /\ new.price \in Nat /\ new.total \in Nat
          /\ new.status \in {"active", "inactive"}
      BY <1>2, <2>1, ColumnsOfRows DEF Fits, Draft
    <3>2. DOMAIN new = {"tier", "kind", "name", "description", "price", "total", "status"}
      BY <1>2, <2>1, ColumnsOfRows
    <3>3. new \in Draft
      BY <2>1, <3>1, <3>2 DEF Draft
    <3> QED
      BY <3>3 DEF new
<1> QED
  BY <1>1, <1>2

\* The row that is written, and what of it the check of the body decides.
LEMMA UpdatesFit ==
  ASSUME NEW body, Fits(body), "sold" \notin DOMAIN body, NEW read \in PassRow, NEW row \in PassRow
  PROVE  /\ UpdatedRow(body, read, row) \in PassRow
         /\ Accepts(body, read) =>
              ValidInput(UpdatedRow(body, read, row).price, UpdatedRow(body, read, row).tier)
<1> DEFINE over == Overlay(body, read)
           new == [over EXCEPT !.sold = row.sold, !.description = Get(body, "description", "none")]
<1>1. over \in PassRow /\ over.price = Get(body, "price", read.price)
      /\ over.tier = Get(body, "tier", read.tier)
  BY OverlaysFit, ColumnsOfRows DEF Overlay
<1>2. Get(body, "description", "none") \in Text
  BY DEF Get, Fits, Text
<1> HIDE DEF over
<1>3. new \in PassRow /\ new.price = over.price /\ new.tier = over.tier
  BY <1>1, <1>2 DEF PassRow
<1>4. UpdatedRow(body, read, row) = new
  BY DEF UpdatedRow, over
<1> QED
  BY <1>1, <1>3, <1>4 DEF Accepts

\* A table of passes, with every student pass free.
Fitting(row) == row \in PassRow /\ ValidInput(row.price, row.tier)
SoundTable(table) ==
  /\ table \in [Passes -> PassRow \cup {NoPass}]
  /\ \A i \in Passes : table[i] # NoPass => Fitting(table[i])
Grows(table, new) == \A i \in Passes : table[i] # NoPass => new[i] # NoPass

LEMMA TablesAreChanged ==
  ASSUME NEW table, SoundTable(table), NEW i \in Passes, NEW row, Fitting(row)
  PROVE  SoundTable([table EXCEPT ![i] = row]) /\ Grows(table, [table EXCEPT ![i] = row])
  BY CatalogGiven DEF SoundTable, Fitting, Grows

\* What ensure_festival_pass_products does for one tier.
Tiered(acc) == /\ acc = [passes |-> acc.passes, failed |-> acc.failed]
               /\ SoundTable(acc.passes) /\ acc.failed \in BOOLEAN

LEMMA OfficialRows ==
  ASSUME NEW tier \in Tiers
  PROVE  Fitting([tier |-> tier, kind |-> "ticket", name |-> tier, description |-> tier,
                  price |-> OfficialPrice[tier], total |-> 0, sold |-> 0, status |-> "active"])
<1>1. OfficialPrice[tier] \in Nat /\ 0 \in 0 .. MaxSold
  BY CatalogGiven
<1>2. tier = "student" => OfficialPrice[tier] = 0
  BY CatalogGiven
<1> DEFINE price == OfficialPrice[tier]
<1> HIDE DEF price
<1>3. [tier |-> tier, kind |-> "ticket", name |-> tier, description |-> tier,
       price |-> price, total |-> 0, sold |-> 0, status |-> "active"] \in PassRow
  BY <1>1 DEF PassRow, Text, price
<1> QED
  BY <1>2, <1>3 DEF Fitting, ValidInput, price

LEMMA TiersAreEnsured ==
  ASSUME NEW acc, Tiered(acc), NEW tier \in Tiers
  PROVE  Tiered(EnsureTier(acc, tier)) /\ Grows(acc.passes, EnsureTier(acc, tier).passes)
<1> DEFINE table == acc.passes
           mine == {i \in Passes : table[i] # NoPass /\ table[i].tier = tier}
           free == {i \in Passes : table[i] = NoPass}
           official == [tier |-> tier, kind |-> "ticket", name |-> tier, description |-> tier,
                        price |-> OfficialPrice[tier], total |-> 0, sold |-> 0, status |-> "active"]
           f == CHOOSE i \in free : TRUE
           m == CHOOSE j \in mine : TRUE
           row == table[m]
           wrong == {g \in {"price", "name", "description"} : row[g] # official[g]}
           patch == [g \in wrong |-> official[g]]
           new == UpdatedRow(patch, row, row)
<1>1. SoundTable(table) /\ acc.failed \in BOOLEAN /\ acc = [passes |-> table, failed |-> acc.failed]
  BY DEF Tiered
<1>2. Fitting(official)
  BY OfficialRows
<1>3. mine # {} => m \in Passes /\ row \in PassRow
  BY <1>1 DEF SoundTable, Fitting
<1>4. mine = {} /\ free # {} => f \in Passes
  OBVIOUS
<1>5. mine # {} /\ Accepts(patch, row) => Fitting(new)
  <2> SUFFICES ASSUME mine # {}, Accepts(patch, row) PROVE Fitting(new)
    OBVIOUS
  <2>1. DOMAIN patch \subseteq {"price", "name", "description"} /\ "sold" \notin DOMAIN patch
    OBVIOUS
  <2>2. official.price \in Nat /\ official.name \in Text /\ official.description \in Text
    BY <1>2 DEF Fitting, PassRow
  <2>3. \A g \in DOMAIN patch : patch[g] = official[g]
    OBVIOUS
  <2> HIDE DEF patch, official
  <2>4. Fits(patch)
    BY <2>1, <2>2, <2>3 DEF Fits
  <2> QED
    BY <1>3, <2>1, <2>4, UpdatesFit DEF Fitting
<1> DEFINE made == [acc EXCEPT !.passes[f] = official]
           failing == [acc EXCEPT !.failed = TRUE]
           written == [acc EXCEPT !.passes[m] = new]
<1>6. EnsureTier(acc, tier) \in
        {acc} \cup (IF mine = {} /\ free # {} THEN {made} ELSE {})
              \cup (IF mine # {} THEN {failing} ELSE {})
              \cup (IF mine # {} /\ Accepts(patch, row) THEN {written} ELSE {})
  BY DEF EnsureTier
<1> HIDE DEF mine, free, official, f, m, row, wrong, patch, new
<1>7. /\ made.passes = [table EXCEPT ![f] = official] /\ made.failed = acc.failed
      /\ failing.passes = table /\ failing.failed = TRUE
      /\ written.passes = [table EXCEPT ![m] = new] /\ written.failed = acc.failed
  <2>1. DOMAIN acc = {"passes", "failed"}
    BY <1>1
  <2> QED
    BY <2>1
<1>8. \A a \in {made, failing, written} : a = [passes |-> a.passes, failed |-> a.failed]
  BY <1>1
<1> HIDE DEF made, failing, written
<1>9. mine = {} /\ free # {} => Tiered(made) /\ Grows(table, made.passes)
  BY <1>1, <1>2, <1>4, <1>7, <1>8, TablesAreChanged DEF Tiered
<1>10. Tiered(failing) /\ Grows(table, failing.passes)
  BY <1>1, <1>7, <1>8 DEF Tiered, Grows
<1>11. mine # {} /\ Accepts(patch, row) => Tiered(written) /\ Grows(table, written.passes)
  BY <1>1, <1>3, <1>5, <1>7, <1>8, TablesAreChanged DEF Tiered
<1> QED
  BY <1>6, <1>9, <1>10, <1>11 DEF Grows

\* Whoever reads the event leaves a sound table, with every pass it had.
LEMMA EventsAreGot ==
  ASSUME SoundTable(passes), NEW ok, GetEvent(ok)
  PROVE  SoundTable(passes') /\ Grows(passes, passes')
<1> DEFINE before == [passes |-> passes, failed |-> FALSE]
           first == EnsureTier(before, "student")
           second == EnsureTier(first, "standard")
           third == EnsureTier(second, "vip")
<1>1. Tiered(before) /\ before.passes = passes
  BY DEF Tiered
<1>2. passes' = passes \/ passes' = third.passes
  BY DEF GetEvent, Ensured
<1> HIDE DEF before
<1>3. Tiered(first) /\ Grows(passes, first.passes)
  BY <1>1, TiersAreEnsured DEF Tiers
<1> HIDE DEF first
<1>4. Tiered(second) /\ Grows(first.passes, second.passes)
  BY <1>3, TiersAreEnsured DEF Tiers
<1> HIDE DEF second
<1>5. Tiered(third) /\ Grows(second.passes, third.passes)
  BY <1>4, TiersAreEnsured DEF Tiers
<1> HIDE DEF third
<1> QED
  BY <1>2, <1>3, <1>4, <1>5 DEF Tiered, Grows

\* The state of the catalogue.
SettingsType ==
  [title : Setting, venue : Setting, status : {Empty, "draft", "published"}, saving : BOOLEAN,
   typed : SUBSET {"title", "venue"}, filled : BOOLEAN, blind : BOOLEAN]
CatalogTypes ==
  /\ SoundTable(passes) /\ ordered \subseteq Passes /\ event \in EventRow
  /\ calls \in [Calls -> Request \cup {NoCall}]
  /\ eventId \in BOOLEAN /\ resolving \in BOOLEAN
  /\ catalog \in [rows : SUBSET Entry, loading : BOOLEAN, error : BOOLEAN, current : BOOLEAN]
  /\ editor \in [open : BOOLEAN, editing : Passes \cup {NoPass}, draft : Draft,
                 origin : Passes \cup {NoPass}, saving : BOOLEAN]
  /\ editor.editing = editor.origin
  /\ settings \in SettingsType

\* What a request may ask for, and what it has found.
PassOps == {"save", "close", "patch"}
SoundRequest(call) ==
  /\ call.op \in PassOps =>
       /\ call.id \in Passes /\ call.body \in PassBody
       /\ call.step = "read" => call.found \in PassRow /\ Accepts(call.body, call.found)
  /\ call.op = "create" => call.body \in Draft \cup Untiered
  /\ call.op = "delete" => call.id \in Passes
  /\ call.op = "list" /\ call.step = "done" => call.found \subseteq Entry
  /\ call.op = "write" =>
       /\ call.body \in [title : Setting, venue : Setting]
       /\ call.step = "read" => call.found \in EventRow /\ call.body.title # Empty
  /\ call.op \in {"read", "write", "publish"} /\ call.step = "done" => call.found \in EventRow
RequestsAreSound == \A c \in Calls : calls[c] # NoCall => SoundRequest(calls[c])

\* Until it is typed over, or a form that is not filled is saved, the venue of the event is in
\* the table, in every answer, in a form that is filled and in what is written with a title.
Excused == "venue" \in settings.typed \/ settings.blind
NamesAVenue(call) ==
  /\ call.op = "read" /\ call.step = "done" => call.found.venue # Empty
  /\ call.op = "write" => call.body.title = Empty \/ call.body.venue # Empty
VenuesAreKept ==
  ~Excused =>
    /\ event.venue # Empty
    /\ settings.filled => settings.venue # Empty
    /\ \A c \in Calls : calls[c] # NoCall => NamesAVenue(calls[c])

\* One saving at a time; a page that loads waits for a list.
Saving(c) == calls[c] # NoCall /\ calls[c].op \in {"save", "create"}
SavesAreAlone ==
  /\ editor.saving <=> \E c \in Calls : Saving(c)
  /\ \A c, d \in Calls : Saving(c) /\ Saving(d) => c = d
Listing(c) == calls[c] # NoCall /\ calls[c].op = "list"
ListsAreAwaited == page = "passes" /\ catalog.loading => \E c \in Calls : Listing(c)

\* The cards are those of the table, and so are the lists that are under way, but for a
\* change of the page's own that is done and whose answer will load the list again.
Owed(c) ==
  calls[c] # NoCall /\ calls[c].op \in {"save", "close", "create", "delete"} /\ calls[c].step = "done"
Trusted(c) == Listing(c) /\ calls[c].step = "done" /\ calls[c].fresh /\ calls[c].alone
CardsAreCurrent ==
  ~catalog.error /\ (\A c \in Calls : ~Owed(c)) =>
    /\ catalog.current /\ (\A c \in Calls : ~Listing(c)) => catalog.rows = Rows(passes)
    /\ \A c \in Calls : Trusted(c) => calls[c].found = Rows(passes)

CatalogInv ==
  /\ CatalogTypes /\ RequestsAreSound /\ VenuesAreKept /\ SavesAreAlone /\ ListsAreAwaited
  /\ CardsAreCurrent /\ SoldPassesAreKept

\* Between two states, a call that is not the one a step is about stays: only it may be
\* outdated, or no longer the only list.
Alike(a, b) ==
  /\ a = NoCall <=> b = NoCall
  /\ a # NoCall =>
       /\ b.op = a.op /\ b.id = a.id /\ b.body = a.body /\ b.step = a.step /\ b.found = a.found
       /\ b.alone => a.alone
       /\ b.fresh => a.fresh
Moves(c) ==
  /\ calls' \in [Calls -> Request \cup {NoCall}]
  /\ \A d \in Calls \ {c} : Alike(calls[d], calls'[d])

\* The call goes on: its step and what it has found are new.
GoesOn(c, step, found) ==
  /\ Moves(c) /\ calls[c] # NoCall /\ calls'[c] # NoCall
  /\ calls'[c].op = calls[c].op /\ calls'[c].id = calls[c].id /\ calls'[c].body = calls[c].body
  /\ calls'[c].step = step /\ calls'[c].found = found

Answerable == PassRow \cup EventRow \cup (SUBSET Entry) \cup {NoPass}
CallTable == [Calls -> Request \cup {NoCall}]

LEMMA CallsAreSet ==
  ASSUME CatalogTypes, NEW c \in Calls, NEW new \in Request \cup {NoCall},
         calls' = [calls EXCEPT ![c] = new]
  PROVE  Moves(c) /\ calls'[c] = new
  BY DEF CatalogTypes, Moves, Alike

LEMMA CallsAreLeft ==
  ASSUME CatalogTypes, UNCHANGED calls, NEW c PROVE Moves(c)
  BY DEF CatalogTypes, Moves, Alike

\* A call gets a new step, or a step and an answer.
StepsTo(cs, new, c, step, found) ==
  /\ new \in CallTable /\ new[c] # NoCall
  /\ new[c].op = cs[c].op /\ new[c].id = cs[c].id /\ new[c].body = cs[c].body
  /\ new[c].alone = cs[c].alone /\ new[c].fresh = cs[c].fresh
  /\ new[c].step = step /\ new[c].found = found
  /\ \A d \in Calls \ {c} : new[d] = cs[d]

LEMMA CallsStep ==
  ASSUME NEW cs \in CallTable, NEW c \in Calls, cs[c] # NoCall, NEW found \in Answerable,
         NEW step \in {"sent", "read", "done", "refused"}
  PROVE  /\ StepsTo(cs, [cs EXCEPT ![c].step = step, ![c].found = found], c, step, found)
         /\ StepsTo(cs, [cs EXCEPT ![c].step = step], c, step, cs[c].found)
<1> DEFINE old == cs[c]
           both == [old EXCEPT !.step = step, !.found = found]
           one == [old EXCEPT !.step = step]
<1>1. old \in Request /\ old.found \in Answerable
  BY DEF CallTable, Request, Answerable
<1> HIDE DEF old
<1>2. /\ both \in Request /\ both.op = old.op /\ both.id = old.id /\ both.body = old.body
      /\ both.alone = old.alone /\ both.fresh = old.fresh
      /\ both.step = step /\ both.found = found
  BY <1>1 DEF Request, Answerable
<1>3. /\ one \in Request /\ one.op = old.op /\ one.id = old.id /\ one.body = old.body
      /\ one.alone = old.alone /\ one.fresh = old.fresh
      /\ one.step = step /\ one.found = old.found
  BY <1>1 DEF Request
<1> HIDE DEF both, one
<1>4. ASSUME NEW call \in Request, call.op = cs[c].op, call.id = cs[c].id, call.body = cs[c].body,
             call.alone = cs[c].alone, call.fresh = cs[c].fresh, call.step = step
      PROVE  StepsTo(cs, [cs EXCEPT ![c] = call], c, step, call.found)
  BY <1>4, CatalogGiven DEF StepsTo, CallTable
<1>5. StepsTo(cs, [cs EXCEPT ![c] = both], c, step, found)
  BY <1>2, <1>4 DEF old
<1>6. StepsTo(cs, [cs EXCEPT ![c] = one], c, step, cs[c].found)
  BY <1>3, <1>4 DEF old
<1> QED
  BY <1>5, <1>6 DEF both, one, old

\* Outdated calls are what they were, but not fresh.
LEMMA CallsAreOutdated ==
  ASSUME NEW cs \in CallTable
  PROVE  /\ Outdated(cs) \in CallTable
         /\ \A d \in Calls : /\ Alike(cs[d], Outdated(cs)[d])
                             /\ Outdated(cs)[d] # NoCall => Outdated(cs)[d].fresh = FALSE
<1> SUFFICES ASSUME NEW d \in Calls
             PROVE  /\ Outdated(cs)[d] \in Request \cup {NoCall}
                    /\ Alike(cs[d], Outdated(cs)[d])
                    /\ Outdated(cs)[d] # NoCall => Outdated(cs)[d].fresh = FALSE
  BY DEF Outdated, CallTable
<1>1. Outdated(cs)[d] = IF cs[d] = NoCall THEN NoCall ELSE [cs[d] EXCEPT !.fresh = FALSE]
  BY DEF Outdated
<1>2. CASE cs[d] = NoCall
  BY <1>1, <1>2 DEF Alike
<1>3. CASE cs[d] # NoCall
  <2> DEFINE old == cs[d]
             new == [old EXCEPT !.fresh = FALSE]
  <2>1. old \in Request
    BY <1>3 DEF CallTable
  <2> HIDE DEF old
  <2>2. /\ new \in Request /\ new.op = old.op /\ new.id = old.id /\ new.body = old.body
        /\ new.step = old.step /\ new.found = old.found /\ new.alone = old.alone /\ new.fresh = FALSE
    BY <2>1 DEF Request
  <2>3. Outdated(cs)[d] = new
    BY <1>1, <1>3 DEF old
  <2> HIDE DEF new
  <2> QED
    BY <2>2, <2>3, <1>3, CatalogGiven DEF Alike, old
<1> QED
  BY <1>2, <1>3

LEMMA CallsMayBeOutdated ==
  ASSUME calls \in CallTable, NEW outdated, NEW mid, mid = IF outdated THEN Outdated(calls) ELSE calls,
         NEW c \in Calls, calls[c] # NoCall
  PROVE  /\ mid \in CallTable /\ mid[c] # NoCall
         /\ \A d \in Calls : /\ Alike(calls[d], mid[d])
                             /\ outdated /\ mid[d] # NoCall => mid[d].fresh = FALSE
<1>1. CASE outdated
  <2>1. mid = Outdated(calls)
    BY <1>1
  <2>2. Alike(calls[c], Outdated(calls)[c])
    BY CallsAreOutdated
  <2>3. mid[c] # NoCall
    BY <2>1, <2>2 DEF Alike
  <2> QED
    BY <2>1, <2>3, CallsAreOutdated
<1>2. CASE ~outdated
  <2>1. mid = calls
    BY <1>2
  <2> QED
    BY <1>2, <2>1 DEF Alike
<1> QED
  BY <1>1, <1>2

\* So a step that only moves calls[c] and may outdate the others is one of c's.
LEMMA CallsGoOn ==
  ASSUME CatalogTypes, NEW c \in Calls, NEW mid \in CallTable, calls[c] # NoCall,
         \A d \in Calls : Alike(calls[d], mid[d]),
         NEW step, NEW found, StepsTo(mid, calls', c, step, found)
  PROVE  GoesOn(c, step, found)
  BY DEF CatalogTypes, CallTable, StepsTo, Alike, Moves, GoesOn

LEMMA CallsAreAnswered ==
  ASSUME CatalogTypes, NEW c \in Calls, calls[c] # NoCall, NEW found \in Answerable,
         NEW step \in {"sent", "read", "done", "refused"}, Answer(c, step, found)
  PROVE  GoesOn(c, step, found)
<1>1. calls \in CallTable /\ \A d \in Calls : Alike(calls[d], calls[d])
  BY DEF CatalogTypes, CallTable, Alike
<1>2. StepsTo(calls, calls', c, step, found)
  BY <1>1, CallsStep DEF Answer
<1> QED
  BY <1>1, <1>2, CallsGoOn

\* A new call for a list; the other lists are no longer alone.
LEMMA NewCalls ==
  ASSUME NEW op \in {"list", "save", "create", "close", "delete", "patch", "event", "read", "write",
                     "publish"},
         NEW id \in Passes \cup {NoPass}, NEW body \in Body
  PROVE  /\ Call(op, id, body) \in Request /\ Call(op, id, body) # NoCall
         /\ Call(op, id, body).op = op /\ Call(op, id, body).id = id /\ Call(op, id, body).body = body
         /\ Call(op, id, body).step = "sent"
<1>1. NoPass \in PassRow \cup EventRow \cup (SUBSET Entry) \cup {NoPass}
  OBVIOUS
<1>2. Call(op, id, body) \in Request
  BY <1>1 DEF Call, Request
<1> QED
  BY <1>2, CatalogGiven DEF Call

LEMMA ListsAreAsked ==
  ASSUME CatalogTypes, NEW c \in Calls, NEW known, LoadData(c, known)
  PROVE  /\ Moves(c)
         /\ catalog'.rows = catalog.rows /\ catalog'.current = catalog.current
         /\ catalog' \in [rows : SUBSET Entry, loading : BOOLEAN, error : BOOLEAN, current : BOOLEAN]
         /\ ~known => calls'[c] = NoCall /\ ~catalog'.loading /\ catalog'.error
         /\ known =>
              /\ calls'[c] \in Request /\ calls'[c] # NoCall /\ calls'[c].op = "list"
              /\ calls'[c].step = "sent" /\ ~catalog'.error
              /\ \A d \in Calls : ~Trusted(d)'
<1>1. CASE ~known
  <2>1. Moves(c) /\ calls'[c] = NoCall
    BY <1>1, CallsAreSet DEF LoadData
  <2>2. catalog' = [catalog EXCEPT !.loading = FALSE, !.error = TRUE]
    BY <1>1 DEF LoadData
  <2>3. /\ catalog'.rows = catalog.rows /\ catalog'.current = catalog.current
        /\ ~catalog'.loading /\ catalog'.error
        /\ catalog' \in [rows : SUBSET Entry, loading : BOOLEAN, error : BOOLEAN, current : BOOLEAN]
    BY <2>2 DEF CatalogTypes
  <2> QED
    BY <1>1, <2>1, <2>3
<1>2. CASE known
  <2> DEFINE new == Call("list", NoPass, NoBody)
             asked == [new EXCEPT !.alone = Under("list") \ {c} = {}]
             alone == Under("list") \ {c} = {}
  <2>1. new \in Request /\ new.op = "list" /\ new.step = "sent"
    BY NewCalls DEF Body
  <2> HIDE DEF new
  <2>2. alone \in BOOLEAN
    BY Zenon
  <2> HIDE DEF alone
  <2>3. [new EXCEPT !.alone = alone] \in Request
    BY <2>1, <2>2 DEF Request
  <2>4. [new EXCEPT !.alone = alone].op = "list" /\ [new EXCEPT !.alone = alone].step = "sent"
    BY <2>1, <2>2 DEF Request
  <2>5. asked \in Request /\ asked.op = "list" /\ asked.step = "sent"
    BY <2>3, <2>4 DEF alone
  <2>6. calls' = [d \in Calls |->
            IF d = c THEN asked
            ELSE IF d \in Under("list") THEN [calls[d] EXCEPT !.alone = FALSE] ELSE calls[d]]
    BY <1>2 DEF LoadData, new
  <2> HIDE DEF asked
  <2>7. calls'[c] = asked
    BY <2>6
  <2>8. ASSUME NEW d \in Calls \ {c}
        PROVE  /\ calls'[d] \in Request \cup {NoCall} /\ Alike(calls[d], calls'[d]) /\ ~Trusted(d)'
    <3>1. CASE d \in Under("list")
      <4> DEFINE old == calls[d]
                 lower == [old EXCEPT !.alone = FALSE]
      <4>1. old \in Request /\ old # NoCall
        BY <3>1 DEF CatalogTypes, Under
      <4> HIDE DEF old
      <4>2. /\ lower \in Request /\ lower.op = old.op /\ lower.id = old.id /\ lower.body = old.body
            /\ lower.step = old.step /\ lower.found = old.found /\ lower.fresh = old.fresh
            /\ lower.alone = FALSE
        BY <4>1 DEF Request
      <4>3. calls'[d] = lower
        BY <2>6, <3>1 DEF old
      <4> HIDE DEF lower
      <4> QED
        BY <4>1, <4>2, <4>3, CatalogGiven DEF Alike, Trusted, old
    <3>2. CASE d \notin Under("list")
      <4>1. calls'[d] = calls[d]
        BY <2>6, <3>2
      <4> QED
        BY <3>2, <4>1 DEF Alike, Trusted, Listing, Under, CatalogTypes
    <3> QED
      BY <3>1, <3>2
  <2>9. calls' \in CallTable
    <3>1. calls' = [d \in Calls |-> calls'[d]]
      BY <2>6
    <3> QED
      BY <2>5, <2>7, <2>8, <3>1 DEF CallTable
  <2>10. catalog' = [catalog EXCEPT !.loading = TRUE, !.error = FALSE]
    BY <1>2 DEF LoadData
  <2>11. /\ catalog'.rows = catalog.rows /\ catalog'.current = catalog.current /\ ~catalog'.error
         /\ catalog' \in [rows : SUBSET Entry, loading : BOOLEAN, error : BOOLEAN, current : BOOLEAN]
    BY <2>10 DEF CatalogTypes
  <2>12. Moves(c)
    BY <2>8, <2>9 DEF Moves, CallTable
  <2>13. ~Trusted(c)'
    BY <2>5, <2>7 DEF Trusted
  <2> QED
    BY <1>2, <2>5, <2>7, <2>8, <2>11, <2>12, <2>13, CatalogGiven
<1> QED
  BY <1>1, <1>2

\* What a step that moves one call has to show for each part of the invariant.
LEMMA RequestsStaySound ==
  ASSUME RequestsAreSound, NEW c \in Calls, Moves(c), calls'[c] # NoCall => SoundRequest(calls'[c])
  PROVE  RequestsAreSound'
<1> SUFFICES ASSUME NEW d \in Calls, calls'[d] # NoCall PROVE SoundRequest(calls'[d])
  BY DEF RequestsAreSound
<1>1. CASE d # c
  <2>1. Alike(calls[d], calls'[d]) /\ SoundRequest(calls[d])
    BY <1>1 DEF Moves, Alike, RequestsAreSound
  <2> QED
    BY <2>1 DEF Alike, SoundRequest, PassOps
<1> QED
  BY <1>1

LEMMA VenuesStay ==
  ASSUME VenuesAreKept, NEW c \in Calls, Moves(c), Excused => Excused',
         ~Excused' /\ event.venue # Empty =>
           /\ event'.venue # Empty
           /\ settings'.filled => settings'.venue # Empty
           /\ calls'[c] # NoCall => NamesAVenue(calls'[c])
  PROVE  VenuesAreKept'
<1> SUFFICES ASSUME ~Excused'
             PROVE  /\ event'.venue # Empty
                    /\ settings'.filled => settings'.venue # Empty
                    /\ \A d \in Calls : calls'[d] # NoCall => NamesAVenue(calls'[d])
  BY DEF VenuesAreKept
<1>1. ASSUME NEW d \in Calls \ {c}, calls'[d] # NoCall PROVE NamesAVenue(calls'[d])
  BY <1>1 DEF Moves, Alike, NamesAVenue, VenuesAreKept
<1> QED
  BY <1>1 DEF VenuesAreKept

LEMMA SavesStayAlone ==
  ASSUME SavesAreAlone, NEW c \in Calls, Moves(c), Saving(c)' <=> Saving(c),
         editor'.saving = editor.saving
  PROVE  SavesAreAlone'
<1>1. \A d \in Calls : Saving(d)' <=> Saving(d)
  BY DEF Moves, Alike, Saving
<1> QED
  BY <1>1 DEF SavesAreAlone

LEMMA ListsStayAwaited ==
  ASSUME ListsAreAwaited, NEW c \in Calls, Moves(c), UNCHANGED page,
         catalog'.loading => Listing(c)' \/ (catalog.loading /\ ~Listing(c))
  PROVE  ListsAreAwaited'
<1>1. \A d \in Calls \ {c} : Listing(d) => Listing(d)'
  BY DEF Moves, Alike, Listing
<1> QED
  BY <1>1 DEF ListsAreAwaited

LEMMA CardsStay ==
  ASSUME CardsAreCurrent, NEW c \in Calls, Moves(c), UNCHANGED passes,
         catalog.error => catalog'.error, catalog'.current => catalog.current,
         catalog'.rows = catalog.rows, Owed(c) => Owed(c)', Listing(c) => Listing(c)',
         Trusted(c)' => calls'[c].found = Rows(passes) \/ (Trusted(c) /\ calls'[c].found = calls[c].found)
  PROVE  CardsAreCurrent'
<1>1. \A d \in Calls \ {c} :
        /\ Owed(d) => Owed(d)'
        /\ Listing(d) => Listing(d)'
        /\ Trusted(d)' => Trusted(d) /\ calls'[d].found = calls[d].found
  BY DEF Moves, Alike, Owed, Listing, Trusted
<1>2. Rows(passes)' = Rows(passes)
  BY DEF Rows
<1> QED
  BY <1>1, <1>2 DEF CardsAreCurrent

LEMMA CardsAreCovered ==
  ASSUME \/ catalog'.error
         \/ \E c \in Calls : Owed(c)'
         \/ /\ \A c \in Calls : ~Trusted(c)'
            /\ ~catalog'.current \/ \E c \in Calls : Listing(c)'
  PROVE  CardsAreCurrent'
  BY DEF CardsAreCurrent

\* The editor: what is typed is a draft, and what is sent is the body of a pass.
LEMMA DraftsAreTyped ==
  /\ EmptyDraft \in Draft
  /\ \A pass \in PassRow : DraftOf(pass) \in Draft
  /\ \A draft \in Draft, change \in Changes : Typed(draft, change) \in Draft
  /\ \A draft \in Draft : BodyOf(draft) \in Draft \cup Untiered
<1>1. EmptyDraft \in Draft
  BY DEF EmptyDraft, Draft, Text, Tiers
<1>2. DOMAIN EmptyDraft = {"tier", "kind", "name", "description", "price", "total", "status"}
  BY <1>1, ColumnsOfRows
<1>3. ASSUME NEW pass \in PassRow PROVE DraftOf(pass) \in Draft
  BY <1>2 DEF PassRow, Draft, DraftOf
<1>4. ASSUME NEW change \in Changes PROVE Fits(change)
  <2> DEFINE typed == Overlay(change, EmptyDraft)
  <2>1. typed \in Draft
    BY CatalogAssumption
  <2>2. \A f \in DOMAIN EmptyDraft : f \in DOMAIN change => typed[f] = change[f]
    BY DEF Overlay, Get
  <2> HIDE DEF typed
  <2> QED
    BY <1>2, <2>1, <2>2 DEF Fits, Draft
<1>5. ASSUME NEW draft \in Draft, NEW change \in Changes PROVE Typed(draft, change) \in Draft
  <2> DEFINE next == Overlay(change, draft)
  <2>1. next \in Draft
    BY <1>4, OverlaysFit
  <2>2. Typed(draft, change) = next \/ Typed(draft, change) = [next EXCEPT !.price = 0]
    BY DEF Typed
  <2> HIDE DEF next
  <2> QED
    BY <2>1, <2>2 DEF Draft
<1>6. ASSUME NEW draft \in Draft PROVE BodyOf(draft) \in Draft \cup Untiered
  <2>1. CASE draft.tier = "none"
    <3>1. BodyOf(draft) = [f \in DOMAIN draft \ {"tier"} |-> draft[f]]
      BY <2>1 DEF BodyOf
    <3>2. DOMAIN draft \ {"tier"} = {"kind", "name", "description", "price", "total", "status"}
      BY ColumnsOfRows
    <3>3. BodyOf(draft) \in Untiered
      BY <3>1, <3>2 DEF Draft, Untiered
    <3> QED
      BY <3>3
  <2>2. CASE draft.tier # "none"
    <3>1. BodyOf(draft) =
            [f \in DOMAIN draft |-> IF f = "price" /\ draft.tier = "student" THEN 0 ELSE draft[f]]
      BY <2>2 DEF BodyOf
    <3>2. DOMAIN draft = {"tier", "kind", "name", "description", "price", "total", "status"}
      BY ColumnsOfRows
    <3>3. BodyOf(draft) \in Draft
      BY <3>1, <3>2 DEF Draft
    <3> QED
      BY <3>3
  <2> QED
    BY <2>1, <2>2
<1> QED
  BY <1>1, <1>3, <1>5, <1>6

\* The forms of the two pages.
EditorType ==
  [open : BOOLEAN, editing : Passes \cup {NoPass}, draft : Draft, origin : Passes \cup {NoPass},
   saving : BOOLEAN]

\* Steps of the page that send nothing.
LEMMA EditingIsKept ==
  ASSUME CatalogInv, UNCHANGED <<page, catalogServer, calls, eventId, resolving, catalog>>,
         editor'.saving = editor.saving, CatalogTypes', VenuesAreKept'
  PROVE  CatalogInv'
  BY DEF CatalogInv, catalogServer, RequestsAreSound, SavesAreAlone, Saving, ListsAreAwaited, Listing,
         CardsAreCurrent, Owed, Trusted, Rows, SoldPassesAreKept

LEMMA CardsAreRows ==
  ASSUME CatalogTypes, NEW row \in Cards
  PROVE  row \in Entry /\ row.id \in Passes /\ row.pass \in PassRow
  BY DEF CatalogTypes, Cards, Shown, Entry

LEMMA SameSettings ==
  ASSUME CatalogInv, UNCHANGED settings
  PROVE  /\ settings' \in SettingsType /\ settings'.venue = settings.venue
         /\ settings'.filled = settings.filled /\ (Excused => Excused')
  BY DEF CatalogInv, CatalogTypes, SettingsType, Excused

LEMMA EditorIsKept ==
  ASSUME CatalogInv, UNCHANGED page,
         \/ OpenCreate \/ Cancel \/ \E change \in Changes : Type(change)
         \/ \E row \in Cards : OpenEdit(row)
  PROVE  CatalogInv'
<1>1. CatalogTypes /\ editor \in EditorType /\ editor.editing = editor.origin
  BY DEF CatalogInv, CatalogTypes, EditorType
<1>2. UNCHANGED <<catalogServer, calls, eventId, resolving, catalog, settings>>
  BY DEF OpenCreate, Cancel, Type, OpenEdit
<1>3. editor' \in EditorType /\ editor'.editing = editor'.origin /\ editor'.saving = editor.saving
  <2>1. CASE OpenCreate
    <3>1. /\ NoPass \in Passes \cup {NoPass} /\ EmptyDraft \in Draft
          /\ editor' = [editor EXCEPT !.open = TRUE, !.editing = NoPass, !.draft = EmptyDraft,
                                      !.origin = NoPass]
      BY <2>1, DraftsAreTyped DEF OpenCreate
    <3> QED
      BY <1>1, <3>1 DEF EditorType
  <2>2. CASE Cancel
    <3>1. editor' = [editor EXCEPT !.open = FALSE]
      BY <2>2 DEF Cancel
    <3> QED
      BY <1>1, <3>1 DEF EditorType
  <2>3. ASSUME NEW change \in Changes, Type(change)
        PROVE  editor' \in EditorType /\ editor'.editing = editor'.origin /\ editor'.saving = editor.saving
    <3>1. editor' = [editor EXCEPT !.draft = Typed(editor.draft, change)]
      BY <2>3 DEF Type
    <3>2. Typed(editor.draft, change) \in Draft
      BY <1>1, DraftsAreTyped DEF EditorType
    <3> QED
      BY <1>1, <3>1, <3>2 DEF EditorType
  <2>4. ASSUME NEW row \in Cards, OpenEdit(row)
        PROVE  editor' \in EditorType /\ editor'.editing = editor'.origin /\ editor'.saving = editor.saving
    <3>1. editor' = [editor EXCEPT !.open = TRUE, !.editing = row.id, !.draft = DraftOf(row.pass),
                                   !.origin = row.id]
      BY <2>4 DEF OpenEdit
    <3>2. row.id \in Passes /\ DraftOf(row.pass) \in Draft
      BY <1>1, CardsAreRows, DraftsAreTyped
    <3> QED
      BY <1>1, <3>1, <3>2 DEF EditorType
  <2> QED
    BY <2>1, <2>2, <2>3, <2>4
<1>4. CatalogTypes' /\ VenuesAreKept'
  <2>1. CatalogTypes'
    BY <1>1, <1>2, <1>3 DEF CatalogTypes, EditorType, catalogServer
  <2>2. VenuesAreKept'
    BY <1>2, SameSettings DEF CatalogInv, VenuesAreKept, catalogServer
  <2> QED
    BY <2>1, <2>2
<1> QED
  BY <1>2, <1>3, <1>4, EditingIsKept

LEMMA FieldsAreKept ==
  ASSUME CatalogInv, UNCHANGED page, NEW field \in {"title", "venue"}, NEW text \in {Empty, "own"},
         TypeSetting(field, text)
  PROVE  CatalogInv'
<1>1. CatalogTypes
  BY DEF CatalogInv
<1>2. settings' = [settings EXCEPT ![field] = text, !.typed = settings.typed \cup {field}]
  BY DEF TypeSetting
<1>3. /\ settings' \in SettingsType
      /\ field # "venue" => settings'.venue = settings.venue /\ settings'.filled = settings.filled
      /\ Excused \/ field = "venue" => Excused'
  <2>1. settings \in SettingsType
    BY <1>1 DEF CatalogTypes
  <2>2. text \in Setting /\ settings.typed \cup {field} \in SUBSET {"title", "venue"}
    BY <2>1 DEF Setting, SettingsType
  <2>3. CASE field = "title"
    BY <1>2, <2>1, <2>2, <2>3 DEF SettingsType, Excused
  <2>4. CASE field = "venue"
    BY <1>2, <2>1, <2>2, <2>4 DEF SettingsType, Excused
  <2> QED
    BY <2>3, <2>4
<1>4. UNCHANGED <<catalogServer, calls, eventId, resolving, catalog, editor>>
  BY DEF TypeSetting, catalogPage
<1>5. CatalogTypes' /\ VenuesAreKept'
  <2>1. CatalogTypes'
    BY <1>1, <1>3, <1>4 DEF CatalogTypes, catalogServer
  <2>2. CASE Excused'
    BY <2>1, <2>2 DEF VenuesAreKept
  <2>3. CASE ~Excused'
    BY <2>1, <1>3, <1>4, <2>3 DEF CatalogInv, VenuesAreKept, catalogServer
  <2> QED
    BY <2>1, <2>2, <2>3
<1> QED
  BY <1>4, <1>5, EditingIsKept

\* Requests that are sent.  Only one of the editor's own starts a saving.
LEMMA SendsAreKept ==
  ASSUME CatalogInv, UNCHANGED <<page, catalogServer, eventId, resolving, catalog>>, NEW c \in Calls,
         NEW op \in {"save", "create", "close", "delete", "patch", "write", "publish"},
         NEW id \in Passes \cup {NoPass}, NEW body \in Body, Send(c, Call(op, id, body)),
         op \in PassOps => id \in Passes /\ body \in PassBody,
         op = "create" => body \in Draft \cup Untiered,
         op = "delete" => id \in Passes,
         op = "write" => /\ body \in [title : Setting, venue : Setting]
                         /\ ~Excused' => body.title = Empty \/ body.venue # Empty,
         IF op \in {"save", "create"}
         THEN ~editor.saving /\ editor' = [editor EXCEPT !.saving = TRUE]
         ELSE editor' = editor,
         settings' \in SettingsType, settings'.venue = settings.venue,
         settings'.filled = settings.filled, Excused => Excused'
  PROVE  CatalogInv'
<1> DEFINE new == Call(op, id, body)
<1>1. /\ new \in Request /\ new # NoCall /\ new.op = op /\ new.id = id /\ new.body = body
      /\ new.step = "sent"
  BY NewCalls
<1>2. calls[c] = NoCall /\ calls' = [calls EXCEPT ![c] = new]
  BY DEF Send, Free
<1> HIDE DEF new
<1>3. CatalogTypes
  BY DEF CatalogInv
<1>4. Moves(c) /\ calls'[c] = new
  BY <1>1, <1>2, <1>3, CallsAreSet
<1>5. /\ editor' \in [open : BOOLEAN, editing : Passes \cup {NoPass}, draft : Draft,
                      origin : Passes \cup {NoPass}, saving : BOOLEAN]
      /\ editor'.editing = editor'.origin
  <2>1. CASE editor' = editor
    BY <1>3, <2>1 DEF CatalogTypes
  <2>2. CASE editor' = [editor EXCEPT !.saving = TRUE]
    BY <1>3, <2>2 DEF CatalogTypes
  <2> QED
    BY <2>1, <2>2
<1>6. Excused \/ (settings.filled => settings.venue # Empty)
  BY DEF CatalogInv, VenuesAreKept
<1>7. UNCHANGED <<passes, ordered, event>>
  BY DEF catalogServer
<1>8. CatalogTypes'
  BY <1>3, <1>4, <1>5, <1>7 DEF CatalogTypes, Moves
<1>9. RequestsAreSound'
  <2>1. SoundRequest(new)
    BY <1>1 DEF SoundRequest, PassOps
  <2> QED
    BY <1>4, <2>1, RequestsStaySound DEF CatalogInv
<1>10. VenuesAreKept'
  BY <1>1, <1>4, <1>6, <1>7, VenuesStay DEF CatalogInv, NamesAVenue, VenuesAreKept
<1>11. SavesAreAlone'
  <2>1. CASE op \in {"save", "create"}
    <3>1. editor'.saving = TRUE /\ ~editor.saving
      BY <2>1, <1>3 DEF CatalogTypes
    <3>2. \A d \in Calls : Saving(d)' <=> d = c
      BY <3>1, <2>1, <1>1, <1>4 DEF CatalogInv, SavesAreAlone, Saving, Moves, Alike
    <3> QED
      BY <3>1, <3>2 DEF SavesAreAlone
  <2>2. CASE op \notin {"save", "create"}
    <3>1. ~Saving(c)' /\ ~Saving(c) /\ editor' = editor
      BY <2>2, <1>1, <1>2, <1>4 DEF Saving
    <3> QED
      BY <3>1, <1>4, SavesStayAlone DEF CatalogInv
  <2> QED
    BY <2>1, <2>2
<1>12. ListsAreAwaited'
  <2>1. ~Listing(c)
    BY <1>2 DEF Listing
  <2> QED
    BY <2>1, <1>4, ListsStayAwaited DEF CatalogInv
<1>13. CardsAreCurrent'
  <2>1. ~Listing(c) /\ ~Owed(c) /\ ~Trusted(c)'
    BY <1>1, <1>2, <1>4 DEF Listing, Owed, Trusted
  <2> QED
    BY <2>1, <1>4, <1>7, CardsStay DEF CatalogInv
<1>14. SoldPassesAreKept'
  BY <1>7 DEF CatalogInv, SoldPassesAreKept
<1> QED
  BY <1>8, <1>9, <1>10, <1>11, <1>12, <1>13, <1>14 DEF CatalogInv

LEMMA SaveDraftIsKept ==
  ASSUME CatalogInv, UNCHANGED page, NEW c \in Calls, SaveDraft(c)
  PROVE  CatalogInv'
<1> DEFINE op == IF editor.editing = NoPass THEN "create" ELSE "save"
           body == BodyOf(editor.draft)
<1>1. editor.draft \in Draft /\ editor.editing \in Passes \cup {NoPass}
  BY DEF CatalogInv, CatalogTypes
<1>2. body \in Draft \cup Untiered
  BY <1>1, DraftsAreTyped
<1>3. /\ ~editor.saving /\ Send(c, Call(op, editor.editing, body))
      /\ editor' = [editor EXCEPT !.saving = TRUE]
      /\ UNCHANGED <<catalogServer, eventId, resolving, catalog, settings>>
  BY DEF SaveDraft
<1>4. op \in {"save", "create"} /\ (op = "save" => editor.editing \in Passes)
  BY <1>1
<1> HIDE DEF op, body
<1>5. body \in PassBody /\ body \in Body
  BY <1>2 DEF PassBody, Body
<1> QED
  BY <1>1, <1>2, <1>3, <1>4, <1>5, SameSettings, SendsAreKept DEF PassOps

LEMMA ChangesAreSent ==
  ASSUME CatalogInv, UNCHANGED page, NEW c \in Calls,
         \/ \E row \in Cards : CloseSales(c, row) \/ RemovePass(c, row)
         \/ \E i \in Passes, change \in Changes : OtherSaves(c, i, change)
  PROVE  CatalogInv'
<1>1. CatalogTypes
  BY DEF CatalogInv
<1>2. ASSUME NEW row \in Cards, CloseSales(c, row) PROVE CatalogInv'
  <2> DEFINE body == [status |-> "inactive"]
  <2>1. row.id \in Passes /\ body \in PassBody /\ body \in Body
    BY <1>1, CardsAreRows DEF PassBody, Body
  <2>2. /\ Send(c, Call("close", row.id, body))
        /\ UNCHANGED <<catalogServer, eventId, resolving, catalog, editor, settings>>
    BY <1>2 DEF CloseSales, catalogPage
  <2> HIDE DEF body
  <2> QED
    BY <2>1, <2>2, SameSettings, SendsAreKept DEF PassOps
<1>3. ASSUME NEW row \in Cards, RemovePass(c, row) PROVE CatalogInv'
  <2>1. row.id \in Passes /\ NoBody \in Body
    BY <1>1, CardsAreRows DEF Body
  <2>2. /\ Send(c, Call("delete", row.id, NoBody))
        /\ UNCHANGED <<catalogServer, eventId, resolving, catalog, editor, settings>>
    BY <1>3 DEF RemovePass, catalogPage
  <2> QED
    BY <2>1, <2>2, SameSettings, SendsAreKept DEF PassOps
<1>4. ASSUME NEW i \in Passes, NEW change \in Changes, OtherSaves(c, i, change) PROVE CatalogInv'
  <2> DEFINE body == BodyOf(Typed(DraftOf(passes[i]), change))
  <2>1. passes[i] \in PassRow
    BY <1>1, <1>4 DEF CatalogTypes, SoundTable, Fitting, OtherSaves
  <2>2. body \in Draft \cup Untiered
    BY <2>1, DraftsAreTyped
  <2>3. /\ Send(c, Call("patch", i, body))
        /\ UNCHANGED <<catalogServer, eventId, resolving, catalog, editor, settings>>
    BY <1>4 DEF OtherSaves, catalogPage
  <2> HIDE DEF body
  <2>4. body \in PassBody /\ body \in Body
    BY <2>2 DEF PassBody, Body
  <2> QED
    BY <2>3, <2>4, SameSettings, SendsAreKept DEF PassOps
<1> QED
  BY <1>2, <1>3, <1>4

LEMMA SettingsAreSent ==
  ASSUME CatalogInv, UNCHANGED page, NEW c \in Calls, SaveSettings(c) \/ Publish(c)
  PROVE  CatalogInv'
<1>1. CASE SaveSettings(c)
  <2> DEFINE body == [title |-> settings.title, venue |-> settings.venue]
  <2>1. body \in [title : Setting, venue : Setting] /\ body \in Body
    BY DEF CatalogInv, CatalogTypes, SettingsType, Body
  <2> DEFINE blind == settings.blind \/ (~settings.filled /\ settings.title # Empty)
  <2>2. settings \in SettingsType /\ blind \in BOOLEAN
    BY DEF CatalogInv, CatalogTypes, SettingsType
  <2>3. /\ Send(c, Call("write", NoPass, body))
        /\ settings' = [settings EXCEPT !.saving = TRUE, !.blind = blind]
        /\ UNCHANGED <<catalogServer, eventId, resolving, catalog, editor>>
    BY <1>1 DEF SaveSettings, catalogPage
  <2>4. /\ settings' \in SettingsType /\ settings'.venue = settings.venue
        /\ settings'.filled = settings.filled /\ settings'.typed = settings.typed
        /\ settings'.blind = blind
    BY <2>2, <2>3 DEF SettingsType
  <2>5. Excused => Excused'
    BY <2>4 DEF Excused
  <2>6. ~Excused' => body.title = Empty \/ body.venue # Empty
    BY <2>4, <2>5 DEF CatalogInv, VenuesAreKept, Excused
  <2> HIDE DEF body
  <2> QED
    BY <2>1, <2>3, <2>4, <2>5, <2>6, SendsAreKept DEF PassOps
<1>2. CASE Publish(c)
  <2>1. /\ Send(c, Call("publish", NoPass, NoBody))
        /\ UNCHANGED <<catalogServer, eventId, resolving, catalog, editor, settings>>
    BY <1>2 DEF Publish, catalogPage
  <2> QED
    BY <2>1, SameSettings, SendsAreKept DEF PassOps, Body
<1> QED
  BY <1>1, <1>2

\* What the server does with a request.
CatalogType == [rows : SUBSET Entry, loading : BOOLEAN, error : BOOLEAN, current : BOOLEAN]

LEMMA ServingIsKept ==
  ASSUME CatalogInv, UNCHANGED <<page, eventId, resolving, editor, settings>>, NEW c \in Calls,
         NEW step, NEW found, GoesOn(c, step, found),
         SoundTable(passes'), ordered' \subseteq Passes, event' \in EventRow, SoldPassesAreKept',
         catalog' \in CatalogType, catalog'.loading = catalog.loading,
         SoundRequest(calls'[c]),
         ~Excused /\ event.venue # Empty /\ NamesAVenue(calls[c]) =>
           event'.venue # Empty /\ NamesAVenue(calls'[c]),
         CardsAreCurrent'
  PROVE  CatalogInv'
<1>1. Moves(c) /\ (Saving(c)' <=> Saving(c)) /\ (Listing(c)' <=> Listing(c)) /\ calls[c] # NoCall
  BY DEF GoesOn, Saving, Listing
<1>2. CatalogTypes'
  BY <1>1 DEF CatalogInv, CatalogTypes, CatalogType, Moves
<1>3. RequestsAreSound'
  BY <1>1, RequestsStaySound DEF CatalogInv
<1>4. VenuesAreKept'
  BY <1>1, VenuesStay DEF CatalogInv, VenuesAreKept, Excused
<1>5. SavesAreAlone'
  BY <1>1, SavesStayAlone DEF CatalogInv
<1>6. ListsAreAwaited'
  BY <1>1, ListsStayAwaited DEF CatalogInv
<1> QED
  BY <1>2, <1>3, <1>4, <1>5, <1>6 DEF CatalogInv

\* Steps that change no pass.
LEMMA ReadingIsKept ==
  ASSUME CatalogInv, UNCHANGED <<page, eventId, resolving, editor, settings>>, NEW c \in Calls,
         calls[c].step \in {"sent", "read"},
         NEW step, NEW found, GoesOn(c, step, found), UNCHANGED <<passes, ordered, catalog>>,
         event' \in EventRow, SoundRequest(calls'[c]),
         ~Excused /\ event.venue # Empty /\ NamesAVenue(calls[c]) =>
           event'.venue # Empty /\ NamesAVenue(calls'[c]),
         Trusted(c)' => found = Rows(passes)
  PROVE  CatalogInv'
<1>1. Moves(c) /\ calls'[c].found = found /\ (Listing(c)' <=> Listing(c)) /\ ~Owed(c)
  BY DEF GoesOn, Listing, Owed
<1>2. CardsAreCurrent'
  BY <1>1, CardsStay DEF CatalogInv
<1>3. SoundTable(passes') /\ SoldPassesAreKept' /\ ordered' \subseteq Passes /\ catalog' \in CatalogType
  BY DEF CatalogInv, CatalogTypes, CatalogType, SoldPassesAreKept
<1> QED
  BY <1>2, <1>3, ServingIsKept

LEMMA RowsAreEntries ==
  ASSUME CatalogTypes PROVE Rows(passes) \in SUBSET Entry
  BY DEF CatalogTypes, SoundTable, Fitting, Rows, Entry

LEMMA ListTicketTypesIsKept ==
  ASSUME CatalogInv, UNCHANGED page, NEW c \in Calls, ListTicketTypes(c)
  PROVE  CatalogInv'
<1>1. CatalogTypes /\ calls \in CallTable /\ calls[c] # NoCall /\ calls[c] \in Request
      /\ calls[c].op = "list" /\ calls[c].step = "sent"
  BY DEF CatalogInv, CatalogTypes, CallTable, ListTicketTypes, Sent, Under
<1> DEFINE rows == Rows(passes)
           old == calls[c]
           new == [old EXCEPT !.step = "done", !.found = rows, !.fresh = TRUE]
<1>2. rows \in SUBSET Entry
  BY <1>1, RowsAreEntries
<1>3. calls' = [calls EXCEPT ![c] = new]
  BY DEF ListTicketTypes
<1> HIDE DEF rows, old
<1>4. new \in Request /\ new.op = old.op /\ new.id = old.id /\ new.body = old.body
      /\ new.step = "done" /\ new.found = rows
  BY <1>1, <1>2 DEF Request, old
<1> HIDE DEF new
<1>5. Moves(c) /\ calls'[c] = new
  BY <1>1, <1>3, <1>4, CallsAreSet
<1>6. GoesOn(c, "done", rows) /\ calls'[c].op = "list" /\ calls'[c].step = "done" /\ calls'[c].found = rows
  BY <1>1, <1>4, <1>5, CatalogGiven DEF GoesOn, old
<1>7. SoundRequest(calls'[c]) /\ NamesAVenue(calls'[c])
  BY <1>2, <1>6 DEF SoundRequest, NamesAVenue, PassOps
<1>8. UNCHANGED <<passes, ordered, event, catalog, eventId, resolving, editor, settings>>
  BY DEF ListTicketTypes, catalogServer, catalogPage
<1>9. event \in EventRow
  BY <1>1 DEF CatalogTypes
<1> QED
  BY <1>1, <1>6, <1>7, <1>8, <1>9, ReadingIsKept DEF rows
LEMMA ReadsOfPassesAreKept ==
  ASSUME CatalogInv, UNCHANGED page, NEW c \in Calls, ReadPass(c) \/ ReadDeleted(c)
  PROVE  CatalogInv'
<1>1. CatalogTypes /\ calls[c] # NoCall /\ calls[c] \in Request /\ SoundRequest(calls[c])
      /\ calls[c].op \in PassOps \cup {"delete"} /\ calls[c].step = "sent"
  BY DEF CatalogInv, CatalogTypes, ReadPass, ReadDeleted, Sent, Under, PassOps, RequestsAreSound
<1>2. UNCHANGED <<passes, ordered, event, catalog, eventId, resolving, editor, settings>>
  BY DEF ReadPass, ReadDeleted, catalogServer, catalogPage
<1>3. event \in EventRow /\ calls[c].id \in Passes
  BY <1>1 DEF CatalogTypes, SoundRequest
<1> DEFINE row == passes[calls[c].id]
<1>4. row # NoPass => row \in PassRow
  BY <1>1, <1>3 DEF CatalogTypes, SoundTable, Fitting
<1>5. \/ Answer(c, "refused", NoPass)
      \/ /\ Answer(c, "read", row) /\ row # NoPass
         /\ calls[c].op \in PassOps => Accepts(calls[c].body, row)
  <2>1. CASE ReadPass(c)
    BY <2>1 DEF ReadPass
  <2>2. CASE ReadDeleted(c)
    <3>1. calls[c].op = "delete"
      BY <2>2 DEF ReadDeleted, Sent, Under
    <3> QED
      BY <2>2, <3>1 DEF ReadDeleted, PassOps
  <2> QED
    BY <2>1, <2>2
<1> HIDE DEF row
<1>6. CASE Answer(c, "refused", NoPass)
  <2>1. GoesOn(c, "refused", NoPass)
    BY <1>1, <1>6, CallsAreAnswered DEF Answerable
  <2>2. SoundRequest(calls'[c]) /\ NamesAVenue(calls'[c]) /\ ~Trusted(c)'
    BY <1>1, <2>1 DEF GoesOn, SoundRequest, NamesAVenue, Trusted, PassOps
  <2> QED
    BY <1>1, <1>2, <1>3, <2>1, <2>2, ReadingIsKept
<1>7. CASE Answer(c, "read", row) /\ row # NoPass
           /\ (calls[c].op \in PassOps => Accepts(calls[c].body, row))
  <2>1. GoesOn(c, "read", row)
    BY <1>1, <1>4, <1>7, CallsAreAnswered DEF Answerable
  <2>2. SoundRequest(calls'[c]) /\ NamesAVenue(calls'[c]) /\ ~Trusted(c)'
    BY <1>1, <1>4, <1>7, <2>1 DEF GoesOn, SoundRequest, NamesAVenue, Trusted, PassOps
  <2> QED
    BY <1>1, <1>2, <1>3, <2>1, <2>2, ReadingIsKept
<1> QED
  BY <1>5, <1>6, <1>7

LEMMA UpdateEventIsKept ==
  ASSUME CatalogInv, UNCHANGED page, NEW c \in Calls, UpdateEvent(c)
  PROVE  CatalogInv'
<1>1. CatalogTypes /\ calls[c] # NoCall /\ calls[c] \in Request /\ SoundRequest(calls[c])
      /\ calls[c].op = "write" /\ calls[c].step = "sent"
  BY DEF CatalogInv, CatalogTypes, UpdateEvent, Sent, Under, RequestsAreSound
<1>2. UNCHANGED <<passes, ordered, event, catalog, eventId, resolving, editor, settings>>
  BY DEF UpdateEvent, catalogServer, catalogPage
<1>3. event \in EventRow
  BY <1>1 DEF CatalogTypes
<1>4. \/ Answer(c, "refused", NoPass)
      \/ Answer(c, "read", event) /\ calls[c].body.title # Empty
  BY DEF UpdateEvent
<1>5. \/ GoesOn(c, "refused", NoPass)
      \/ GoesOn(c, "read", event) /\ calls[c].body.title # Empty
  BY <1>1, <1>3, <1>4, CallsAreAnswered DEF Answerable
<1>6. ASSUME NEW step, NEW found, GoesOn(c, step, found), step \in {"refused", "read"},
             step = "read" => found \in EventRow /\ calls[c].body.title # Empty
      PROVE  CatalogInv'
  <2>1. SoundRequest(calls'[c]) /\ ~Trusted(c)' /\ (NamesAVenue(calls[c]) => NamesAVenue(calls'[c]))
    BY <1>1, <1>6 DEF GoesOn, SoundRequest, NamesAVenue, Trusted, PassOps
  <2> QED
    BY <1>1, <1>2, <1>3, <1>6, <2>1, ReadingIsKept
<1> QED
  BY <1>3, <1>5, <1>6

\* A form with a title has a venue, so that the row that is written keeps one.
LEMMA EventsAreWritten ==
  ASSUME CatalogInv, UNCHANGED page, NEW c \in Calls, WriteEvent(c) \/ PublishEvent(c)
  PROVE  CatalogInv'
<1>1. CatalogTypes /\ calls[c] # NoCall /\ calls[c] \in Request /\ SoundRequest(calls[c])
      /\ calls[c].op \in {"write", "publish"} /\ calls[c].step \in {"sent", "read"}
      /\ event \in EventRow
  BY DEF CatalogInv, CatalogTypes, WriteEvent, PublishEvent, ReadBy, Sent, Under, RequestsAreSound
<1>2. UNCHANGED <<passes, ordered, catalog, eventId, resolving, editor, settings>>
      /\ Answer(c, "done", event')
  BY DEF WriteEvent, PublishEvent, catalogPage
<1>3. /\ event' \in EventRow
      /\ event.venue # Empty /\ NamesAVenue(calls[c]) => event'.venue # Empty
  <2>1. CASE WriteEvent(c)
    <3> DEFINE body == calls[c].body
               found == calls[c].found
    <3>1. /\ body \in [title : Setting, venue : Setting] /\ found \in EventRow /\ body.title # Empty
          /\ calls[c].op = "write"
      BY <1>1, <2>1 DEF WriteEvent, ReadBy, Under, SoundRequest
    <3>2. event' = [f \in DOMAIN found |-> IF f \in DOMAIN body THEN body[f] ELSE found[f]]
      BY <2>1 DEF WriteEvent, Overlay, Get
    <3>3. NamesAVenue(calls[c]) => body.venue # Empty
      BY <3>1 DEF NamesAVenue
    <3> HIDE DEF body, found
    <3>4. event' \in EventRow /\ event'.venue = body.venue
      BY <3>1, <3>2 DEF EventRow
    <3> QED
      BY <3>3, <3>4
  <2>2. CASE PublishEvent(c)
    BY <1>1, <2>2 DEF PublishEvent, EventRow
  <2> QED
    BY <2>1, <2>2
<1>4. GoesOn(c, "done", event')
  BY <1>1, <1>2, <1>3, CallsAreAnswered DEF Answerable
<1>5. SoundRequest(calls'[c]) /\ ~Trusted(c)' /\ (NamesAVenue(calls[c]) => NamesAVenue(calls'[c]))
  BY <1>1, <1>3, <1>4 DEF GoesOn, SoundRequest, NamesAVenue, Trusted, Listing, PassOps
<1> QED
  BY <1>1, <1>2, <1>3, <1>4, <1>5, ReadingIsKept

\* An answer that is lost outdates the lists.
LEMMA LostCallsAreKept ==
  ASSUME CatalogInv, UNCHANGED page, NEW c \in Calls, CallFails(c)
  PROVE  CatalogInv'
<1>1. CatalogTypes /\ calls \in CallTable /\ calls[c] # NoCall /\ calls[c] \in Request
      /\ SoundRequest(calls[c]) /\ event \in EventRow
  BY DEF CatalogInv, CatalogTypes, CallTable, CallFails, RequestsAreSound
<1> DEFINE lost == calls[c].step = "done"
           mid == IF lost THEN Outdated(calls) ELSE calls
           found == mid[c].found
<1>2. UNCHANGED <<passes, ordered, event, eventId, resolving, editor, settings>>
  BY DEF CallFails, catalogServer
<1>3. calls' = [mid EXCEPT ![c].step = "refused"]
  BY DEF CallFails
<1>4. /\ mid \in CallTable /\ mid[c] # NoCall
      /\ \A d \in Calls : /\ Alike(calls[d], mid[d])
                          /\ lost /\ mid[d] # NoCall => mid[d].fresh = FALSE
  BY <1>1, CallsMayBeOutdated
<1> HIDE DEF mid
<1>5. StepsTo(mid, calls', c, "refused", found)
  <2>1. NoPass \in Answerable
    BY DEF Answerable
  <2> QED
    BY <1>3, <1>4, <2>1, CallsStep
<1>6. GoesOn(c, "refused", found)
  BY <1>1, <1>4, <1>5, CallsGoOn
<1>7. SoundRequest(calls'[c]) /\ ~Trusted(c)' /\ (NamesAVenue(calls[c]) => NamesAVenue(calls'[c]))
  BY <1>1, <1>6 DEF GoesOn, SoundRequest, NamesAVenue, Trusted, PassOps
<1>8. catalog' \in CatalogType /\ catalog'.loading = catalog.loading /\ catalog'.error = catalog.error
      /\ catalog'.rows = catalog.rows /\ (catalog'.current => catalog.current)
      /\ (lost => ~catalog'.current)
  <2> DEFINE current == catalog.current /\ ~lost
  <2>1. current \in BOOLEAN /\ (current => catalog.current) /\ (lost => ~current)
    BY Zenon
  <2>2. catalog' = [catalog EXCEPT !.current = current]
    BY DEF CallFails
  <2> HIDE DEF current
  <2> QED
    BY <1>1, <2>1, <2>2 DEF CatalogTypes, CatalogType
<1>9. CardsAreCurrent'
  <2>1. CASE lost
    <3>1. \A d \in Calls \ {c} : ~Trusted(d)'
      BY <1>4, <1>5, <2>1 DEF StepsTo, Trusted, Listing
    <3> QED
      BY <1>7, <1>8, <2>1, <3>1, CardsAreCovered
  <2>2. CASE ~lost
    <3>1. ~Owed(c) /\ (Listing(c) => Listing(c)')
      BY <1>6, <2>2 DEF Owed, GoesOn, Listing
    <3> QED
      BY <1>2, <1>6, <1>7, <1>8, <3>1, CardsStay DEF CatalogInv, GoesOn
  <2> QED
    BY <2>1, <2>2
<1>10. SoundTable(passes') /\ SoldPassesAreKept' /\ ordered' \subseteq Passes
  BY <1>2 DEF CatalogInv, CatalogTypes, SoldPassesAreKept
<1> QED
  BY <1>1, <1>2, <1>6, <1>7, <1>8, <1>9, <1>10, ServingIsKept

\* Changes of the table of passes, by the page itself: its answer will load the list again.
LEMMA OwnChangesAreKept ==
  ASSUME CatalogInv, UNCHANGED page, NEW c \in Calls, CreatePass(c) \/ DeletePass(c)
  PROVE  CatalogInv'
<1>1. CatalogTypes /\ calls[c] # NoCall /\ calls[c] \in Request /\ SoundRequest(calls[c])
      /\ calls[c].op \in {"create", "delete"} /\ calls[c].step \in {"sent", "read"}
      /\ event \in EventRow
  BY DEF CatalogInv, CatalogTypes, CreatePass, DeletePass, ReadBy, Sent, Under, RequestsAreSound
<1>2. UNCHANGED <<ordered, event, catalog, eventId, resolving, editor, settings>>
  BY DEF CreatePass, DeletePass, catalogPage
<1>3. \/ Answer(c, "refused", NoPass) /\ UNCHANGED passes
      \/ /\ Answer(c, "done", NoPass)
         /\ SoundTable(passes') /\ SoldPassesAreKept'
  <2>1. CASE CreatePass(c)
    <3> DEFINE body == calls[c].body
               row == NewRow(body)
    <3>1. body \in Draft \cup Untiered
      BY <1>1, <2>1 DEF CreatePass, Sent, Under, SoundRequest
    <3> HIDE DEF body
    <3>2. row \in PassRow
      <4>1. 0 \in 0 .. MaxSold
        BY CatalogGiven
      <4>2. Get(body, "tier", "none") \in Tiers \cup {"none"}
        BY <3>1, ColumnsOfRows DEF Get, Draft, Untiered
      <4>3. /\ body.kind \in {"ticket", "goodie"} /\ body.name \in Text /\ body.description \in Text
            /\ body.price \in Nat /\ body.total \in Nat /\ body.status \in {"active", "inactive"}
        BY <3>1 DEF Draft, Untiered
      <4> QED
        BY <4>1, <4>2, <4>3 DEF NewRow, PassRow
    <3> HIDE DEF row
    <3>3. \/ Answer(c, "refused", NoPass) /\ UNCHANGED passes
          \/ /\ Answer(c, "done", NoPass) /\ ValidInput(row.price, row.tier)
             /\ \E i \in Passes : passes[i] = NoPass /\ passes' = [passes EXCEPT ![i] = row]
      BY <2>1 DEF CreatePass, row, body
    <3>4. ASSUME NEW i \in Passes, passes' = [passes EXCEPT ![i] = row], ValidInput(row.price, row.tier)
          PROVE  SoundTable(passes') /\ SoldPassesAreKept'
      <4>1. SoundTable(passes') /\ Grows(passes, passes')
        BY <1>1, <3>2, <3>4, TablesAreChanged DEF CatalogTypes, Fitting
      <4> QED
        BY <1>1, <1>2, <4>1 DEF CatalogInv, CatalogTypes, SoldPassesAreKept, Grows
    <3> QED
      BY <3>3, <3>4
  <2>2. CASE DeletePass(c)
    <3> DEFINE i == calls[c].id
    <3>1. i \in Passes
      BY <1>1, <2>2 DEF DeletePass, ReadBy, Under, SoundRequest
    <3>2. \/ Answer(c, "refused", NoPass) /\ UNCHANGED passes
          \/ /\ Answer(c, "done", NoPass) /\ i \notin ordered
             /\ passes' = [passes EXCEPT ![i] = NoPass]
      BY <2>2 DEF DeletePass
    <3> HIDE DEF i
    <3>3. passes' = [passes EXCEPT ![i] = NoPass] => SoundTable(passes')
      BY <1>1, <3>1 DEF CatalogTypes, SoundTable
    <3>4. passes' = [passes EXCEPT ![i] = NoPass] /\ i \notin ordered => SoldPassesAreKept'
      BY <1>1, <1>2, <3>1 DEF CatalogInv, CatalogTypes, SoundTable, SoldPassesAreKept
    <3> QED
      BY <3>2, <3>3, <3>4
  <2> QED
    BY <2>1, <2>2
<1>4. ASSUME NEW step \in {"refused", "done"}, GoesOn(c, step, NoPass)
      PROVE  SoundRequest(calls'[c]) /\ NamesAVenue(calls'[c]) /\ ~Trusted(c)'
  BY <1>1, <1>4 DEF GoesOn, SoundRequest, NamesAVenue, Trusted, Listing, PassOps
<1>5. CASE Answer(c, "refused", NoPass) /\ UNCHANGED passes
  <2>1. GoesOn(c, "refused", NoPass)
    BY <1>1, <1>5, CallsAreAnswered DEF Answerable
  <2> QED
    BY <1>1, <1>2, <1>4, <1>5, <2>1, ReadingIsKept
<1>6. CASE Answer(c, "done", NoPass) /\ SoundTable(passes') /\ SoldPassesAreKept'
  <2>1. GoesOn(c, "done", NoPass)
    BY <1>1, <1>6, CallsAreAnswered DEF Answerable
  <2>2. Owed(c)'
    BY <1>1, <2>1 DEF GoesOn, Owed
  <2>3. CardsAreCurrent'
    BY <2>2, CardsAreCovered
  <2>4. catalog' \in CatalogType /\ ordered' \subseteq Passes
    BY <1>1, <1>2 DEF CatalogTypes, CatalogType
  <2> QED
    BY <1>1, <1>2, <1>4, <1>6, <2>1, <2>3, <2>4, ServingIsKept
<1> QED
  BY <1>3, <1>5, <1>6

\* A change of the table by somebody else outdates the cards and the lists.
LEMMA WritePassIsKept ==
  ASSUME CatalogInv, UNCHANGED page, NEW c \in Calls, WritePass(c)
  PROVE  CatalogInv'
<1>1. CatalogTypes /\ calls \in CallTable /\ calls[c] # NoCall /\ calls[c] \in Request
      /\ SoundRequest(calls[c]) /\ calls[c].op \in PassOps /\ calls[c].step = "read"
      /\ event \in EventRow
  BY DEF CatalogInv, CatalogTypes, CallTable, WritePass, ReadBy, Under, RequestsAreSound, PassOps
<1>2. UNCHANGED <<ordered, event, eventId, resolving, editor, settings>>
  BY DEF WritePass
<1> DEFINE call == calls[c]
           i == call.id
           row == passes[i]
           own == call.op # "patch"
           step == IF row = NoPass THEN "refused" ELSE "done"
           answered == [calls EXCEPT ![c].step = step]
           new == UpdatedRow(call.body, call.found, row)
<1>3. /\ i \in Passes /\ call.body \in PassBody /\ call.found \in PassRow
      /\ Accepts(call.body, call.found)
  BY <1>1 DEF SoundRequest
<1>4. /\ passes' = IF row = NoPass THEN passes ELSE [passes EXCEPT ![i] = new]
      /\ calls' = IF own THEN answered ELSE Outdated(answered)
      /\ catalog' = [catalog EXCEPT !.current = @ /\ own]
  BY DEF WritePass
<1>5. SoundTable(passes') /\ Grows(passes, passes')
  <2>1. CASE row = NoPass
    BY <1>1, <1>4, <2>1 DEF CatalogTypes, Grows
  <2>2. CASE row # NoPass
    <3>1. row \in PassRow /\ SoundTable(passes)
      BY <1>1, <1>3, <2>2 DEF CatalogTypes, SoundTable, Fitting
    <3>2. Fits(call.body) /\ "sold" \notin DOMAIN call.body
      BY <1>3, BodiesFit, ColumnsOfRows DEF PassBody
    <3>3. Fitting(new)
      BY <1>3, <3>1, <3>2, UpdatesFit DEF Fitting
    <3> HIDE DEF new
    <3> QED
      BY <1>3, <1>4, <2>2, <3>1, <3>3, TablesAreChanged
  <2> QED
    BY <2>1, <2>2
<1>6. SoldPassesAreKept' /\ ordered' \subseteq Passes
  BY <1>1, <1>2, <1>5 DEF CatalogInv, CatalogTypes, SoldPassesAreKept, Grows
<1>7. catalog' \in CatalogType /\ catalog'.loading = catalog.loading /\ catalog'.error = catalog.error
      /\ catalog'.rows = catalog.rows /\ (catalog'.current => catalog.current)
      /\ (~own => ~catalog'.current)
  <2> DEFINE current == catalog.current /\ own
  <2>1. current \in BOOLEAN /\ (current => catalog.current) /\ (~own => ~current)
    BY Zenon
  <2>2. catalog' = [catalog EXCEPT !.current = current]
    BY <1>4
  <2> HIDE DEF current
  <2> QED
    BY <1>1, <2>1, <2>2 DEF CatalogTypes, CatalogType
<1>8. StepsTo(calls, answered, c, step, calls[c].found) /\ step \in {"refused", "done"}
  <2>1. NoPass \in Answerable
    BY DEF Answerable
  <2> QED
    BY <1>1, <2>1, CallsStep
<1>9. row # NoPass => step = "done"
  OBVIOUS
<1>10. row = NoPass => passes' = passes
  BY <1>4
<1>11. own <=> calls[c].op # "patch"
  OBVIOUS
<1> HIDE DEF call, row, step, answered, own
<1>12. GoesOn(c, step, calls[c].found) /\ (~own => \A d \in Calls : ~Trusted(d)')
  <2>1. CASE own
    <3>1. \A d \in Calls : Alike(calls[d], calls[d])
      BY DEF Alike
    <3> QED
      BY <1>1, <1>4, <1>8, <2>1, <3>1, CallsGoOn
  <2>2. CASE ~own
    <3>1. answered \in CallTable
      BY <1>8 DEF StepsTo
    <3>2. /\ calls' = Outdated(answered) /\ calls' \in CallTable
          /\ \A d \in Calls : /\ Alike(answered[d], calls'[d])
                              /\ calls'[d] # NoCall => calls'[d].fresh = FALSE
      BY <1>4, <2>2, <3>1, CallsAreOutdated
    <3>3. \A d \in Calls \ {c} : answered[d] = calls[d]
      BY <1>8 DEF StepsTo
    <3>4. Moves(c)
      BY <3>2, <3>3 DEF Moves, CallTable
    <3>5. GoesOn(c, step, calls[c].found)
      BY <1>1, <1>8, <3>2, <3>4 DEF StepsTo, Alike, GoesOn
    <3> QED
      BY <3>2, <3>5 DEF Trusted, Listing
  <2> QED
    BY <2>1, <2>2
<1>13. SoundRequest(calls'[c]) /\ NamesAVenue(calls'[c]) /\ ~Trusted(c)' /\ ~Listing(c) /\ ~Owed(c)
       /\ (own /\ step = "done" => Owed(c)')
  <2>1. SoundRequest(calls'[c])
    BY <1>1, <1>8, <1>12 DEF GoesOn, SoundRequest, PassOps
  <2>2. own /\ step = "done" => Owed(c)'
    BY <1>1, <1>11, <1>12 DEF GoesOn, Owed, PassOps
  <2> QED
    BY <1>1, <1>12, <2>1, <2>2 DEF GoesOn, NamesAVenue, Trusted, Listing, Owed, PassOps
<1>14. CardsAreCurrent'
  <2>1. CASE ~own
    BY <1>7, <1>12, <2>1, CardsAreCovered
  <2>2. CASE own /\ row # NoPass
    BY <1>9, <1>13, <2>2, CardsAreCovered
  <2>3. CASE row = NoPass
    BY <1>7, <1>10, <1>12, <1>13, <2>3, CardsStay DEF CatalogInv, GoesOn
  <2> QED
    BY <2>1, <2>2, <2>3
<1> QED
  BY <1>1, <1>2, <1>5, <1>6, <1>7, <1>12, <1>13, <1>14, ServingIsKept
LEMMA ReadEventIsKept ==
  ASSUME CatalogInv, UNCHANGED page, NEW c \in Calls, ReadEvent(c)
  PROVE  CatalogInv'
<1>1. CatalogTypes /\ calls \in CallTable /\ calls[c] # NoCall /\ calls[c] \in Request
      /\ SoundRequest(calls[c]) /\ calls[c].op \in {"event", "read"} /\ calls[c].step = "sent"
      /\ event \in EventRow
  BY DEF CatalogInv, CatalogTypes, CallTable, ReadEvent, Sent, Under, RequestsAreSound
<1>2. UNCHANGED <<ordered, event, eventId, resolving, editor, settings>>
  BY DEF ReadEvent
<1> DEFINE same == passes' = passes
           mid == IF same THEN calls ELSE Outdated(calls)
<1>3. PICK ok \in BOOLEAN :
        /\ GetEvent(ok)
        /\ calls' = [mid EXCEPT ![c].step = IF ok THEN "done" ELSE "refused", ![c].found = event]
  BY DEF ReadEvent
<1>4. SoundTable(passes') /\ Grows(passes, passes')
  BY <1>1, <1>3, EventsAreGot DEF CatalogTypes
<1>5. SoldPassesAreKept' /\ ordered' \subseteq Passes
  BY <1>1, <1>2, <1>4 DEF CatalogInv, CatalogTypes, SoldPassesAreKept, Grows
<1>6. catalog' \in CatalogType /\ catalog'.loading = catalog.loading /\ catalog'.error = catalog.error
      /\ catalog'.rows = catalog.rows /\ (catalog'.current => catalog.current)
      /\ (~same => ~catalog'.current)
  <2> DEFINE current == catalog.current /\ same
  <2>1. current \in BOOLEAN /\ (current => catalog.current) /\ (~same => ~current)
    BY Zenon
  <2>2. catalog' = [catalog EXCEPT !.current = current]
    BY DEF ReadEvent
  <2> HIDE DEF current
  <2> QED
    BY <1>1, <2>1, <2>2 DEF CatalogTypes, CatalogType
<1> DEFINE step == IF ok THEN "done" ELSE "refused"
<1>7. step \in {"done", "refused"} /\ event \in Answerable
  BY <1>1 DEF Answerable
<1>8. /\ mid \in CallTable /\ mid[c] # NoCall
      /\ \A d \in Calls : /\ Alike(calls[d], mid[d])
                          /\ ~same /\ mid[d] # NoCall => mid[d].fresh = FALSE
  <2>1. mid = IF ~same THEN Outdated(calls) ELSE calls
    OBVIOUS
  <2> HIDE DEF mid, same
  <2> QED
    BY <1>1, <2>1, CallsMayBeOutdated
<1> HIDE DEF mid, step
<1>9. StepsTo(mid, calls', c, step, event)
  BY <1>3, <1>7, <1>8, CallsStep DEF step
<1>10. GoesOn(c, step, event)
  BY <1>1, <1>8, <1>9, CallsGoOn
<1>11. SoundRequest(calls'[c]) /\ ~Trusted(c)' /\ ~Listing(c) /\ ~Owed(c)
       /\ (event.venue # Empty => NamesAVenue(calls'[c]))
  BY <1>1, <1>7, <1>10 DEF GoesOn, SoundRequest, NamesAVenue, Trusted, Listing, Owed, PassOps
<1>12. CardsAreCurrent'
  <2>1. CASE same
    BY <1>6, <1>10, <1>11, <2>1, CardsStay DEF CatalogInv, GoesOn
  <2>2. CASE ~same
    <3>1. \A d \in Calls \ {c} : ~Trusted(d)'
      BY <1>8, <1>9, <2>2 DEF StepsTo, Trusted, Listing
    <3> QED
      BY <1>6, <1>11, <2>2, <3>1, CardsAreCovered
  <2> QED
    BY <2>1, <2>2
<1> QED
  BY <1>1, <1>2, <1>4, <1>5, <1>6, <1>10, <1>11, <1>12, ServingIsKept

LEMMA SomebodyElseIsKept ==
  ASSUME CatalogInv, UNCHANGED <<page, event, eventId, resolving, editor, settings>>, SomebodyElse,
         SoundTable(passes'), ordered' \subseteq Passes, SoldPassesAreKept'
  PROVE  CatalogInv'
<1>1. CatalogTypes /\ calls \in CallTable /\ event \in EventRow
  BY DEF CatalogInv, CatalogTypes, CallTable
<1>2. /\ calls' \in CallTable
      /\ \A d \in Calls : /\ Alike(calls[d], calls'[d])
                          /\ calls'[d] # NoCall => calls'[d].fresh = FALSE
  BY <1>1, CallsAreOutdated DEF SomebodyElse
<1>3. \A d \in Calls : ~Trusted(d)'
  BY <1>2 DEF Trusted, Listing
<1>4. catalog' \in CatalogType /\ catalog'.loading = catalog.loading /\ ~catalog'.current
  BY <1>1 DEF SomebodyElse, CatalogTypes, CatalogType
<1>5. CardsAreCurrent'
  BY <1>3, <1>4, CardsAreCovered
<1>6. \A d \in Calls : (Saving(d)' <=> Saving(d)) /\ (Listing(d)' <=> Listing(d))
  BY <1>2 DEF Alike, Saving, Listing
<1>7. SavesAreAlone' /\ ListsAreAwaited'
  BY <1>4, <1>6 DEF CatalogInv, SavesAreAlone, ListsAreAwaited
<1>8. RequestsAreSound' /\ VenuesAreKept'
  BY <1>2 DEF CatalogInv, RequestsAreSound, VenuesAreKept, Excused, Alike, SoundRequest, NamesAVenue, PassOps
<1>9. CatalogTypes'
  BY <1>1, <1>2, <1>4 DEF CatalogTypes, CatalogType, CallTable
<1> QED
  BY <1>5, <1>7, <1>8, <1>9 DEF CatalogInv

\* Buyers and visitors.
LEMMA OthersAreKept ==
  ASSUME CatalogInv, UNCHANGED page, Visit \/ \E i \in Passes : Sell(i) \/ Release(i)
  PROVE  CatalogInv'
<1>1. CatalogTypes
  BY DEF CatalogInv
<1>2. ASSUME NEW i \in Passes, NEW sold \in 0 .. MaxSold, passes[i] # NoPass,
             passes' = [passes EXCEPT ![i].sold = sold]
      PROVE  SoundTable(passes') /\ Grows(passes, passes')
  <2> DEFINE row == passes[i]
             new == [row EXCEPT !.sold = sold]
  <2>1. Fitting(row) /\ SoundTable(passes)
    BY <1>1, <1>2 DEF CatalogTypes, SoundTable
  <2>2. passes' = [passes EXCEPT ![i] = new]
    BY <1>2
  <2> HIDE DEF row
  <2>3. Fitting(new)
    BY <2>1 DEF Fitting, PassRow
  <2> HIDE DEF new
  <2> QED
    BY <2>1, <2>2, <2>3, TablesAreChanged
<1>3. ASSUME NEW i \in Passes, passes[i] # NoPass PROVE passes[i].sold \in 0 .. MaxSold /\ MaxSold \in Nat
  BY <1>1, <1>3, CatalogGiven DEF CatalogTypes, SoundTable, Fitting, PassRow
<1>4. ASSUME NEW i \in Passes, Sell(i) \/ Release(i) PROVE CatalogInv'
  <2>1. PICK sold \in 0 .. MaxSold : passes[i] # NoPass /\ passes' = [passes EXCEPT ![i].sold = sold]
    <3>1. CASE Sell(i)
      <4>1. passes[i] # NoPass /\ passes' = [passes EXCEPT ![i].sold = passes[i].sold + 1]
            /\ passes[i].sold < MaxSold
        BY <3>1 DEF Sell
      <4>2. passes[i].sold + 1 \in 0 .. MaxSold
        BY <1>3, <4>1
      <4> QED
        BY <4>1, <4>2, Zenon
    <3>2. CASE Release(i)
      <4>1. passes[i] # NoPass /\ passes' = [passes EXCEPT ![i].sold = passes[i].sold - 1]
            /\ passes[i].sold > 0
        BY <3>2 DEF Release
      <4>2. passes[i].sold - 1 \in 0 .. MaxSold
        BY <1>3, <4>1
      <4> QED
        BY <4>1, <4>2, Zenon
    <3> QED
      BY <1>4, <3>1, <3>2
  <2>2. /\ UNCHANGED <<event, eventId, resolving, editor, settings>> /\ SomebodyElse
        /\ ordered' = ordered \/ ordered' = ordered \cup {i}
    BY <1>4 DEF Sell, Release
  <2>3. SoundTable(passes') /\ Grows(passes, passes')
    BY <1>2, <2>1
  <2>4. ordered' \subseteq Passes /\ SoldPassesAreKept'
    BY <1>1, <2>1, <2>2, <2>3 DEF CatalogInv, CatalogTypes, SoldPassesAreKept, Grows
  <2> QED
    BY <2>2, <2>3, <2>4, SomebodyElseIsKept
<1>5. CASE Visit
  <2>1. SoundTable(passes') /\ Grows(passes, passes')
    BY <1>1, <1>5, EventsAreGot DEF CatalogTypes, Visit
  <2>2. UNCHANGED <<ordered, event, eventId, resolving, editor, settings>>
    BY <1>5 DEF Visit
  <2>3. ordered' \subseteq Passes /\ SoldPassesAreKept'
    BY <1>1, <2>1, <2>2 DEF CatalogInv, CatalogTypes, SoldPassesAreKept, Grows
  <2>4. CASE passes' # passes
    BY <1>5, <2>1, <2>2, <2>3, <2>4, SomebodyElseIsKept DEF Visit
  <2>5. CASE passes' = passes
    <3>1. UNCHANGED <<passes, ordered, event, calls, eventId, resolving, catalog, editor, settings>>
      BY <1>5, <2>2, <2>5 DEF Visit
    <3> QED
      BY <3>1 DEF CatalogInv, CatalogTypes, RequestsAreSound, VenuesAreKept, Excused, SavesAreAlone, Saving,
           ListsAreAwaited, Listing, CardsAreCurrent, Owed, Trusted, Rows, SoldPassesAreKept
  <2> QED
    BY <2>4, <2>5
<1> QED
  BY <1>4, <1>5

\* Answers the pages take.
\* The lists that are loaded again.
LEMMA ReloadingIsKept ==
  ASSUME CatalogInv, UNCHANGED <<page, catalogServer, settings>>, NEW c \in Calls, NEW known \in BOOLEAN,
         LoadData(c, known), eventId' \in BOOLEAN, resolving' \in BOOLEAN,
         editor' \in EditorType, editor'.editing = editor'.origin, SavesAreAlone'
  PROVE  CatalogInv'
<1>1. CatalogTypes
  BY DEF CatalogInv
<1>2. /\ Moves(c) /\ catalog' \in CatalogType
      /\ ~known => calls'[c] = NoCall /\ ~catalog'.loading /\ catalog'.error
      /\ known => /\ calls'[c] # NoCall /\ calls'[c].op = "list" /\ calls'[c].step = "sent"
                  /\ \A d \in Calls : ~Trusted(d)'
  BY <1>1, ListsAreAsked DEF CatalogType
<1>3. CatalogTypes'
  BY <1>1, <1>2 DEF CatalogTypes, CatalogType, EditorType, Moves, catalogServer
<1>4. RequestsAreSound'
  <2>1. calls'[c] # NoCall => SoundRequest(calls'[c])
    BY <1>2 DEF SoundRequest, PassOps
  <2> QED
    BY <1>2, <2>1, RequestsStaySound DEF CatalogInv
<1>5. VenuesAreKept'
  <2>1. calls'[c] # NoCall => NamesAVenue(calls'[c])
    BY <1>2 DEF NamesAVenue
  <2> QED
    BY <1>2, <2>1, VenuesStay DEF CatalogInv, VenuesAreKept, Excused, catalogServer
<1>6. known => Listing(c)'
  BY <1>2 DEF Listing
<1>7. ListsAreAwaited'
  BY <1>2, <1>6 DEF ListsAreAwaited
<1>8. CardsAreCurrent'
  BY <1>2, <1>6, CardsAreCovered
<1>9. SoldPassesAreKept'
  BY DEF CatalogInv, SoldPassesAreKept, catalogServer
<1> QED
  BY <1>3, <1>4, <1>5, <1>7, <1>8, <1>9 DEF CatalogInv

\* A call that was no list and changed no pass is over, or gives way to a new one.
LEMMA TakingIsKept ==
  ASSUME CatalogInv, UNCHANGED <<page, catalogServer, catalog>>, NEW c \in Calls, Moves(c),
         ~Listing(c), ~Owed(c),
         calls'[c] # NoCall => calls'[c].op = "read" /\ calls'[c].step = "sent",
         eventId' \in BOOLEAN, resolving' \in BOOLEAN,
         editor' \in EditorType, editor'.editing = editor'.origin, SavesAreAlone',
         settings' \in SettingsType, Excused => Excused',
         ~Excused' => (settings'.filled => settings'.venue # Empty)
  PROVE  CatalogInv'
<1>1. CatalogTypes'
  BY DEF CatalogInv, CatalogTypes, EditorType, SettingsType, Moves, catalogServer
<1>2. RequestsAreSound'
  <2>1. calls'[c] # NoCall => SoundRequest(calls'[c])
    BY DEF SoundRequest, PassOps
  <2> QED
    BY <2>1, RequestsStaySound DEF CatalogInv
<1>3. VenuesAreKept'
  <2>1. calls'[c] # NoCall => NamesAVenue(calls'[c])
    BY DEF NamesAVenue
  <2> QED
    BY <2>1, VenuesStay DEF CatalogInv, catalogServer
<1>4. ListsAreAwaited'
  BY ListsStayAwaited DEF CatalogInv
<1>5. CardsAreCurrent'
  <2>1. ~Trusted(c)'
    BY DEF Trusted, Listing
  <2> QED
    BY <2>1, CardsStay DEF CatalogInv, catalogServer
<1>6. SoldPassesAreKept'
  BY DEF CatalogInv, SoldPassesAreKept, catalogServer
<1> QED
  BY <1>1, <1>2, <1>3, <1>4, <1>5, <1>6 DEF CatalogInv

LEMMA SavingEnds ==
  ASSUME SavesAreAlone, NEW c \in Calls, Saving(c), Moves(c), ~Saving(c)', ~editor'.saving
  PROVE  SavesAreAlone'
<1>1. \A d \in Calls : ~Saving(d)'
  BY DEF SavesAreAlone, Saving, Moves, Alike
<1> QED
  BY <1>1 DEF SavesAreAlone

LEMMA ListReturnsIsKept ==
  ASSUME CatalogInv, UNCHANGED page, NEW c \in Calls, ListReturns(c)
  PROVE  CatalogInv'
<1>1. CatalogTypes /\ Listing(c) /\ calls[c] \in Request /\ SoundRequest(calls[c])
      /\ calls[c].op = "list" /\ catalog \in CatalogType
  BY DEF CatalogInv, CatalogTypes, CatalogType, RequestsAreSound, ListReturns, Finished, Under, Listing
<1>2. UNCHANGED <<passes, ordered, event, eventId, resolving, editor, settings>>
  BY DEF ListReturns, catalogServer
<1>3. Moves(c) /\ calls'[c] = NoCall
  BY <1>1, CallsAreSet DEF ListReturns, Taken
<1> DEFINE rows == calls[c].found
           current == calls[c].fresh /\ calls[c].alone
<1>4. current \in BOOLEAN
  BY Zenon
<1>5. Ok(c) => /\ catalog' = [catalog EXCEPT !.rows = rows, !.loading = FALSE, !.current = current]
               /\ rows \in SUBSET Entry /\ (current => Trusted(c))
  BY <1>1 DEF ListReturns, Ok, SoundRequest, Trusted
<1>6. ~Ok(c) => catalog' = [catalog EXCEPT !.loading = FALSE, !.error = TRUE]
  BY DEF ListReturns
<1> HIDE DEF current
<1>7. /\ catalog' \in CatalogType /\ ~catalog'.loading
      /\ ~Ok(c) => catalog'.error
      /\ Ok(c) => catalog'.rows = rows /\ catalog'.current = current /\ catalog'.error = catalog.error
  BY <1>1, <1>4, <1>5, <1>6 DEF CatalogType
<1>8. CatalogTypes'
  BY <1>1, <1>2, <1>3, <1>7 DEF CatalogTypes, CatalogType, Moves
<1>9. RequestsAreSound' /\ VenuesAreKept'
  BY <1>2, <1>3, RequestsStaySound, VenuesStay DEF CatalogInv, VenuesAreKept, Excused
<1>10. SavesAreAlone'
  <2>1. ~Saving(c)' /\ ~Saving(c)
    BY <1>1, <1>3 DEF Saving
  <2> QED
    BY <1>2, <1>3, <2>1, SavesStayAlone DEF CatalogInv
<1>11. ListsAreAwaited'
  BY <1>7 DEF ListsAreAwaited
<1>12. CardsAreCurrent'
  <2>1. CASE ~Ok(c)
    BY <1>7, <2>1, CardsAreCovered
  <2>2. CASE Ok(c)
    <3>1. \A d \in Calls \ {c} : /\ Owed(d) => Owed(d)'
                                 /\ Trusted(d)' => Trusted(d) /\ calls'[d].found = calls[d].found
      BY <1>3 DEF Moves, Alike, Owed, Listing, Trusted
    <3>2. ~Owed(c) /\ ~Trusted(c)' /\ Rows(passes)' = Rows(passes)
      BY <1>1, <1>2, <1>3 DEF Owed, Trusted, Listing, Rows
    <3> QED
      BY <1>5, <1>7, <2>2, <3>1, <3>2 DEF CatalogInv, CardsAreCurrent
  <2> QED
    BY <2>1, <2>2
<1>13. SoldPassesAreKept'
  BY <1>2 DEF CatalogInv, SoldPassesAreKept
<1> QED
  BY <1>8, <1>9, <1>10, <1>11, <1>12, <1>13 DEF CatalogInv
LEMMA SaveReturnsIsKept ==
  ASSUME CatalogInv, UNCHANGED page, NEW c \in Calls, SaveReturns(c)
  PROVE  CatalogInv'
<1>1. CatalogTypes /\ Saving(c) /\ editor \in EditorType /\ editor.editing = editor.origin
      /\ eventId \in BOOLEAN
  BY DEF CatalogInv, CatalogTypes, EditorType, SaveReturns, Finished, Under, Saving
<1>2. UNCHANGED <<catalogServer, eventId, resolving, settings>>
  BY DEF SaveReturns
<1>3. editor' \in EditorType /\ editor'.editing = editor'.origin /\ ~editor'.saving
  <2> DEFINE open == editor.open /\ ~Ok(c)
  <2>1. open \in BOOLEAN
    BY Zenon
  <2>2. editor' = [editor EXCEPT !.saving = FALSE, !.open = open]
    BY DEF SaveReturns
  <2> HIDE DEF open
  <2> QED
    BY <1>1, <2>1, <2>2 DEF EditorType
<1>4. resolving' \in BOOLEAN /\ eventId' \in BOOLEAN
  BY <1>1, <1>2 DEF CatalogTypes
<1>5. CASE Ok(c)
  <2>1. LoadData(c, eventId)
    BY <1>5 DEF SaveReturns
  <2>2. Moves(c) /\ ~Saving(c)'
    BY <1>1, <2>1, ListsAreAsked DEF Saving
  <2>3. SavesAreAlone'
    BY <1>1, <1>3, <2>2, SavingEnds DEF CatalogInv
  <2> QED
    BY <1>1, <1>2, <1>3, <1>4, <2>1, <2>3, ReloadingIsKept
<1>6. CASE ~Ok(c)
  <2>1. Taken(c) /\ UNCHANGED catalog
    BY <1>6 DEF SaveReturns
  <2>2. Moves(c) /\ calls'[c] = NoCall /\ ~Saving(c)'
    BY <1>1, <2>1, CallsAreSet DEF Taken, Saving
  <2>3. SavesAreAlone'
    BY <1>1, <1>3, <2>2, SavingEnds DEF CatalogInv
  <2>4. ~Listing(c) /\ ~Owed(c)
    BY <1>1, <1>6 DEF Saving, Listing, Owed, Ok
  <2>5. settings' \in SettingsType /\ (Excused => Excused')
        /\ (~Excused' => (settings'.filled => settings'.venue # Empty))
    BY <1>1, <1>2 DEF CatalogInv, CatalogTypes, SettingsType, VenuesAreKept, Excused
  <2> QED
    BY <1>2, <1>3, <1>4, <2>1, <2>2, <2>3, <2>4, <2>5, TakingIsKept
<1> QED
  BY <1>5, <1>6

\* Answers that leave the editor alone.
LEMMA PagesTakeAnswers ==
  ASSUME CatalogInv, UNCHANGED page, NEW c \in Calls,
         \/ ChangeReturns(c) \/ ResolveReturns(c) \/ OtherReturns(c) \/ SettingsReturn(c)
         \/ RetryCatalog(c)
  PROVE  CatalogInv'
<1>1. CatalogTypes /\ editor \in EditorType /\ editor.editing = editor.origin /\ eventId \in BOOLEAN
      /\ resolving \in BOOLEAN /\ settings \in SettingsType
      /\ (~Excused => (settings.filled => settings.venue # Empty))
      /\ (UNCHANGED settings => (Excused' <=> Excused))
  BY DEF CatalogInv, CatalogTypes, EditorType, SettingsType, VenuesAreKept, Excused
<1>2. UNCHANGED <<catalogServer, editor>>
  BY DEF ChangeReturns, ResolveReturns, OtherReturns, SettingsReturn, RetryCatalog, catalogPage
<1>3. ~Saving(c)
  BY DEF ChangeReturns, ResolveReturns, OtherReturns, SettingsReturn, RetryCatalog, Finished, Under,
         Saving, Free
<1>4. ASSUME NEW known \in BOOLEAN, LoadData(c, known), UNCHANGED settings, eventId' \in BOOLEAN,
             resolving' \in BOOLEAN
      PROVE  CatalogInv'
  <2>1. Moves(c) /\ ~Saving(c)'
    BY <1>1, <1>4, ListsAreAsked DEF Saving
  <2>2. SavesAreAlone'
    BY <1>2, <1>3, <2>1, SavesStayAlone DEF CatalogInv
  <2> QED
    BY <1>1, <1>2, <1>4, <2>2, ReloadingIsKept
<1>5. ASSUME UNCHANGED catalog, NEW new \in Request \cup {NoCall}, calls' = [calls EXCEPT ![c] = new],
             new # NoCall => new.op = "read" /\ new.step = "sent",
             ~Listing(c), ~Owed(c), eventId' \in BOOLEAN, resolving' \in BOOLEAN,
             settings' \in SettingsType, Excused => Excused',
             ~Excused' => (settings'.filled => settings'.venue # Empty)
      PROVE  CatalogInv'
  <2>1. Moves(c) /\ calls'[c] = new
    BY <1>1, <1>5, CallsAreSet
  <2>2. ~Saving(c)'
    BY <1>5, <2>1 DEF Saving
  <2>3. SavesAreAlone'
    BY <1>2, <1>3, <2>1, <2>2, SavesStayAlone DEF CatalogInv
  <2> QED
    BY <1>1, <1>2, <1>5, <2>1, <2>3, TakingIsKept
<1>6. CASE ChangeReturns(c)
  <2>1. UNCHANGED <<eventId, resolving, settings>> /\ ~Listing(c) /\ (~Ok(c) => ~Owed(c))
    BY <1>6 DEF ChangeReturns, Finished, Under, Listing, Owed, Ok
  <2>2. CASE Ok(c)
    <3>1. LoadData(c, eventId)
      BY <1>6, <2>2 DEF ChangeReturns
    <3> QED
      BY <1>1, <1>4, <2>1, <3>1
  <2>3. CASE ~Ok(c)
    <3>1. UNCHANGED catalog /\ calls' = [calls EXCEPT ![c] = NoCall]
      BY <1>6, <2>3 DEF ChangeReturns, Taken
    <3> QED
      BY <1>1, <1>5, <2>1, <2>3, <3>1
  <2> QED
    BY <2>2, <2>3
<1>7. CASE ResolveReturns(c)
  <2>1. UNCHANGED settings /\ ~Listing(c) /\ ~Owed(c) /\ resolving' \in BOOLEAN
    BY <1>7 DEF ResolveReturns, Finished, Under, Listing, Owed
  <2>2. eventId' \in BOOLEAN
    <3>1. Ok(c) \in BOOLEAN
      BY Zenon DEF Ok
    <3> QED
      BY <1>7, <3>1 DEF ResolveReturns
  <2>3. CASE page = "passes" /\ eventId' # eventId
    <3>1. LoadData(c, eventId')
      BY <1>7, <2>3 DEF ResolveReturns
    <3> QED
      BY <1>4, <2>1, <2>2, <3>1
  <2>4. CASE ~(page = "passes" /\ eventId' # eventId)
    <3> DEFINE read == Call("read", NoPass, NoBody)
    <3>1. read \in Request /\ read.op = "read" /\ read.step = "sent"
      BY NewCalls DEF Body
    <3>2. /\ UNCHANGED catalog
          /\ \/ calls' = [calls EXCEPT ![c] = read] \/ calls' = [calls EXCEPT ![c] = NoCall]
      BY <1>7, <2>4 DEF ResolveReturns
    <3> HIDE DEF read
    <3> QED
      BY <1>1, <1>5, <2>1, <2>2, <3>1, <3>2
  <2> QED
    BY <2>3, <2>4
<1>8. CASE OtherReturns(c)
  <2>1. UNCHANGED <<eventId, resolving, settings, catalog>> /\ ~Listing(c) /\ ~Owed(c)
        /\ calls' = [calls EXCEPT ![c] = NoCall]
    BY <1>8 DEF OtherReturns, Finished, Under, Listing, Owed, Taken, catalogPage
  <2> QED
    BY <1>1, <1>5, <2>1
<1>9. CASE SettingsReturn(c)
  <2>1. /\ UNCHANGED <<eventId, resolving, catalog>> /\ ~Listing(c) /\ ~Owed(c)
        /\ calls' = [calls EXCEPT ![c] = NoCall]
        /\ calls[c].op \in {"read", "write", "publish"} /\ calls[c] # NoCall
    BY <1>9 DEF SettingsReturn, Finished, Under, Listing, Owed, Taken, catalogPage
  <2> DEFINE row == calls[c].found
  <2>2. Ok(c) => row \in EventRow
    BY <2>1 DEF Ok, CatalogInv, RequestsAreSound, SoundRequest
  <2>3. Ok(c) /\ calls[c].op = "read" /\ ~Excused => row.venue # Empty
    BY <2>1 DEF Ok, CatalogInv, VenuesAreKept, NamesAVenue
  <2>4. \/ settings' = settings
        \/ Ok(c) /\ calls[c].op = "read" /\ settings' = [Overlay(row, settings) EXCEPT !.filled = TRUE]
        \/ settings' = [settings EXCEPT !.saving = FALSE, !.status = IF Ok(c) THEN row.status ELSE @]
        \/ settings' = [settings EXCEPT !.status = IF Ok(c) THEN row.status ELSE @]
    BY <1>9 DEF SettingsReturn, Finished, Under
  <2> HIDE DEF row
  <2>5. ASSUME row \in EventRow, settings' = [Overlay(row, settings) EXCEPT !.filled = TRUE]
        PROVE  /\ settings' \in SettingsType /\ settings'.typed = settings.typed
               /\ settings'.blind = settings.blind /\ settings'.venue = row.venue
    <3>1. DOMAIN row = {"title", "venue", "status"}
      BY <2>5 DEF EventRow
    <3>2. Overlay(row, settings) =
            [f \in DOMAIN settings |-> IF f \in {"title", "venue", "status"} THEN row[f] ELSE settings[f]]
      BY <3>1 DEF Overlay, Get
    <3>3. DOMAIN settings = {"title", "venue", "status", "saving", "typed", "filled", "blind"}
      BY <1>1 DEF SettingsType
    <3>4. settings' = [title |-> row.title, venue |-> row.venue, status |-> row.status,
                       saving |-> settings.saving, typed |-> settings.typed, filled |-> TRUE,
                       blind |-> settings.blind]
      BY <2>5, <3>2, <3>3
    <3>5. /\ row.title \in Setting /\ row.venue \in Setting /\ row.status \in {Empty, "draft", "published"}
          /\ settings.saving \in BOOLEAN /\ settings.typed \in SUBSET {"title", "venue"}
          /\ settings.blind \in BOOLEAN
      BY <1>1, <2>5 DEF SettingsType, EventRow
    <3>6. settings' \in SettingsType
      BY <3>4, <3>5 DEF SettingsType
    <3> QED
      BY <3>4, <3>6
  <2>6. settings' \in SettingsType /\ (Excused => Excused')
        /\ (~Excused' => (settings'.filled => settings'.venue # Empty))
    <3>1. CASE settings' = settings
      BY <1>1, <3>1
    <3>2. CASE Ok(c) /\ calls[c].op = "read" /\ settings' = [Overlay(row, settings) EXCEPT !.filled = TRUE]
      BY <2>2, <2>3, <2>5, <3>2 DEF Excused
    <3>3. CASE \/ settings' = [settings EXCEPT !.saving = FALSE, !.status = IF Ok(c) THEN row.status ELSE @]
               \/ settings' = [settings EXCEPT !.status = IF Ok(c) THEN row.status ELSE @]
      <4> DEFINE status == IF Ok(c) THEN row.status ELSE settings.status
      <4>1. status \in {Empty, "draft", "published"}
        BY <1>1, <2>2 DEF EventRow, SettingsType
      <4>2. \/ settings' = [settings EXCEPT !.saving = FALSE, !.status = status]
            \/ settings' = [settings EXCEPT !.status = status]
        BY <3>3
      <4> HIDE DEF status
      <4>3. /\ settings' \in SettingsType /\ settings'.typed = settings.typed
            /\ settings'.blind = settings.blind /\ settings'.venue = settings.venue
            /\ settings'.filled = settings.filled
        BY <1>1, <4>1, <4>2 DEF SettingsType
      <4> QED
        BY <1>1, <4>3 DEF Excused
    <3> QED
      BY <2>4, <3>1, <3>2, <3>3
  <2> QED
    BY <1>1, <1>5, <2>1, <2>6
<1>10. CASE RetryCatalog(c)
  BY <1>1, <1>4, <1>10 DEF RetryCatalog
<1> QED
  BY <1>6, <1>7, <1>8, <1>9, <1>10

\* Where the catalogue starts.
LEMMA CatalogueStarts ==
  ASSUME CatalogStarts
  PROVE  /\ SoundTable(passes) /\ ordered \subseteq Passes /\ event \in EventRow
         /\ SoldPassesAreKept /\ event.venue # Empty
         /\ settings \in SettingsType /\ ~settings.filled
<1>1. SoundTable(passes)
  BY CatalogAssumption DEF CatalogStarts, SoundTable, Fitting
<1>2. ordered \subseteq Passes /\ SoldPassesAreKept
  BY DEF CatalogStarts, SoldPassesAreKept
<1>3. "kept" # Empty
  BY Zenon DEF Empty
<1>4. event \in EventRow /\ event.venue # Empty
  BY <1>3 DEF CatalogStarts, EventRow, Setting
<1>5. settings \in SettingsType /\ ~settings.filled
  BY DEF CatalogStarts, BlankSettings, SettingsType, Setting
<1> QED
  BY <1>1, <1>2, <1>4, <1>5

LEMMA EditorStarts ==
  /\ NoEditor \in EditorType /\ NoEditor.editing = NoEditor.origin /\ ~NoEditor.saving
  /\ \A id \in Passes, draft \in Draft :
       LET opened == [NoEditor EXCEPT !.open = TRUE, !.editing = id, !.draft = draft, !.origin = id]
       IN opened \in EditorType /\ opened.editing = opened.origin /\ ~opened.saving
<1>1. NoEditor \in EditorType /\ NoEditor.editing = NoEditor.origin /\ ~NoEditor.saving
  BY DraftsAreTyped DEF NoEditor, EditorType
<1> QED
  BY <1>1 DEF EditorType

\* Nothing is under way, and the cards are right or have to be loaded.
LEMMA QuietlyStarts ==
  ASSUME CatalogStarts, eventId \in BOOLEAN, resolving \in BOOLEAN, catalog \in CatalogType,
         ~catalog.loading, catalog.current => catalog.rows = Rows(passes),
         editor \in EditorType, editor.editing = editor.origin, ~editor.saving,
         calls = [c \in Calls |-> NoCall]
  PROVE  CatalogInv
<1>1. /\ SoundTable(passes) /\ ordered \subseteq Passes /\ event \in EventRow
      /\ SoldPassesAreKept /\ event.venue # Empty
      /\ settings \in SettingsType /\ ~settings.filled
  BY CatalogueStarts
<1>2. calls \in CallTable /\ \A c \in Calls : calls[c] = NoCall
  BY DEF CallTable
<1> QED
  BY <1>1, <1>2
     DEF CatalogInv, CatalogTypes, CallTable, CatalogType, EditorType, SettingsType, RequestsAreSound,
         VenuesAreKept, SavesAreAlone, Saving, ListsAreAwaited, CardsAreCurrent, Owed, Trusted, Listing

LEMMA CatalogInitially == ASSUME ColdStart \/ WarmStart \/ CatalogClosed PROVE CatalogInv
<1>1. CASE ColdStart
  <2>1. /\ SoundTable(passes) /\ ordered \subseteq Passes /\ event \in EventRow
        /\ SoldPassesAreKept /\ event.venue # Empty
        /\ settings \in SettingsType /\ ~settings.filled
    BY <1>1, CatalogueStarts DEF ColdStart
  <2> DEFINE resolve == Call("event", NoPass, NoBody)
             load == Call(IF page = "settings" THEN "read" ELSE "list", NoPass, NoBody)
  <2>2. /\ resolve \in Request /\ resolve # NoCall /\ resolve.op = "event" /\ resolve.step = "sent"
        /\ load \in Request /\ load # NoCall /\ load.op \in {"read", "list"} /\ load.step = "sent"
        /\ page # "settings" => load.op = "list"
    BY NewCalls DEF Body
  <2>3. calls = [c \in Calls |-> IF c = 1 THEN resolve ELSE IF c = 2 /\ eventId THEN load ELSE NoCall]
    BY <1>1 DEF ColdStart
  <2> HIDE DEF resolve, load
  <2>4. calls \in CallTable
    BY <2>2, <2>3 DEF CallTable
  <2>5. \A c \in Calls : calls[c] # NoCall => calls[c].op \in {"event", "read", "list"} /\ calls[c].step = "sent"
    BY <2>2, <2>3
  <2>6. eventId /\ page # "settings" => Listing(2)
    <3>1. eventId => calls[2] = load
      BY <2>3, CatalogGiven
    <3> QED
      BY <2>2, <3>1 DEF Listing
  <2>7. /\ catalog \in CatalogType /\ catalog.loading = eventId /\ ~catalog.current
        /\ eventId \in BOOLEAN /\ resolving \in BOOLEAN /\ editor = NoEditor
    BY <1>1 DEF ColdStart, CatalogType
  <2>8. CatalogTypes
    BY <2>1, <2>4, <2>7, EditorStarts DEF CatalogTypes, CatalogType, EditorType, SettingsType, CallTable
  <2>9. RequestsAreSound /\ VenuesAreKept
    BY <2>1, <2>5 DEF RequestsAreSound, SoundRequest, PassOps, VenuesAreKept, NamesAVenue
  <2>10. SavesAreAlone
    BY <2>5, <2>7, EditorStarts DEF SavesAreAlone, Saving
  <2>11. ListsAreAwaited
    BY <2>6, <2>7, CatalogGiven DEF ListsAreAwaited
  <2>12. CardsAreCurrent
    BY <2>5, <2>7 DEF CardsAreCurrent, Trusted, Listing
  <2> QED
    BY <2>1, <2>8, <2>9, <2>10, <2>11, <2>12 DEF CatalogInv
<1>2. CASE WarmStart
  <2>1. CatalogStarts /\ eventId = TRUE /\ resolving = FALSE /\ calls = [c \in Calls |-> NoCall]
        /\ catalog = [rows |-> Rows(passes), loading |-> FALSE, error |-> FALSE, current |-> TRUE]
    BY <1>2 DEF WarmStart
  <2>2. SoundTable(passes)
    BY <2>1, CatalogueStarts
  <2>3. Rows(passes) \in SUBSET Entry
    BY <2>2 DEF SoundTable, Fitting, Rows, Entry
  <2>4. ASSUME NEW r \in Shown(Rows(passes)), NEW draft \in TypedDrafts(DraftOf(r.pass))
        PROVE  r.id \in Passes /\ draft \in Draft
    <3>1. r.id \in Passes /\ r.pass \in PassRow
      BY <2>3 DEF Shown, Entry
    <3>2. DraftOf(r.pass) \in Draft
      BY <3>1, DraftsAreTyped
    <3> QED
      BY <3>1, <3>2, DraftsAreTyped DEF TypedDrafts
  <2> DEFINE opened == UNION {{[row |-> r, draft |-> d] : d \in TypedDrafts(DraftOf(r.pass))} :
                                r \in Shown(Rows(passes))}
             Opened(e) == [NoEditor EXCEPT !.open = TRUE, !.editing = e.row.id, !.draft = e.draft,
                                           !.origin = e.row.id]
  <2>5. \A e \in opened : e.row.id \in Passes /\ e.draft \in Draft
    BY <2>4
  <2>6. editor \in EditorType /\ editor.editing = editor.origin /\ ~editor.saving
    <3>1. editor = NoEditor \/ \E e \in opened : editor = Opened(e)
      BY <1>2 DEF WarmStart
    <3> HIDE DEF opened
    <3>2. ASSUME NEW e \in opened, editor = Opened(e)
          PROVE  editor \in EditorType /\ editor.editing = editor.origin /\ ~editor.saving
      <4> DEFINE id == e.row.id
                 draft == e.draft
      <4>1. id \in Passes /\ draft \in Draft
        BY <2>5
      <4>2. editor = [NoEditor EXCEPT !.open = TRUE, !.editing = id, !.draft = draft, !.origin = id]
        BY <3>2
      <4> HIDE DEF id, draft
      <4> QED
        BY <4>1, <4>2, EditorStarts
    <3> QED
      BY <3>1, <3>2, EditorStarts
  <2>7. catalog \in CatalogType /\ ~catalog.loading /\ catalog.rows = Rows(passes)
    BY <2>1, <2>3 DEF CatalogType
  <2> QED
    BY <2>1, <2>6, <2>7, QuietlyStarts
<1>3. CASE CatalogClosed
  <2>1. CatalogStarts /\ eventId = TRUE /\ resolving = FALSE /\ calls = [c \in Calls |-> NoCall]
        /\ editor = NoEditor
        /\ catalog = [rows |-> {}, loading |-> FALSE, error |-> FALSE, current |-> FALSE]
    BY <1>3 DEF CatalogClosed
  <2>2. catalog \in CatalogType /\ ~catalog.loading /\ ~catalog.current
    BY <2>1 DEF CatalogType
  <2> QED
    BY <2>1, <2>2, EditorStarts, QuietlyStarts
<1> QED
  BY <1>1, <1>2, <1>3

\* What is in the cards, by arithmetic.
LEMMA GaugesOfRows ==
  ASSUME NEW pass \in PassRow
  PROVE  /\ SoldOut(pass) <=> pass.total > 0 /\ pass.sold >= pass.total
         /\ Gauge(pass).bar <= 100
         /\ SoldOut(pass) => Gauge(pass).bar = 100
<1> DEFINE total == pass.total
           sold == pass.sold
           percent == (200 * sold + total) \div (2 * total)
<1>1. total \in Nat /\ sold \in Nat
  BY CatalogGiven DEF PassRow
<1>2. total > 0 => Gauge(pass) = [unlimited |-> FALSE, bar |-> IF percent > 100 THEN 100 ELSE percent]
  BY <1>1 DEF Gauge
<1>3. ~(total > 0) => Gauge(pass) = [unlimited |-> TRUE, bar |-> IF sold > 0 THEN 100 ELSE 0]
  BY <1>1 DEF Gauge
<1>4. total > 0 /\ sold >= total => percent >= 100
  <2> SUFFICES ASSUME total > 0, sold >= total PROVE percent >= 100
    OBVIOUS
  <2> HIDE DEF total, sold
  <2>1. 200 * sold + total >= 100 * (2 * total)
    BY <1>1
  <2>2. (100 * (2 * total)) \div (2 * total) = 100
    BY <1>1
  <2> QED
    BY <1>1, <2>1, <2>2
<1>5. total > 0 => percent \in Int
  BY <1>1
<1>6. Remaining(pass) = 0 <=> sold >= total
  BY <1>1 DEF Remaining
<1> HIDE DEF percent
<1>7. total > 0 => Gauge(pass).unlimited = FALSE /\ Gauge(pass).bar <= 100 /\ (sold >= total => Gauge(pass).bar = 100)
  BY <1>2, <1>4, <1>5
<1>8. ~(total > 0) => Gauge(pass).unlimited = TRUE /\ Gauge(pass).bar <= 100
  BY <1>3
<1> QED
  BY <1>6, <1>7, <1>8 DEF SoldOut

-----------------------------------------------------------------------------
(* The invariant of the catalogue. *)

LEMMA CatalogAnswersKeep == ASSUME CatalogInv, UNCHANGED page, CatalogAnswers PROVE CatalogInv'
<1>1. PICK c \in Calls :
        \/ ListTicketTypes(c) \/ ReadPass(c) \/ WritePass(c) \/ CreatePass(c) \/ ReadDeleted(c)
        \/ DeletePass(c) \/ ReadEvent(c) \/ UpdateEvent(c) \/ WriteEvent(c) \/ PublishEvent(c)
        \/ ResolveReturns(c) \/ ListReturns(c) \/ SaveReturns(c)
        \/ ChangeReturns(c) \/ SettingsReturn(c) \/ OtherReturns(c)
  BY DEF CatalogAnswers
<1>2. CASE ListTicketTypes(c)
  BY <1>2, ListTicketTypesIsKept
<1>3. CASE ReadPass(c) \/ ReadDeleted(c)
  BY <1>3, ReadsOfPassesAreKept
<1>4. CASE WritePass(c)
  BY <1>4, WritePassIsKept
<1>5. CASE CreatePass(c) \/ DeletePass(c)
  BY <1>5, OwnChangesAreKept
<1>6. CASE ReadEvent(c)
  BY <1>6, ReadEventIsKept
<1>7. CASE UpdateEvent(c)
  BY <1>7, UpdateEventIsKept
<1>8. CASE WriteEvent(c) \/ PublishEvent(c)
  BY <1>8, EventsAreWritten
<1>9. CASE ListReturns(c)
  BY <1>9, ListReturnsIsKept
<1>10. CASE SaveReturns(c)
  BY <1>10, SaveReturnsIsKept
<1>11. CASE ResolveReturns(c) \/ ChangeReturns(c) \/ SettingsReturn(c) \/ OtherReturns(c)
  BY <1>11, PagesTakeAnswers
<1> QED
  BY <1>1, <1>2, <1>3, <1>4, <1>5, <1>6, <1>7, <1>8, <1>9, <1>10, <1>11

LEMMA CatalogInitiativesKeep ==
  ASSUME CatalogInv, UNCHANGED page, CatalogInitiatives PROVE CatalogInv'
<1>1. CASE CatalogOthers
  <2>1. CASE Visit \/ \E i \in Passes : Sell(i) \/ Release(i)
    BY <2>1, OthersAreKept
  <2>2. CASE \E c \in Calls, i \in Passes, change \in Changes : OtherSaves(c, i, change)
    BY <2>2, ChangesAreSent
  <2> QED
    BY <1>1, <2>1, <2>2 DEF CatalogOthers
<1>2. CASE PassesPage
  <2>1. CASE \/ OpenCreate \/ Cancel \/ \E change \in Changes : Type(change)
             \/ \E row \in Cards : OpenEdit(row)
    BY <2>1, EditorIsKept
  <2>2. CASE \E c \in Calls : SaveDraft(c) \/ RetryCatalog(c)
    BY <2>2, SaveDraftIsKept, PagesTakeAnswers
  <2>3. CASE \E c \in Calls, row \in Cards : CloseSales(c, row) \/ RemovePass(c, row)
    BY <2>3, ChangesAreSent
  <2> QED
    BY <1>2, <2>1, <2>2, <2>3 DEF PassesPage
<1>3. CASE SettingsPage
  <2>1. CASE \E field \in {"title", "venue"}, text \in {Empty, "own"} : TypeSetting(field, text)
    BY <2>1, FieldsAreKept
  <2>2. CASE \E c \in Calls : SaveSettings(c) \/ Publish(c)
    BY <2>2, SettingsAreSent
  <2> QED
    BY <1>3, <2>1, <2>2 DEF SettingsPage
<1>4. CASE \E c \in Calls : CallFails(c)
  BY <1>4, LostCallsAreKept
<1> QED
  BY <1>1, <1>2, <1>3, <1>4 DEF CatalogInitiatives

LEMMA CatalogKept == ASSUME CatalogInv, UNCHANGED catalogVars PROVE CatalogInv'
  BY DEF catalogVars, catalogServer, catalogPage, CatalogInv, CatalogTypes, RequestsAreSound,
         VenuesAreKept, Excused, SavesAreAlone, Saving, ListsAreAwaited, Listing, CardsAreCurrent,
         Owed, Trusted, Rows, SoldPassesAreKept

\* A step of the administration is one of the catalogue, with its page, or leaves it.
LEMMA CatalogSteps ==
  ASSUME [Next]_adminVars
  PROVE  \/ UNCHANGED page /\ (CatalogAnswers \/ CatalogInitiatives)
         \/ UNCHANGED catalogVars
<1>1. CASE Answers
  BY <1>1 DEF Answers
<1>2. CASE Initiatives
  BY <1>2 DEF Initiatives
<1>3. CASE UNCHANGED listedVars
  BY <1>3 DEF listedVars
<1> QED
  BY <1>1, <1>2, <1>3 DEF Next, adminVars

\* The inductive invariant of the catalogue: types, and student passes that are free; what
\* requests ask for and have found; venues that nobody typed over; one saving at a time; a list
\* under way for whoever waits; cards and lists that are those of the table unless a change of
\* the page's own has still to be answered; passes with orders in the table.
THEOREM CatalogInvariant == Spec => []CatalogInv
<1>1. Init => CatalogInv
  BY CatalogInitially DEF Init
<1>2. CatalogInv /\ [Next]_adminVars => CatalogInv'
  BY CatalogSteps, CatalogKept, CatalogAnswersKeep, CatalogInitiativesKeep
<1> QED
  BY <1>1, <1>2, PTL DEF Spec

\* Free student passes, passes with orders, honest gauges, drafts and their pass, own changes
\* on the page, and settings: while others order, edit and delete, answers are lost and come in
\* any order, and pages know an older table.
THEOREM TheCatalogIsSound == Spec => []CatalogIsSound
<1>1. ASSUME CatalogInv PROVE CatalogTypeOK
  <2>1. ASSUME NEW i \in Passes, passes[i] # NoPass
        PROVE  /\ passes[i].price \in Nat /\ passes[i].total \in Nat
               /\ passes[i].sold \in 0 .. MaxSold
    BY <1>1, <2>1 DEF CatalogInv, CatalogTypes, SoundTable, Fitting, PassRow
  <2>2. catalog.loading /\ page = "passes" => Under("list") # {}
    BY <1>1 DEF CatalogInv, ListsAreAwaited, Listing, Under
  <2>3. editor.saving <=> Under("save") \cup Under("create") # {}
    BY <1>1 DEF CatalogInv, SavesAreAlone, Saving, Under
  <2> QED
    BY <1>1, <2>1, <2>2, <2>3 DEF CatalogInv, CatalogTypes, CatalogTypeOK
<1>2. ASSUME CatalogInv PROVE StudentPassesAreFree /\ SoldPassesAreKept /\ DraftsGoToTheirPass
  BY <1>2 DEF CatalogInv, CatalogTypes, SoundTable, Fitting, StudentPassesAreFree, DraftsGoToTheirPass
<1>3. ASSUME CatalogInv PROVE GaugesAreHonest
  <2>1. ASSUME NEW r \in Shown(catalog.rows) PROVE r.pass \in PassRow
    BY <1>3, <2>1 DEF CatalogInv, CatalogTypes, Shown, Entry
  <2> QED
    BY <2>1, GaugesOfRows DEF GaugesAreHonest
<1>4. ASSUME CatalogInv PROVE OwnChangesAreShown
  <2> SUFFICES ASSUME CatalogView \in {"cards", "empty"}, catalog.current,
                      \A c \in Calls : calls[c] # NoCall => calls[c].op \in {"event", "patch"}
               PROVE  catalog.rows = Rows(passes)
    BY DEF OwnChangesAreShown
  <2>1. ~catalog.error
    BY DEF CatalogView
  <2>2. \A c \in Calls : ~Owed(c) /\ ~Listing(c)
    BY DEF Owed, Listing
  <2> QED
    BY <1>4, <2>1, <2>2 DEF CatalogInv, CardsAreCurrent
<1>5. ASSUME CatalogInv PROVE FilledFormsEraseNothing
  BY <1>5 DEF CatalogInv, VenuesAreKept, Excused, FilledFormsEraseNothing
<1>6. CatalogInv => CatalogIsSound
  BY <1>1, <1>2, <1>3, <1>4, <1>5 DEF CatalogIsSound
<1> QED
  BY <1>6, CatalogInvariant, PTL
===============================================================================
