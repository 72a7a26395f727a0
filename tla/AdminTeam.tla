-------------------------------- MODULE AdminTeam --------------------------------
(***************************************************************************)
(* The team of the organisation: UsersPage and AcceptInvitePage of the     *)
(* administration with their service, and the routes they call             *)
(* (backend/http_layer/routes/orgs.py, extras.py; signup_with_invite of    *)
(* backend/auth/service.py), statement by statement: each commits by       *)
(* itself.  Several members have UsersPage open, each with the list it     *)
(* read; a person is identified by their e-mail address.                   *)
(***************************************************************************)
EXTENDS Integers, FiniteSets

CONSTANTS
  People,
  Teams,            \* the members to start from: [People -> Role \cup {"none"}]
  Invitees,         \* who may be invited
  Invites,          \* ids of invitations
  Invitations,      \* the table org_invites to start from
  TeamCalls,        \* bound: slots for requests under way
  NoTeamCall

Role == {"scanner", "admin", "owner"}
Members == [People -> Role \cup {"none"}]
Invitation ==
  [email : People \cup {"none"}, role : Role \cup {"none"},
   status : {"free", "pending", "accepted", "expired", "deleted"}]

\* A request of UsersPage or AcceptInvitePage: what it is about, and what it found so far.
TeamCallType ==
  [op : {"list", "role", "invite", "revoke", "signup", "accept"}, by : People,
   about : People \cup Invites, role : Role \cup {"none"},
   step : {"sent", "read", "created", "added", "done", "refused"},
   found : {"none"} \cup Members \cup [members : Members, invites : SUBSET Invites] \cup Invitation]

\* An organisation is created with an owner; only ids that are free have no address.
ASSUME TeamAssumption ==
  /\ TeamCalls \subseteq Nat /\ IsFiniteSet(People)
  /\ Invitees \subseteq People
  /\ \A t \in Teams : t \in Members /\ \E p \in People : t[p] = "owner"
  /\ \A t \in Invitations :
       /\ t \in [Invites -> Invitation]
       /\ \A i \in Invites : t[i].status # "free" => t[i].email \in People /\ t[i].role \in Role
  /\ NoTeamCall \notin TeamCallType

VARIABLES
  members,          \* table org_members: the role of each person
  accounts,         \* table users
  invites,          \* table org_invites: email, role, status
  joined,           \* history: how many memberships an invitation gave
  teamCalls,
  team,             \* UsersPage of each person: members, invites, status
  joining           \* AcceptInvitePage of each person: "idle", "busy", "dashboard"

teamServer == <<members, accounts, invites, joined>>
teamVars == <<teamServer, teamCalls, team, joining>>

-----------------------------------------------------------------------------
(* Roles. *)

Rank(role) == CASE role = "scanner" -> 1 [] role = "admin" -> 2 [] role = "owner" -> 3 [] OTHER -> 0
Manages(p) == Rank(members[p]) >= Rank("admin")       \* can_manage_org(ROLE_ADMIN)

\* patch_member, on the rows it reads.
ApiAllows(p, m, role) ==
  /\ Manages(p) /\ members[m] # "none"
  /\ Rank(members[m]) <= Rank(members[p]) /\ Rank(role) <= Rank(members[p])
  /\ members[m] = "owner" /\ role # "owner" => \E o \in People \ {m} : members[o] = "owner"

\* canEditMember and roleOptionsFor, on the list the page of p has.
Listed(p, m) == team[p].members[m]
CanEdit(p, m) ==
  /\ Listed(p, p) # "none" /\ m # p
  /\ Listed(p, m) = "owner" => Listed(p, p) = "owner"
  /\ Rank(Listed(p, m)) <= Rank(Listed(p, p))

OptionsForOwners(p, m) ==                                  \* mutated form: owners like others
  {"scanner", "admin"} \cup (IF Listed(p, p) = "owner" THEN {"owner"} ELSE {})
RoleOptions(p, m) ==
  IF Listed(p, p) = "owner" /\ Listed(p, m) = "owner" THEN {"owner"}
  ELSE {"scanner", "admin"} \cup (IF Listed(p, p) = "owner" THEN {"owner"} ELSE {})

TeamView(p) == team[p].status
Offered(p, m) ==
  IF TeamView(p) = "table" /\ Listed(p, m) # "none" /\ CanEdit(p, m)
  THEN RoleOptions(p, m) \ {Listed(p, m)} ELSE {}

-----------------------------------------------------------------------------
(* Requests of UsersPage. *)

TeamCall(op, p, about, role) ==
  [op |-> op, by |-> p, about |-> about, role |-> role, step |-> "sent", found |-> "none"]
TeamFree(c) == teamCalls[c] = NoTeamCall /\ \A d \in TeamCalls : d < c => teamCalls[d] # NoTeamCall
TeamSend(c, call) == TeamFree(c) /\ teamCalls' = [teamCalls EXCEPT ![c] = call]
TeamAt(c, op, step) == teamCalls[c] # NoTeamCall /\ teamCalls[c].op = op /\ teamCalls[c].step = step
TeamStep(c, step) == teamCalls' = [teamCalls EXCEPT ![c].step = step]
TeamTaken(c) == teamCalls' = [teamCalls EXCEPT ![c] = NoTeamCall]

LoadTeam(p) == TeamCall("list", p, p, "none")
Loading(p) == team' = [team EXCEPT ![p].status = "loading"]

RetryTeam(c, p) ==
  /\ TeamView(p) = "error"
  /\ TeamSend(c, LoadTeam(p)) /\ Loading(p)
  /\ UNCHANGED <<teamServer, joining>>

ChangeRole(c, p, m, role) ==
  /\ role \in Offered(p, m)
  /\ TeamSend(c, TeamCall("role", p, m, role))
  /\ UNCHANGED <<teamServer, team, joining>>

\* The form is there whatever became of the list.
Invite(c, p, m, role) ==
  /\ TeamView(p) # "closed"
  /\ TeamSend(c, TeamCall("invite", p, m, role))
  /\ UNCHANGED <<teamServer, team, joining>>

Revoke(c, p, i) ==
  /\ TeamView(p) = "table" /\ i \in team[p].invites
  /\ TeamSend(c, TeamCall("revoke", p, i, "none"))
  /\ UNCHANGED <<teamServer, team, joining>>

\* Two requests, the members first here.  An invitation is listed until it is accepted or
\* revoked, also when it has expired.
Pending == {i \in Invites : invites[i].status \in {"pending", "expired"}}
ListMembers(c) ==
  /\ TeamAt(c, "list", "sent")
  /\ IF Manages(teamCalls[c].by)
     THEN teamCalls' = [teamCalls EXCEPT ![c].step = "read", ![c].found = members]
     ELSE TeamStep(c, "refused")
  /\ UNCHANGED <<teamServer, team, joining>>

ListInvites(c) ==
  /\ TeamAt(c, "list", "read")
  /\ IF Manages(teamCalls[c].by)
     THEN teamCalls' = [teamCalls EXCEPT ![c].step = "done",
                                         ![c].found = [members |-> @, invites |-> Pending]]
     ELSE TeamStep(c, "refused")
  /\ UNCHANGED <<teamServer, team, joining>>

\* PATCH /orgs/{id}/members/{user}: reads and checks, then an UPDATE of its own.
CheckRole(c) ==
  /\ TeamAt(c, "role", "sent")
  /\ TeamStep(c, IF ApiAllows(teamCalls[c].by, teamCalls[c].about, teamCalls[c].role)
                 THEN "read" ELSE "refused")
  /\ UNCHANGED <<teamServer, team, joining>>

WriteRole(c) ==
  /\ TeamAt(c, "role", "read")
  /\ members' = [members EXCEPT ![teamCalls[c].about] = teamCalls[c].role]
  /\ TeamStep(c, "done")
  /\ UNCHANGED <<accounts, invites, joined, team, joining>>

\* POST /orgs/{id}/invites and DELETE /invites/{id}.
CreateInvite(c) ==
  /\ TeamAt(c, "invite", "sent")
  /\ LET call == teamCalls[c]
     IN IF Manages(call.by) /\ Rank(call.role) <= Rank(members[call.by])
        THEN /\ \E i \in Invites :
                  /\ invites[i].status = "free"
                  /\ invites' = [invites EXCEPT ![i] =
                       [email |-> call.about, role |-> call.role, status |-> "pending"]]
             /\ TeamStep(c, "done")
        ELSE TeamStep(c, "refused") /\ UNCHANGED invites
  /\ UNCHANGED <<members, accounts, joined, team, joining>>

DeleteInvite(c) ==
  /\ TeamAt(c, "revoke", "sent")
  /\ LET i == teamCalls[c].about
     IN IF Manages(teamCalls[c].by) /\ invites[i].status # "deleted"
        THEN invites' = [invites EXCEPT ![i].status = "deleted"] /\ TeamStep(c, "done")
        ELSE UNCHANGED invites /\ TeamStep(c, "refused")
  /\ UNCHANGED <<members, accounts, joined, team, joining>>

TeamListed(c) ==
  LET p == teamCalls[c].by
  IN /\ \/ /\ TeamAt(c, "list", "done")
           /\ team' = [team EXCEPT ![p] = [members |-> teamCalls[c].found.members,
                                           invites |-> teamCalls[c].found.invites, status |-> "table"]]
        \/ TeamAt(c, "list", "refused") /\ team' = [team EXCEPT ![p].status = "error"]
     /\ TeamTaken(c)
     /\ UNCHANGED <<teamServer, joining>>

\* changeRole, invite and revoke read the list again when they succeeded.
TeamChanged(c) ==
  /\ \E op \in {"role", "invite", "revoke"} :
       \/ /\ TeamAt(c, op, "done")
          /\ teamCalls' = [teamCalls EXCEPT ![c] = LoadTeam(teamCalls[c].by)]
          /\ Loading(teamCalls[c].by)
       \/ TeamAt(c, op, "refused") /\ TeamTaken(c) /\ UNCHANGED team
  /\ UNCHANGED <<teamServer, joining>>

-----------------------------------------------------------------------------
(* AcceptInvitePage. *)

\* signup: an account, the invitation, then a login.  login, or a session that is open:
\* POST /invites/accept.
Accept(c, p, i, mode) ==
  /\ joining[p] = "idle" /\ invites[i].status # "free"
  /\ mode = "accept" => p \in accounts
  /\ TeamSend(c, TeamCall(mode, p, i, "none"))
  /\ joining' = [joining EXCEPT ![p] = "busy"]
  /\ UNCHANGED <<teamServer, team>>

Accepting(c, step) == TeamAt(c, "signup", step) \/ TeamAt(c, "accept", step)

ReadInvite(c) ==
  /\ Accepting(c, "sent")
  /\ LET call == teamCalls[c] invite == invites[call.about]
         valid == /\ invite.status = "pending"
                  /\ IF call.op = "signup" THEN invite.email \notin accounts
                     ELSE call.by = invite.email
     IN teamCalls' = [teamCalls EXCEPT ![c].step = IF valid THEN "read" ELSE "refused",
                                       ![c].found = invite]
  /\ UNCHANGED <<teamServer, team, joining>>

\* create_user; users.email is unique.
CreateUser(c) ==
  /\ TeamAt(c, "signup", "read")
  /\ LET email == teamCalls[c].found.email
     IN IF email \in accounts THEN TeamStep(c, "refused") /\ UNCHANGED accounts
        ELSE TeamStep(c, "created") /\ accounts' = accounts \cup {email}
  /\ UNCHANGED <<members, invites, joined, team, joining>>

\* add_org_member: the primary key refuses a second membership.
Readmit(c) ==                                              \* mutated form: ON CONFLICT DO UPDATE
  /\ TeamAt(c, "accept", "read") \/ TeamAt(c, "signup", "created")
  /\ LET invite == teamCalls[c].found
     IN /\ members' = [members EXCEPT ![invite.email] = invite.role]
        /\ joined' = [joined EXCEPT ![teamCalls[c].about] = @ + 1]
        /\ TeamStep(c, "added")
  /\ UNCHANGED <<accounts, invites, team, joining>>

AddMember(c) ==
  /\ TeamAt(c, "accept", "read") \/ TeamAt(c, "signup", "created")
  /\ LET invite == teamCalls[c].found
     IN IF members[invite.email] # "none"
        THEN TeamStep(c, "refused") /\ UNCHANGED <<members, joined>>
        ELSE /\ members' = [members EXCEPT ![invite.email] = invite.role]
             /\ joined' = [joined EXCEPT ![teamCalls[c].about] = @ + 1]
             /\ TeamStep(c, "added")
  /\ UNCHANGED <<accounts, invites, team, joining>>

\* mark_invite_accepted, an UPDATE that finds no row when the invitation was revoked.
MarkAccepted(c) ==
  /\ Accepting(c, "added")
  /\ invites' = [invites EXCEPT ![teamCalls[c].about].status = IF @ = "deleted" THEN @ ELSE "accepted"]
  /\ TeamStep(c, "done")
  /\ UNCHANGED <<members, accounts, joined, team, joining>>

\* After a signup the page logs in with the address that was typed.
Accepted(c) ==
  LET call == teamCalls[c]
  IN /\ Accepting(c, "done") \/ Accepting(c, "refused")
     /\ joining' = [joining EXCEPT ![call.by] =
          IF call.step = "done" /\ (call.op = "signup" => call.by = call.found.email)
          THEN "dashboard" ELSE "idle"]
     /\ TeamTaken(c)
     /\ UNCHANGED <<teamServer, team>>

-----------------------------------------------------------------------------
(* Faults, time, composition. *)

\* The server dies between two statements, or the network fails.
TeamCallFails(c) ==
  /\ teamCalls[c] # NoTeamCall /\ teamCalls[c].step # "refused"
  /\ TeamStep(c, "refused")
  /\ UNCHANGED <<teamServer, team, joining>>

ExpireInvite(i) ==
  /\ invites[i].status = "pending"
  /\ invites' = [invites EXCEPT ![i].status = "expired"]
  /\ UNCHANGED <<members, accounts, joined, teamCalls, team, joining>>

\* UsersPage of everybody who may see it is open, with the list of now.
TeamInit ==
  /\ members \in Teams
  /\ accounts \in {{p \in People : members[p] # "none"}, People}
  /\ invites \in Invitations
  /\ joined = [i \in Invites |-> 0]
  /\ teamCalls = [c \in TeamCalls |-> NoTeamCall]
  /\ team = [p \in People |-> [members |-> members, invites |-> Pending,
               status |-> IF Manages(p) THEN "table" ELSE IF members[p] = "scanner" THEN "error" ELSE "closed"]]
  /\ joining = [p \in People |-> "idle"]

TeamAnswers ==
  \E c \in TeamCalls :
    \/ ListMembers(c) \/ ListInvites(c) \/ CheckRole(c) \/ WriteRole(c) \/ CreateInvite(c)
    \/ DeleteInvite(c) \/ TeamListed(c) \/ TeamChanged(c) \/ ReadInvite(c) \/ CreateUser(c)
    \/ AddMember(c) \/ MarkAccepted(c) \/ Accepted(c)

TeamInitiatives ==
  \/ \E c \in TeamCalls, p \in People : RetryTeam(c, p)
  \/ \E c \in TeamCalls, p, m \in People, role \in Role : ChangeRole(c, p, m, role)
  \/ \E c \in TeamCalls, p \in People, m \in Invitees, role \in {"scanner", "admin"} :
       Invite(c, p, m, role)
  \/ \E c \in TeamCalls, p \in People, i \in Invites :
       Revoke(c, p, i) \/ \E mode \in {"signup", "accept"} : Accept(c, p, i, mode)
  \/ \E c \in TeamCalls : TeamCallFails(c)
  \/ \E i \in Invites : ExpireInvite(i)

-----------------------------------------------------------------------------
(* Properties. *)

\* The tables and pages keep their types; a page that is busy waits for an answer.
TeamTypeOK ==
  /\ members \in Members
  /\ accounts \subseteq People
  /\ \A p \in People : members[p] # "none" => p \in accounts
  /\ \A p \in People :
       /\ team[p].status = "loading" => \E c \in TeamCalls :
            teamCalls[c] # NoTeamCall /\ teamCalls[c].op = "list" /\ teamCalls[c].by = p
       /\ joining[p] = "busy" => \E c \in TeamCalls :
            teamCalls[c] # NoTeamCall /\ teamCalls[c].op \in {"signup", "accept"} /\ teamCalls[c].by = p

\* The organisation keeps an owner, whatever the members do at once from their pages:
\* patch_member counts the owners in one statement and demotes in another, and nothing but
\* the options of the page keeps two owners from demoting each other.
OrganisationKeepsAnOwner == \E p \in People : members[p] = "owner"

\* A role that the page offers, on a list that is still right, is one the API accepts.
OfferedRolesAreAccepted ==
  \A p, m \in People :
    team[p].members = members => \A role \in Offered(p, m) : ApiAllows(p, m, role)

\* An invitation makes one person a member once, however often it is accepted at the same
\* time, and after a crash in the middle.
InvitesAreUsedOnce == \A i \in Invites : joined[i] <= 1

\* The team, with crashes between the statements of an invitation: types, offered roles, and
\* invitations.
TeamIsSound == TeamTypeOK /\ OfferedRolesAreAccepted /\ InvitesAreUsedOnce
=============================================================================
