-------------------------------- MODULE Tenancy --------------------------------
(***************************************************************************)
(* One organization: its members and their roles, and the invites by which *)
(* people join it.                                                         *)
(*                                                                         *)
(* Handlers run concurrently in the control-plane processes.  Each reads   *)
(* with one statement after another and then writes with one more; no      *)
(* transaction spans them, and no write asks whether what was read still   *)
(* holds.  A handler may fail, or its process die, between any two.        *)
(*                                                                         *)
(* A person is known by an email address.  Tokens are not modelled: a      *)
(* token finds the invite it was last written to, and one that has been    *)
(* replaced finds nothing and changes nothing.                             *)
(***************************************************************************)
EXTENDS Naturals, FiniteSets

CONSTANTS
  People,     \* email addresses
  Handlers,   \* requests served at once
  MaxInvites, \* bound: invites created
  MaxOps      \* bound: operations begun

Invites == 1..MaxInvites

ASSUME TenancyAssumption == MaxInvites \in Nat /\ MaxOps \in Nat

VARIABLES
  registered,  \* people with a user account
  role,        \* role[u]: role in organization_members, "none" if there is no row
  email,       \* email[i]: whom invite i is for, {} before it is inserted
  status,      \* status[i]: "none" before invite i is inserted
  expired,     \* invites past their expires_at
  job,         \* job[h]: the operation handler h is in, and its locals
  ops,         \* operations begun (bounded by MaxOps)
  overlapped,  \* history: a transfer of ownership has overlapped another role change
  revoked,     \* history: invites a revoke has succeeded for
  raced        \* history: those another handler had looked up when they were last revoked

inviteVars == <<email, status, expired>>
historyVars == <<overlapped, revoked, raced>>
vars == <<registered, role, inviteVars, job, ops, historyVars>>

-----------------------------------------------------------------------------
Roles == {"member", "admin", "owner"}
RoleSteps == {"target", "count", "apply"}
InviteSteps == {"rotate", "revoke", "find", "create", "join", "admit", "mark"}
Steps == {"idle", "lookup", "add", "pending", "insert"} \cup RoleSteps \cup InviteSteps

\* step: what comes next; actor, who: the users concerned, {} or one; want: the role
\* asked for; seen: the role who had; invite: the invite looked up, 0 for none.
Job == [step : Steps, actor : SUBSET People, who : SUBSET People,
        want : Roles \cup {"none"}, seen : Roles \cup {"none"}, invite : Invites \cup {0}]

Idle == [step |-> "idle", actor |-> {}, who |-> {}, want |-> "none", seen |-> "none", invite |-> 0]

Owners == {u \in People : role[u] = "owner"}

\* CreateOrganization: its creator is the owner.
Init ==
  /\ \E owner \in People :
       /\ role = [u \in People |-> IF u = owner THEN "owner" ELSE "none"]
       /\ registered \in {R \in SUBSET People : owner \in R}
  /\ email = [i \in Invites |-> {}]
  /\ status = [i \in Invites |-> "none"]
  /\ expired = {}
  /\ job = [h \in Handlers |-> Idle]
  /\ ops = 0
  /\ overlapped = FALSE
  /\ revoked = {}
  /\ raced = {}

-----------------------------------------------------------------------------
(* Steps shared by the handlers *)

Begin(h, j) ==
  /\ job[h] = Idle
  /\ ops < MaxOps
  /\ ops' = ops + 1
  /\ job' = [job EXCEPT ![h] = j]

Goto(h, s) ==
  /\ job' = [job EXCEPT ![h].step = s]
  /\ UNCHANGED ops

Done(h) ==
  /\ job' = [job EXCEPT ![h] = Idle]
  /\ UNCHANGED ops

At(h, s) == job[h].step = s

\* INSERT ... ON CONFLICT DO NOTHING.
AddMember(u) ==
  role' = [role EXCEPT ![u] = IF @ = "none" THEN "member" ELSE @]

PendingFor(e) == {i \in Invites : status[i] = "pending" /\ email[i] = e}

\* Every early return with an error, a failed statement, a dead process: nothing that
\* was written is taken back.
Fail(h) ==
  /\ job[h] # Idle
  /\ Done(h)
  /\ UNCHANGED <<registered, role, inviteVars, historyVars>>

-----------------------------------------------------------------------------
(* UpdateOrgMemberRole: the actor's role, the target's, the owners, the change *)

\* ShouldDemoteActorOnOwnerTransfer
Transfers(j) == j.want = "owner" /\ j.who # j.actor

BeginRole(h, actor, u, want) ==
  LET j == [Idle EXCEPT !.step = "target", !.actor = {actor}, !.who = {u}, !.want = want]
  IN /\ role[actor] = "owner"
     /\ Begin(h, j)
     /\ overlapped' = (overlapped \/ \E g \in Handlers :
                         job[g].step \in RoleSteps /\ (Transfers(j) \/ Transfers(job[g])))
     /\ UNCHANGED <<registered, role, inviteVars, revoked, raced>>

ReadTarget(h) ==
  /\ At(h, "target")
  /\ \E u \in job[h].who :
       /\ role[u] # "none"
       /\ job' = [job EXCEPT ![h].step = "count", ![h].seen = role[u]]
  /\ UNCHANGED <<registered, role, inviteVars, ops, historyVars>>

\* Mutation: an organization without another owner is not the last one's.
SafeIfAny(j, owners) ==
  ~(j.want # "owner" /\ owners <= 0 /\ (j.who = j.actor \/ j.seen = "owner"))

\* AssertSoleOwnerSafe
Safe(j, owners) ==
  ~(j.want # "owner" /\ owners <= 1 /\ (j.who = j.actor \/ j.seen = "owner"))

CountOwners(h) ==
  /\ At(h, "count")
  /\ Safe(job[h], Cardinality(Owners))
  /\ Goto(h, "apply")
  /\ UNCHANGED <<registered, role, inviteVars, historyVars>>

\* One transaction, of two updates that ask nothing.
ApplyRoleChange(h) ==
  /\ At(h, "apply")
  /\ role' = [u \in People |->
       IF u \in job[h].who THEN job[h].want
       ELSE IF u \in job[h].actor /\ Transfers(job[h]) THEN "admin"
       ELSE role[u]]
  /\ Done(h)
  /\ UNCHANGED <<registered, inviteVars, historyVars>>

-----------------------------------------------------------------------------
(* InviteOrgMember: add a user, or rotate the pending invite, or insert one *)

BeginInvite(h, admin, u) ==
  /\ role[admin] \in {"admin", "owner"}
  /\ Begin(h, [Idle EXCEPT !.step = "lookup", !.who = {u}])
  /\ UNCHANGED <<registered, role, inviteVars, historyVars>>

\* FindByEmail, and GetMemberRole of the user it finds: users are never deleted, so the
\* two reads are one, of the later moment.
LookupInvitee(h) ==
  /\ At(h, "lookup")
  /\ \E u \in job[h].who :
       \/ u \in registered /\ role[u] = "none" /\ Goto(h, "add")
       \/ u \notin registered /\ Goto(h, "pending")
  /\ UNCHANGED <<registered, role, inviteVars, historyVars>>

AddInvitee(h) ==
  /\ At(h, "add")
  /\ \E u \in job[h].who : AddMember(u)
  /\ Done(h)
  /\ UNCHANGED <<registered, inviteVars, historyVars>>

\* GetPendingByOrgEmail
FindPending(h) ==
  /\ At(h, "pending")
  /\ \/ \E i \in PendingFor(job[h].who) :
          job' = [job EXCEPT ![h].step = "rotate", ![h].invite = i]
     \/ PendingFor(job[h].who) = {} /\ job' = [job EXCEPT ![h].step = "insert"]
  /\ UNCHANGED <<registered, role, inviteVars, ops, historyVars>>

\* The index allows one pending invite for an address.
InsertInvite(h) ==
  /\ At(h, "insert")
  /\ PendingFor(job[h].who) = {}
  /\ \E i \in Invites :
       /\ status[i] = "none"
       /\ \A j \in Invites : j < i => status[j] # "none"
       /\ email' = [email EXCEPT ![i] = job[h].who]
       /\ status' = [status EXCEPT ![i] = "pending"]
  /\ Done(h)
  /\ UNCHANGED <<registered, role, expired, historyVars>>

\* UpdateToken: whatever the status is by now, it is pending again.
RotateToken(h) ==
  /\ At(h, "rotate")
  /\ PendingFor(email[job[h].invite]) \subseteq {job[h].invite}
  /\ status' = [status EXCEPT ![job[h].invite] = "pending"]
  /\ expired' = expired \ {job[h].invite}
  /\ Done(h)
  /\ UNCHANGED <<registered, role, email, historyVars>>

-----------------------------------------------------------------------------
(* RevokeInvite, ResendInvite *)

BeginRevoke(h, i) ==
  /\ status[i] = "pending"
  /\ Begin(h, [Idle EXCEPT !.step = "revoke", !.invite = i])
  /\ UNCHANGED <<registered, role, inviteVars, historyVars>>

MarkRevoked(h) ==
  /\ At(h, "revoke")
  /\ status' = [status EXCEPT ![job[h].invite] = "revoked"]
  /\ revoked' = revoked \cup {job[h].invite}
  /\ raced' = {i \in raced \cup {job[h].invite} :
                 i = job[h].invite => \E g \in Handlers \ {h} : job[g].invite = i}
  /\ Done(h)
  /\ UNCHANGED <<registered, role, email, expired, overlapped>>

\* Mutation: the status is not looked at.
ResendAny(h, i) ==
  /\ status[i] # "none"
  /\ i \notin expired
  /\ Begin(h, [Idle EXCEPT !.step = "rotate", !.invite = i])
  /\ UNCHANGED <<registered, role, inviteVars, historyVars>>

BeginResend(h, i) ==
  /\ status[i] = "pending"
  /\ i \notin expired
  /\ Begin(h, [Idle EXCEPT !.step = "rotate", !.invite = i])
  /\ UNCHANGED <<registered, role, inviteVars, historyVars>>

-----------------------------------------------------------------------------
(* AcceptInvite: find or create the user, join, mark *)

BeginAccept(h, i) ==
  /\ status[i] = "pending"
  /\ i \notin expired
  /\ Begin(h, [Idle EXCEPT !.step = "find", !.who = email[i], !.invite = i])
  /\ UNCHANGED <<registered, role, inviteVars, historyVars>>

FindUser(h) ==
  /\ At(h, "find")
  /\ Goto(h, IF job[h].who \subseteq registered THEN "join" ELSE "create")
  /\ UNCHANGED <<registered, role, inviteVars, historyVars>>

\* An address has one account.
CreateUser(h) ==
  /\ At(h, "create")
  /\ job[h].who \cap registered = {}
  /\ registered' = registered \cup job[h].who
  /\ Goto(h, "join")
  /\ UNCHANGED <<role, inviteVars, historyVars>>

\* GetMemberRole: a member only has the invite marked.
Join(h) ==
  /\ At(h, "join")
  /\ \E u \in job[h].who : Goto(h, IF role[u] = "none" THEN "admit" ELSE "mark")
  /\ UNCHANGED <<registered, role, inviteVars, historyVars>>

Admit(h) ==
  /\ At(h, "admit")
  /\ \E u \in job[h].who : AddMember(u)
  /\ Goto(h, "mark")
  /\ UNCHANGED <<registered, inviteVars, historyVars>>

MarkAccepted(h) ==
  /\ At(h, "mark")
  /\ status' = [status EXCEPT ![job[h].invite] = "accepted"]
  /\ Done(h)
  /\ UNCHANGED <<registered, role, email, expired, historyVars>>

-----------------------------------------------------------------------------
(* Elsewhere *)

\* An account made by sign-in.
Register(u) ==
  /\ u \notin registered
  /\ registered' = registered \cup {u}
  /\ UNCHANGED <<role, inviteVars, job, ops, historyVars>>

Expire(i) ==
  /\ status[i] = "pending"
  /\ i \notin expired
  /\ expired' = expired \cup {i}
  /\ UNCHANGED <<registered, role, email, status, job, ops, historyVars>>

ChangeRole(h) ==
  \/ \E actor, u \in People, want \in Roles : BeginRole(h, actor, u, want)
  \/ ReadTarget(h) \/ CountOwners(h) \/ ApplyRoleChange(h)

InviteMember(h) ==
  \/ \E admin, u \in People : BeginInvite(h, admin, u)
  \/ LookupInvitee(h) \/ AddInvitee(h) \/ FindPending(h) \/ InsertInvite(h)
  \/ RotateToken(h)

ManageInvite(h) ==
  \/ \E i \in Invites : BeginRevoke(h, i) \/ BeginResend(h, i)
  \/ MarkRevoked(h)

AcceptInvite(h) ==
  \/ \E i \in Invites : BeginAccept(h, i)
  \/ FindUser(h) \/ CreateUser(h) \/ Join(h) \/ Admit(h) \/ MarkAccepted(h)

Next ==
  \/ \E h \in Handlers :
       ChangeRole(h) \/ InviteMember(h) \/ ManageInvite(h) \/ AcceptInvite(h) \/ Fail(h)
  \/ \E u \in People : Register(u)
  \/ \E i \in Invites : Expire(i)

Spec == Init /\ [][Next]_vars

-----------------------------------------------------------------------------
(* Properties *)

\* The types, and what the schema promises: a member has an account, and an address has
\* one pending invite (organization_invites_pending_org_email_uidx) although every
\* handler looks for it in one statement and inserts it in another.
TypeOK ==
  /\ registered \subseteq People
  /\ role \in [People -> Roles \cup {"none"}]
  /\ email \in [Invites -> SUBSET People]
  /\ status \in [Invites -> {"none", "pending", "accepted", "revoked"}]
  /\ expired \subseteq Invites
  /\ job \in [Handlers -> Job]
  /\ ops \in 0..MaxOps
  /\ overlapped \in BOOLEAN
  /\ revoked \subseteq Invites /\ raced \subseteq Invites
  /\ \A u \in People : role[u] # "none" => u \in registered
  /\ \A i, j \in Invites :
       status[i] = "pending" /\ status[j] = "pending" /\ email[i] = email[j] => i = j

\* As long as no transfer of ownership has overlapped another role change there is exactly
\* one owner: a transfer demotes the actor, and the last owner is never demoted, however
\* the other role changes interleave with one another, whatever handlers fail and whoever
\* joins between the reads and the write (UpdateOrgMemberRole).
OwnerUnlessOverlap == ~overlapped => \E o \in People : Owners = {o}

\* Whoever an accepted invite was for is a member, in every interleaving with other
\* accepts, invites and failures (AcceptInvite joins first and marks afterwards).
AcceptedIsMember ==
  \A i \in Invites : status[i] = "accepted" => \A u \in email[i] : role[u] # "none"

\* Joining never touches a role: a member's role changes only by a role change, although
\* invites and accepts read the membership long before they write it (ON CONFLICT DO
\* NOTHING).
JoiningKeepsRoles ==
  [][\A u \in People : role'[u] # role[u] =>
       \/ role[u] = "none" /\ role'[u] = "member"
       \/ \E h \in Handlers : At(h, "apply") /\ u \in job[h].who \cup job[h].actor]_vars

\* An invite revoked while no other handler had looked it up stays revoked, even if an
\* earlier revocation of it was overwritten: resend, accept and a new invite look at the
\* status first (RevokeInvite).
RevokeHolds == \A i \in revoked \ raced : status[i] = "revoked"
=============================================================================
