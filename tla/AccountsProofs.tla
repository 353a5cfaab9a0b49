----------------------------- MODULE AccountsProofs -----------------------------
(***************************************************************************)
(* The safety properties of Tenancy, Teams (T) and SignIn (S), for every    *)
(* set of people, every number of handlers and requests and every bound.   *)
(***************************************************************************)
EXTENDS MCAccounts, FiniteSetTheorems, TLAPS

-----------------------------------------------------------------------------
(* The inductive invariant *)

\* An invite is looked up exactly by the handlers that write it, after it was inserted.
LookedUp(h) ==
  /\ job[h].invite # 0 <=> job[h].step \in InviteSteps
  /\ job[h].invite # 0 => status[job[h].invite] # "none"

\* Every invite is for one person.
AddressInv == \A i \in Invites : status[i] # "none" => \E u \in People : email[i] = {u}

\* An accept works for the person of its invite, who has an account when it joins them
\* and is a member when it marks the invite.
Accepting(h) ==
  /\ job[h].step \in {"find", "create", "join", "admit", "mark"} =>
       job[h].who = email[job[h].invite]
  /\ job[h].step \in {"add", "join", "admit", "mark"} => job[h].who \subseteq registered
  /\ job[h].step = "mark" => \A u \in job[h].who : role[u] # "none"
  /\ job[h].step \notin {"idle", "rotate", "revoke"} => \E u \in People : job[h].who = {u}

\* A role change has one actor and one target, both members once they have been read.
Changing(h) ==
  job[h].step \in RoleSteps =>
    /\ job[h].want \in Roles
    /\ \E a, u \in People :
         /\ job[h].actor = {a} /\ job[h].who = {u}
         /\ role[a] # "none"
         /\ job[h].step # "target" => role[u] # "none"

JobsOK == \A h \in Handlers : LookedUp(h) /\ Accepting(h) /\ Changing(h)

\* Nobody holds an invite whose last revocation nobody raced.
RevokeInv ==
  \A i \in revoked \ raced : status[i] = "revoked" /\ \A h \in Handlers : job[h].invite # i

\* Two role changes may be under way at once, neither of which moves the ownership.
NoTransferMet(g, h) ==
  job[g].step \in RoleSteps /\ job[h].step \in RoleSteps =>
    g = h \/ (~Transfers(job[g]) /\ ~Transfers(job[h]))

\* Unless a transfer has overlapped, what role changes have read of the ownership holds.
OwnerInv ==
  ~overlapped =>
    /\ \E o \in People : Owners = {o}
    /\ \A g, h \in Handlers : NoTransferMet(g, h)
    /\ \A h \in Handlers : job[h].step \in RoleSteps =>
         /\ job[h].actor \subseteq Owners
         /\ job[h].step \in {"count", "apply"} => \A u \in job[h].who : job[h].seen = "owner" <=> u \in Owners
         /\ job[h].step = "apply" => Safe(job[h], 1)

IInv ==
  TypeOK /\ JobsOK /\ AddressInv /\ AcceptedIsMember /\ RevokeInv /\ OwnerInv

USE TenancyAssumption DEF Invites, Roles

-----------------------------------------------------------------------------
(* How a step moves a handler *)

\* The other handlers stay where they are.
Alone(h) == \A g \in Handlers \ {h} : job'[g] = job[g]

\* Accounts, memberships and invites are there to stay.
Grows ==
  /\ registered \subseteq registered'
  /\ \A u \in People : role[u] # "none" => role'[u] # "none"
  /\ \A i \in Invites : status[i] # "none" => status'[i] # "none" /\ email'[i] = email[i]

LEMMA Begun ==
  ASSUME TypeOK, NEW h \in Handlers, NEW j \in Job, Begin(h, j)
  PROVE  /\ job' \in [Handlers -> Job] /\ ops' \in 0..MaxOps
         /\ job'[h] = j /\ Alone(h) /\ job[h] = Idle
<1>1. ops' \in 0..MaxOps
  BY DEF TypeOK, Begin
<1> QED
  BY <1>1 DEF TypeOK, Begin, Alone

LEMMA Went ==
  ASSUME TypeOK, NEW h \in Handlers, NEW s \in Steps, Goto(h, s)
  PROVE  /\ job' \in [Handlers -> Job] /\ ops' \in 0..MaxOps /\ Alone(h)
         /\ job'[h].step = s /\ job'[h].invite = job[h].invite
         /\ job'[h].actor = job[h].actor /\ job'[h].who = job[h].who
         /\ job'[h].want = job[h].want /\ job'[h].seen = job[h].seen
BY DEF TypeOK, Goto, Alone, Job

LEMMA Ended ==
  ASSUME TypeOK, NEW h \in Handlers, Done(h)
  PROVE  /\ job' \in [Handlers -> Job] /\ ops' \in 0..MaxOps /\ Alone(h)
         /\ job'[h].step = "idle" /\ job'[h].invite = 0
BY DEF TypeOK, Done, Alone, Job, Idle, Steps

-----------------------------------------------------------------------------
(* What a step keeps of each part of the invariant *)

LEMMA JobsKept ==
  ASSUME TypeOK, JobsOK, Grows, NEW h \in Handlers, Alone(h),
         (LookedUp(h) /\ Accepting(h) /\ Changing(h))'
  PROVE  JobsOK'
<1> SUFFICES ASSUME NEW g \in Handlers, g # h
             PROVE  (LookedUp(g) /\ Accepting(g) /\ Changing(g))'
  BY DEF JobsOK
<1>1. job'[g] = job[g] /\ job[g] \in Job
  BY DEF Alone, TypeOK
<1>2. LookedUp(g) /\ Accepting(g) /\ Changing(g)
  BY DEF JobsOK
<1>3. job[g].invite \in Invites \cup {0} /\ job[g].who \subseteq People
  BY <1>1 DEF Job
<1>4. LookedUp(g)'
  BY <1>1, <1>2, <1>3 DEF LookedUp, Grows
<1>5. Accepting(g)'
  <2>1. job[g].step \in {"find", "create", "join", "admit", "mark"} => job[g].invite # 0
    BY <1>2 DEF LookedUp, InviteSteps
  <2> QED
    BY <1>1, <1>2, <1>3, <2>1 DEF LookedUp, Accepting, Grows
<1>6. Changing(g)'
  BY <1>1, <1>2 DEF Changing, Grows, RoleSteps
<1> QED
  BY <1>4, <1>5, <1>6

\* A handler that has ended holds nothing.
LEMMA JobsKeptAtEnd ==
  ASSUME TypeOK, JobsOK, Grows, NEW h \in Handlers, Done(h)
  PROVE  JobsOK'
<1>1. (LookedUp(h) /\ Accepting(h) /\ Changing(h))'
  BY Ended DEF LookedUp, Accepting, Changing, RoleSteps, InviteSteps
<1> QED
  BY <1>1, Ended, JobsKept

LEMMA AcceptedKept ==
  ASSUME TypeOK, AcceptedIsMember, Grows,
         \A i \in Invites : status'[i] = "accepted" =>
           \/ status[i] = "accepted"
           \/ \A u \in email'[i] : role'[u] # "none"
  PROVE  AcceptedIsMember'
<1> SUFFICES ASSUME NEW i \in Invites, status'[i] = "accepted", status[i] = "accepted"
             PROVE  \A u \in email'[i] : role'[u] # "none"
  BY DEF AcceptedIsMember
<1>1. email'[i] = email[i] /\ email[i] \subseteq People
  BY DEF Grows, TypeOK
<1> QED
  BY <1>1 DEF AcceptedIsMember, Grows

\* A handler takes up no revoked invite, and writes no invite but its own.
LEMMA RevokeKept ==
  ASSUME RevokeInv, NEW h \in Handlers, Alone(h), UNCHANGED <<revoked, raced>>,
         TypeOK,
         \/ job'[h].invite \in {0, job[h].invite}
         \/ job'[h].invite \in Invites /\ status[job'[h].invite] # "revoked",
         \A i \in Invites : status[i] = "revoked" /\ i # job[h].invite => status'[i] = "revoked"
  PROVE  RevokeInv'
<1> SUFFICES ASSUME NEW i \in revoked \ raced
             PROVE  status'[i] = "revoked" /\ \A g \in Handlers : job'[g].invite # i
  BY DEF RevokeInv
<1>1. i \in Invites /\ status[i] = "revoked" /\ \A g \in Handlers : job[g].invite # i
  BY DEF RevokeInv, TypeOK
<1>2. i # 0
  BY <1>1
<1> QED
  BY <1>1, <1>2 DEF Alone

\* Whoever joins does not become an owner, and what role changes have read is kept.
LEMMA OwnerKept ==
  ASSUME TypeOK, JobsOK, OwnerInv, NEW h \in Handlers, Alone(h),
         role' \in [People -> Roles \cup {"none"}],
         job'[h].step \notin RoleSteps, overlapped' = overlapped,
         \A u \in People : role'[u] # role[u] => role[u] = "none" /\ role'[u] = "member"
  PROVE  OwnerInv'
<1> SUFFICES ASSUME ~overlapped PROVE OwnerInv'
  BY DEF OwnerInv
<1>1. Owners' = Owners
  BY DEF Owners
<1>2. ASSUME NEW g \in Handlers, job'[g].step \in RoleSteps
      PROVE  g # h /\ job'[g] = job[g]
  BY <1>2 DEF Alone
<1>3. \A g, k \in Handlers : NoTransferMet(g, k)'
  BY <1>2 DEF OwnerInv, NoTransferMet, Transfers
<1>4. ASSUME NEW g \in Handlers, job'[g].step \in RoleSteps
      PROVE  /\ job'[g].actor \subseteq Owners'
             /\ job'[g].step \in {"count", "apply"} =>
                  \A u \in job'[g].who : job'[g].seen = "owner" <=> u \in Owners'
             /\ job'[g].step = "apply" => Safe(job'[g], 1)
  <2>1. job'[g] = job[g]
    BY <1>2, <1>4
  <2> QED
    BY <1>1, <1>4, <2>1 DEF OwnerInv
<1>5. \E o \in People : Owners' = {o}
  BY <1>1 DEF OwnerInv
<1> QED
  BY <1>3, <1>4, <1>5 DEF OwnerInv, Safe

-----------------------------------------------------------------------------
(* Steps that only move their handler *)

\* A handler that reads keeps the invariant if its own part holds afterwards.
LEMMA Reads ==
  ASSUME IInv, NEW h \in Handlers, Alone(h),
         job' \in [Handlers -> Job], ops' \in 0..MaxOps,
         UNCHANGED <<registered, role, inviteVars, historyVars>>,
         (LookedUp(h) /\ Accepting(h) /\ Changing(h))',
         job'[h].step \notin RoleSteps,
         \/ job'[h].invite \in {0, job[h].invite}
         \/ job'[h].invite \in Invites /\ status[job'[h].invite] = "pending"
  PROVE  IInv'
<1>1. TypeOK'
  BY DEF IInv, TypeOK, inviteVars, historyVars
<1>2. Grows
  BY DEF Grows, inviteVars
<1>3. JobsOK'
  BY <1>2, JobsKept DEF IInv
<1>4. AcceptedIsMember'
  BY <1>2, AcceptedKept DEF IInv, inviteVars
<1>5. RevokeInv'
  BY RevokeKept DEF IInv, inviteVars, historyVars
<1>6. OwnerInv'
  <2>1. /\ role' \in [People -> Roles \cup {"none"}]
        /\ overlapped' = overlapped
        /\ \A u \in People : role'[u] = role[u]
    BY DEF IInv, TypeOK, historyVars
  <2>2. TypeOK /\ JobsOK /\ OwnerInv
    BY DEF IInv
  <2> QED
    BY <2>1, <2>2, OwnerKept
<1>7. AddressInv'
  BY DEF IInv, AddressInv, inviteVars
<1> QED
  BY <1>1, <1>3, <1>4, <1>5, <1>6, <1>7 DEF IInv

LEMMA FailInv == ASSUME IInv, NEW h \in Handlers, Fail(h) PROVE IInv'
<1>1. TypeOK
  BY DEF IInv
<1>2. (LookedUp(h) /\ Accepting(h) /\ Changing(h))'
  BY <1>1, Ended DEF Fail, LookedUp, Accepting, Changing, RoleSteps, InviteSteps
<1> QED
  BY <1>1, <1>2, Ended, Reads DEF Fail, RoleSteps

LEMMA BeginInviteInv ==
  ASSUME IInv, NEW h \in Handlers, NEW admin \in People, NEW u \in People,
         BeginInvite(h, admin, u)
  PROVE  IInv'
<1> DEFINE j == [Idle EXCEPT !.step = "lookup", !.who = {u}]
<1>1. j \in Job /\ j.step = "lookup" /\ j.invite = 0 /\ j.who = {u}
  BY DEF Idle, Job, Steps
<1>2. TypeOK /\ Begin(h, j)
  BY DEF IInv, BeginInvite
<1> HIDE DEF j
<1>3. job'[h] = j /\ Alone(h) /\ job' \in [Handlers -> Job] /\ ops' \in 0..MaxOps
  BY <1>1, <1>2, Begun
<1>4. (LookedUp(h) /\ Accepting(h) /\ Changing(h))'
  BY <1>1, <1>3 DEF LookedUp, Accepting, Changing, RoleSteps, InviteSteps
<1> QED
  BY <1>1, <1>3, <1>4, Reads DEF BeginInvite, RoleSteps

LEMMA BeginOnInvite ==
  ASSUME IInv, NEW h \in Handlers, NEW i \in Invites,
         BeginRevoke(h, i) \/ BeginResend(h, i) \/ BeginAccept(h, i)
  PROVE  IInv'
<1>1. PICK j \in Job : /\ Begin(h, j)
                       /\ j.invite = i /\ j.step \in {"revoke", "rotate", "find"}
                       /\ j.step = "find" => j.who = email[i]
  <2>1. CASE BeginRevoke(h, i)
    <3> DEFINE j == [Idle EXCEPT !.step = "revoke", !.invite = i]
    <3>1. j \in Job /\ j.step = "revoke" /\ j.invite = i
      BY DEF Idle, Job, Steps, InviteSteps
    <3> QED
      BY <2>1, <3>1 DEF BeginRevoke
  <2>2. CASE BeginResend(h, i)
    <3> DEFINE j == [Idle EXCEPT !.step = "rotate", !.invite = i]
    <3>1. j \in Job /\ j.step = "rotate" /\ j.invite = i
      BY DEF Idle, Job, Steps, InviteSteps
    <3> QED
      BY <2>2, <3>1 DEF BeginResend
  <2>3. CASE BeginAccept(h, i)
    <3> DEFINE j == [Idle EXCEPT !.step = "find", !.who = email[i], !.invite = i]
    <3>1. email[i] \subseteq People
      BY DEF IInv, TypeOK
    <3>2. j \in Job /\ j.step = "find" /\ j.invite = i /\ j.who = email[i]
      BY <3>1 DEF Idle, Job, Steps, InviteSteps
    <3> QED
      BY <2>3, <3>2 DEF BeginAccept
  <2> QED
    BY <2>1, <2>2, <2>3
<1>2. job'[h] = j /\ Alone(h) /\ job' \in [Handlers -> Job] /\ ops' \in 0..MaxOps
  BY <1>1, Begun DEF IInv
<1>3. /\ status[i] = "pending"
      /\ UNCHANGED <<registered, role, inviteVars, historyVars>>
  BY DEF BeginRevoke, BeginResend, BeginAccept
<1>4. (LookedUp(h) /\ Accepting(h) /\ Changing(h))'
  BY <1>1, <1>2, <1>3
     DEF IInv, AddressInv, LookedUp, Accepting, Changing, RoleSteps, InviteSteps, inviteVars
<1> QED
  BY <1>1, <1>2, <1>3, <1>4, Reads DEF RoleSteps

\* A handler that goes on to its next step keeps the invariant if it may be there.
LEMMA GoesOn ==
  ASSUME IInv, NEW h \in Handlers, NEW s \in Steps \ (RoleSteps \cup {"idle"}), Goto(h, s),
         UNCHANGED <<registered, role, inviteVars, historyVars>>,
         job[h].step # "idle",
         job[h].step \in InviteSteps <=> s \in InviteSteps,
         job[h].step \notin {"rotate", "revoke"},
         s \in {"find", "create", "join", "admit", "mark"} =>
           job[h].step \in {"find", "create", "join", "admit", "mark"},
         s \in {"add", "join", "admit", "mark"} => job[h].who \subseteq registered,
         s = "mark" => \A u \in job[h].who : role[u] # "none"
  PROVE  IInv'
<1>1. /\ job' \in [Handlers -> Job] /\ ops' \in 0..MaxOps /\ Alone(h)
      /\ job'[h].step = s /\ job'[h].invite = job[h].invite /\ job'[h].who = job[h].who
  BY Went DEF IInv
<1>2. LookedUp(h) /\ Accepting(h)
  BY DEF IInv, JobsOK
<1>3. LookedUp(h)'
  BY <1>1, <1>2 DEF LookedUp, inviteVars
<1>4. Accepting(h)'
  BY <1>1, <1>2 DEF Accepting, inviteVars
<1>5. Changing(h)'
  BY <1>1 DEF Changing
<1> QED
  BY <1>1, <1>3, <1>4, <1>5, Reads

LEMMA LookupInviteeInv == ASSUME IInv, NEW h \in Handlers, LookupInvitee(h) PROVE IInv'
<1>1. job[h].step = "lookup" /\ UNCHANGED <<registered, role, inviteVars, historyVars>>
  BY DEF LookupInvitee, At
<1>2. PICK u \in People : job[h].who = {u}
  BY <1>1 DEF IInv, JobsOK, Accepting
<1>3. (u \in registered /\ Goto(h, "add")) \/ Goto(h, "pending")
  BY <1>2 DEF LookupInvitee
<1> QED
  BY <1>1, <1>2, <1>3, GoesOn DEF Steps, RoleSteps, InviteSteps

LEMMA FindPendingInv == ASSUME IInv, NEW h \in Handlers, FindPending(h) PROVE IInv'
<1>1. /\ job[h].step = "pending" /\ job[h] \in Job /\ job \in [Handlers -> Job]
      /\ UNCHANGED <<registered, role, inviteVars, ops, historyVars>>
  BY DEF FindPending, At, IInv, TypeOK
<1>2. CASE \E i \in PendingFor(job[h].who) :
             job' = [job EXCEPT ![h].step = "rotate", ![h].invite = i]
  <2>1. PICK i \in Invites : /\ status[i] = "pending"
                             /\ job' = [job EXCEPT ![h].step = "rotate", ![h].invite = i]
    BY <1>2 DEF PendingFor
  <2>2. job' \in [Handlers -> Job] /\ Alone(h) /\ job'[h].step = "rotate" /\ job'[h].invite = i
    BY <1>1, <2>1 DEF Job, Alone, Steps, InviteSteps
  <2>3. (LookedUp(h) /\ Accepting(h) /\ Changing(h))'
    BY <1>1, <2>1, <2>2 DEF LookedUp, Accepting, Changing, RoleSteps, InviteSteps, inviteVars
  <2>4. ops' \in 0..MaxOps
    BY <1>1 DEF IInv, TypeOK
  <2> QED
    BY <1>1, <2>1, <2>2, <2>3, <2>4, Reads DEF RoleSteps
<1>3. CASE job' = [job EXCEPT ![h].step = "insert"]
  BY <1>1, <1>3, GoesOn DEF Goto, Steps, RoleSteps, InviteSteps
<1> QED
  BY <1>2, <1>3 DEF FindPending

LEMMA FindUserInv == ASSUME IInv, NEW h \in Handlers, FindUser(h) PROVE IInv'
<1>1. /\ job[h].step = "find" /\ UNCHANGED <<registered, role, inviteVars, historyVars>>
      /\ \/ Goto(h, "join") /\ job[h].who \subseteq registered
         \/ Goto(h, "create")
  BY DEF FindUser, At
<1> QED
  BY <1>1, GoesOn DEF Steps, RoleSteps, InviteSteps

LEMMA JoinInv == ASSUME IInv, NEW h \in Handlers, Join(h) PROVE IInv'
<1>1. job[h].step = "join" /\ UNCHANGED <<registered, role, inviteVars, historyVars>>
  BY DEF Join, At
<1>2. PICK u \in People : job[h].who = {u} /\ job[h].who \subseteq registered
  BY <1>1 DEF IInv, JobsOK, Accepting
<1>3. (Goto(h, "mark") /\ role[u] # "none") \/ Goto(h, "admit")
  BY <1>2 DEF Join
<1> QED
  BY <1>1, <1>2, <1>3, GoesOn DEF Steps, RoleSteps, InviteSteps

-----------------------------------------------------------------------------
(* Steps that write members *)

\* A person who joins keeps the invariant if the handler's own part holds afterwards.
LEMMA Joins ==
  ASSUME IInv, NEW h \in Handlers, NEW u \in registered, AddMember(u), Alone(h),
         job' \in [Handlers -> Job], ops' \in 0..MaxOps,
         UNCHANGED <<registered, inviteVars, historyVars>>,
         (LookedUp(h) /\ Accepting(h) /\ Changing(h))',
         job'[h].step \notin RoleSteps,
         job'[h].invite \in {0, job[h].invite}
  PROVE  IInv'
<1>1. /\ TypeOK /\ JobsOK /\ AddressInv /\ AcceptedIsMember /\ RevokeInv /\ OwnerInv
      /\ u \in People /\ role \in [People -> Roles \cup {"none"}]
  BY DEF IInv, TypeOK
<1>2. /\ role' \in [People -> Roles \cup {"none"}]
      /\ \A v \in People : role'[v] # role[v] => role[v] = "none" /\ role'[v] = "member"
      /\ \A v \in People : role'[v] # role[v] => v = u
  BY <1>1 DEF AddMember
<1>3. TypeOK'
  BY <1>1, <1>2 DEF TypeOK, inviteVars, historyVars
<1>4. Grows
  BY <1>2 DEF Grows, inviteVars
<1>5. JobsOK'
  BY <1>1, <1>4, JobsKept
<1>6. AcceptedIsMember'
  BY <1>1, <1>4, AcceptedKept DEF inviteVars
<1>7. RevokeInv'
  BY <1>1, RevokeKept DEF inviteVars, historyVars
<1>8. OwnerInv'
  <2>1. overlapped' = overlapped
    BY DEF historyVars
  <2> QED
    BY <1>1, <1>2, <2>1, OwnerKept
<1>9. AddressInv'
  BY <1>1 DEF AddressInv, inviteVars
<1> QED
  BY <1>3, <1>5, <1>6, <1>7, <1>8, <1>9 DEF IInv

LEMMA AddInviteeInv == ASSUME IInv, NEW h \in Handlers, AddInvitee(h) PROVE IInv'
<1>1. /\ job[h].step = "add" /\ Done(h) /\ UNCHANGED <<registered, inviteVars, historyVars>>
      /\ TypeOK
  BY DEF AddInvitee, At, IInv
<1>2. PICK u \in registered : AddMember(u)
  BY <1>1 DEF AddInvitee, IInv, JobsOK, Accepting
<1>3. (LookedUp(h) /\ Accepting(h) /\ Changing(h))'
  BY <1>1, Ended DEF LookedUp, Accepting, Changing, RoleSteps, InviteSteps
<1> QED
  BY <1>1, <1>2, <1>3, Ended, Joins DEF RoleSteps

LEMMA AdmitInv == ASSUME IInv, NEW h \in Handlers, Admit(h) PROVE IInv'
<1>1. /\ job[h].step = "admit" /\ Goto(h, "mark")
      /\ UNCHANGED <<registered, inviteVars, historyVars>>
      /\ TypeOK /\ LookedUp(h) /\ Accepting(h)
  BY DEF Admit, At, IInv, JobsOK
<1>2. PICK u \in People : job[h].who = {u} /\ u \in registered
  BY <1>1 DEF Accepting
<1>3. AddMember(u) /\ role'[u] # "none"
  BY <1>1, <1>2 DEF Admit, AddMember, TypeOK
<1>4. "mark" \in Steps
  BY DEF Steps, InviteSteps
<1>5. /\ job' \in [Handlers -> Job] /\ ops' \in 0..MaxOps /\ Alone(h)
      /\ job'[h].step = "mark" /\ job'[h].invite = job[h].invite /\ job'[h].who = job[h].who
  BY <1>1, <1>4, Went
<1>6. (LookedUp(h) /\ Accepting(h) /\ Changing(h))'
  BY <1>1, <1>2, <1>3, <1>5
     DEF LookedUp, Accepting, Changing, RoleSteps, InviteSteps, inviteVars
<1> QED
  BY <1>1, <1>2, <1>3, <1>5, <1>6, Joins DEF RoleSteps

\* A new account: nothing but the set of accounts changes.
LEMMA CreateUserInv == ASSUME IInv, NEW h \in Handlers, CreateUser(h) PROVE IInv'
<1>1. /\ job[h].step = "create" /\ Goto(h, "join")
      /\ registered' = registered \cup job[h].who
      /\ UNCHANGED <<role, inviteVars, historyVars>>
      /\ TypeOK /\ JobsOK /\ AddressInv /\ AcceptedIsMember /\ RevokeInv /\ OwnerInv
      /\ LookedUp(h) /\ Accepting(h)
  BY DEF CreateUser, At, IInv, JobsOK
<1>2. PICK u \in People : job[h].who = {u}
  BY <1>1 DEF Accepting
<1>3. "join" \in Steps
  BY DEF Steps, InviteSteps
<1>4. /\ job' \in [Handlers -> Job] /\ ops' \in 0..MaxOps /\ Alone(h)
      /\ job'[h].step = "join" /\ job'[h].invite = job[h].invite /\ job'[h].who = job[h].who
  BY <1>1, <1>3, Went
<1>5. (LookedUp(h) /\ Accepting(h) /\ Changing(h))'
  BY <1>1, <1>2, <1>4 DEF LookedUp, Accepting, Changing, RoleSteps, InviteSteps, inviteVars
<1>6. TypeOK'
  BY <1>1, <1>2, <1>4 DEF TypeOK, inviteVars, historyVars
<1>7. Grows
  BY <1>1 DEF Grows, inviteVars
<1>8. JobsOK'
  BY <1>1, <1>4, <1>5, <1>7, JobsKept
<1>9. AcceptedIsMember'
  BY <1>1, <1>7, AcceptedKept DEF inviteVars
<1>10. RevokeInv'
  BY <1>1, <1>4, RevokeKept DEF inviteVars, historyVars
<1>11. OwnerInv'
  <2>1. /\ role' \in [People -> Roles \cup {"none"}] /\ overlapped' = overlapped
        /\ \A v \in People : role'[v] = role[v]
    BY <1>1 DEF TypeOK, historyVars
  <2> QED
    BY <1>1, <1>4, <2>1, OwnerKept DEF RoleSteps
<1>12. AddressInv'
  BY <1>1 DEF AddressInv, inviteVars
<1> QED
  BY <1>6, <1>8, <1>9, <1>10, <1>11, <1>12 DEF IInv

-----------------------------------------------------------------------------
(* Steps that write an invite and end the handler *)

\* Such a step keeps the invariant if it keeps the parts that are about invites.
LEMMA Writes ==
  ASSUME IInv, NEW h \in Handlers, Done(h), UNCHANGED <<registered, role, overlapped>>,
         TypeOK', Grows, AddressInv', AcceptedIsMember', RevokeInv'
  PROVE  IInv'
<1>1. TypeOK /\ JobsOK /\ OwnerInv
  BY DEF IInv
<1>2. JobsOK'
  BY <1>1, JobsKeptAtEnd
<1>3. OwnerInv'
  <2>1. /\ role' \in [People -> Roles \cup {"none"}]
        /\ \A v \in People : role'[v] = role[v]
    BY <1>1 DEF TypeOK
  <2> QED
    BY <1>1, <2>1, Ended, OwnerKept DEF RoleSteps
<1> QED
  BY <1>2, <1>3 DEF IInv

LEMMA InsertInviteInv == ASSUME IInv, NEW h \in Handlers, InsertInvite(h) PROVE IInv'
<1>1. /\ job[h].step = "insert" /\ Done(h) /\ PendingFor(job[h].who) = {}
      /\ UNCHANGED <<registered, role, expired, historyVars>>
      /\ TypeOK /\ AddressInv /\ AcceptedIsMember /\ RevokeInv
  BY DEF InsertInvite, At, IInv
<1>2. PICK u \in People : job[h].who = {u}
  BY <1>1 DEF IInv, JobsOK, Accepting
<1>3. PICK i \in Invites : /\ status[i] = "none"
                           /\ email' = [email EXCEPT ![i] = {u}]
                           /\ status' = [status EXCEPT ![i] = "pending"]
  BY <1>2 DEF InsertInvite
<1>4. /\ job' \in [Handlers -> Job] /\ ops' \in 0..MaxOps /\ Alone(h) /\ job'[h].invite = 0
  BY <1>1, Ended
<1>5. TypeOK'
  <2>1. /\ email' \in [Invites -> SUBSET People]
        /\ status' \in [Invites -> {"none", "pending", "accepted", "revoked"}]
    BY <1>1, <1>3 DEF TypeOK
  <2>2. \A j \in Invites : status[j] = "pending" => email[j] # {u}
    BY <1>1, <1>2 DEF PendingFor
  <2>3. \A j, k \in Invites :
          status'[j] = "pending" /\ status'[k] = "pending" /\ email'[j] = email'[k] => j = k
    BY <1>1, <1>3, <2>2 DEF TypeOK
  <2> QED
    BY <1>1, <1>4, <2>1, <2>3 DEF TypeOK, historyVars
<1>6. Grows
  BY <1>1, <1>3 DEF Grows, TypeOK
<1>7. AddressInv'
  BY <1>1, <1>3 DEF AddressInv, TypeOK
<1>8. AcceptedIsMember'
  BY <1>1, <1>3, <1>6, AcceptedKept DEF TypeOK
<1>9. RevokeInv'
  BY <1>1, <1>3, <1>4, RevokeKept DEF TypeOK, historyVars
<1> QED
  BY <1>1, <1>5, <1>6, <1>7, <1>8, <1>9, Writes DEF historyVars

LEMMA RotateTokenInv == ASSUME IInv, NEW h \in Handlers, RotateToken(h) PROVE IInv'
<1> DEFINE i == job[h].invite
<1>1. /\ job[h].step = "rotate" /\ Done(h) /\ PendingFor(email[i]) \subseteq {i}
      /\ status' = [status EXCEPT ![i] = "pending"] /\ expired' = expired \ {i}
      /\ UNCHANGED <<registered, role, email, historyVars>>
      /\ TypeOK /\ AddressInv /\ AcceptedIsMember /\ RevokeInv /\ LookedUp(h)
  BY DEF RotateToken, At, IInv, JobsOK
<1>2. i \in Invites /\ status[i] # "none"
  BY <1>1 DEF LookedUp, InviteSteps, TypeOK, Job
<1>3. /\ job' \in [Handlers -> Job] /\ ops' \in 0..MaxOps /\ Alone(h) /\ job'[h].invite = 0
  BY <1>1, Ended
<1>4. TypeOK'
  <2>1. /\ status' \in [Invites -> {"none", "pending", "accepted", "revoked"}]
        /\ expired' \subseteq Invites
    BY <1>1 DEF TypeOK
  <2>2. \A j \in Invites : status[j] = "pending" /\ email[j] = email[i] => j = i
    BY <1>1 DEF PendingFor
  <2>3. \A j, k \in Invites :
          status'[j] = "pending" /\ status'[k] = "pending" /\ email'[j] = email'[k] => j = k
    BY <1>1, <2>2 DEF TypeOK
  <2> QED
    BY <1>1, <1>3, <2>1, <2>3 DEF TypeOK, historyVars
<1>5. Grows
  BY <1>1 DEF Grows, TypeOK
<1>6. AddressInv'
  BY <1>1, <1>2 DEF AddressInv, TypeOK
<1>7. AcceptedIsMember'
  BY <1>1, <1>5, AcceptedKept DEF TypeOK
<1>8. RevokeInv'
  BY <1>1, <1>3, RevokeKept DEF TypeOK, historyVars
<1> QED
  BY <1>1, <1>4, <1>5, <1>6, <1>7, <1>8, Writes DEF historyVars

LEMMA MarkRevokedInv == ASSUME IInv, NEW h \in Handlers, MarkRevoked(h) PROVE IInv'
<1> DEFINE i == job[h].invite
<1>1. /\ job[h].step = "revoke" /\ Done(h)
      /\ status' = [status EXCEPT ![i] = "revoked"]
      /\ revoked' = revoked \cup {i}
      /\ raced' = {k \in raced \cup {i} : k = i => \E g \in Handlers \ {h} : job[g].invite = k}
      /\ UNCHANGED <<registered, role, email, expired, overlapped>>
      /\ TypeOK /\ AddressInv /\ AcceptedIsMember /\ RevokeInv /\ LookedUp(h)
  BY DEF MarkRevoked, At, IInv, JobsOK
<1>2. i \in Invites /\ status[i] # "none"
  BY <1>1 DEF LookedUp, InviteSteps, TypeOK, Job
<1>3. /\ job' \in [Handlers -> Job] /\ ops' \in 0..MaxOps /\ Alone(h) /\ job'[h].invite = 0
  BY <1>1, Ended
<1>4. TypeOK'
  <2>1. /\ status' \in [Invites -> {"none", "pending", "accepted", "revoked"}]
        /\ revoked' \subseteq Invites /\ raced' \subseteq Invites
    BY <1>1, <1>2 DEF TypeOK
  <2>2. \A j, k \in Invites :
          status'[j] = "pending" /\ status'[k] = "pending" /\ email'[j] = email'[k] => j = k
    BY <1>1 DEF TypeOK
  <2> QED
    BY <1>1, <1>3, <2>1, <2>2 DEF TypeOK
<1>5. Grows
  BY <1>1 DEF Grows, TypeOK
<1>6. AddressInv'
  BY <1>1, <1>2 DEF AddressInv, TypeOK
<1>7. AcceptedIsMember'
  BY <1>1, <1>5, AcceptedKept DEF TypeOK
<1>8. RevokeInv'
  <2> SUFFICES ASSUME NEW j \in revoked' \ raced'
               PROVE  status'[j] = "revoked" /\ \A g \in Handlers : job'[g].invite # j
    BY DEF RevokeInv
  <2>1. CASE j = i
    BY <1>1, <1>2, <1>3, <2>1 DEF Alone, TypeOK
  <2>2. CASE j # i
    <3>1. j \in revoked \ raced /\ j \in Invites
      BY <1>1, <2>2 DEF TypeOK
    <3>2. j # 0 /\ status[j] = "revoked" /\ \A g \in Handlers : job[g].invite # j
      BY <1>1, <3>1 DEF RevokeInv
    <3> QED
      BY <1>1, <1>3, <2>2, <3>1, <3>2 DEF Alone, TypeOK
  <2> QED
    BY <2>1, <2>2
<1> QED
  BY <1>1, <1>4, <1>5, <1>6, <1>7, <1>8, Writes

LEMMA MarkAcceptedInv == ASSUME IInv, NEW h \in Handlers, MarkAccepted(h) PROVE IInv'
<1> DEFINE i == job[h].invite
<1>1. /\ job[h].step = "mark" /\ Done(h)
      /\ status' = [status EXCEPT ![i] = "accepted"]
      /\ UNCHANGED <<registered, role, email, expired, historyVars>>
      /\ TypeOK /\ AddressInv /\ AcceptedIsMember /\ RevokeInv /\ LookedUp(h) /\ Accepting(h)
  BY DEF MarkAccepted, At, IInv, JobsOK
<1>2. i \in Invites /\ status[i] # "none"
  BY <1>1 DEF LookedUp, InviteSteps, TypeOK, Job
<1>3. /\ job' \in [Handlers -> Job] /\ ops' \in 0..MaxOps /\ Alone(h) /\ job'[h].invite = 0
  BY <1>1, Ended
<1>4. TypeOK'
  <2>1. status' \in [Invites -> {"none", "pending", "accepted", "revoked"}]
    BY <1>1 DEF TypeOK
  <2>2. \A j, k \in Invites :
          status'[j] = "pending" /\ status'[k] = "pending" /\ email'[j] = email'[k] => j = k
    BY <1>1 DEF TypeOK
  <2> QED
    BY <1>1, <1>3, <2>1, <2>2 DEF TypeOK, historyVars
<1>5. Grows
  BY <1>1 DEF Grows, TypeOK
<1>6. AddressInv'
  BY <1>1, <1>2 DEF AddressInv, TypeOK
<1>7. AcceptedIsMember'
  <2>1. \A u \in email'[i] : role'[u] # "none"
    BY <1>1 DEF Accepting
  <2>2. \A j \in Invites : status'[j] = "accepted" => j = i \/ status[j] = "accepted"
    BY <1>1 DEF TypeOK
  <2> QED
    BY <1>1, <1>5, <2>1, <2>2, AcceptedKept
<1>8. RevokeInv'
  BY <1>1, <1>3, RevokeKept DEF TypeOK, historyVars
<1> QED
  BY <1>1, <1>4, <1>5, <1>6, <1>7, <1>8, Writes DEF historyVars

-----------------------------------------------------------------------------
(* Steps of no handler *)

\* Accounts made and invites expired elsewhere touch no part but the types.
LEMMA ElsewhereInv ==
  ASSUME IInv, TypeOK', registered \subseteq registered',
         UNCHANGED <<role, email, status, job, ops, historyVars>>
  PROVE  IInv'
<1>1. /\ JobsOK /\ AddressInv /\ AcceptedIsMember /\ RevokeInv /\ OwnerInv
  BY DEF IInv
<1>2. JobsOK'
  BY <1>1 DEF JobsOK, LookedUp, Accepting, Changing
<1>3. AddressInv' /\ AcceptedIsMember' /\ RevokeInv'
  BY <1>1 DEF AddressInv, AcceptedIsMember, RevokeInv, historyVars
<1>4. OwnerInv'
  BY <1>1 DEF OwnerInv, Owners, Safe, NoTransferMet, Transfers, historyVars
<1> QED
  BY <1>2, <1>3, <1>4 DEF IInv

LEMMA RegisterInv == ASSUME IInv, NEW u \in People, Register(u) PROVE IInv'
<1>1. TypeOK' /\ registered \subseteq registered'
  BY DEF IInv, TypeOK, Register, inviteVars, historyVars
<1> QED
  BY <1>1, ElsewhereInv DEF Register, inviteVars

LEMMA ExpireInv == ASSUME IInv, NEW i \in Invites, Expire(i) PROVE IInv'
<1>1. TypeOK' /\ registered \subseteq registered'
  BY DEF IInv, TypeOK, Expire, historyVars
<1> QED
  BY <1>1, ElsewhereInv DEF Expire

-----------------------------------------------------------------------------
(* Role changes *)

\* A role change that only reads keeps the invariant if its own part holds afterwards.
LEMMA RoleReads ==
  ASSUME IInv, NEW h \in Handlers, Alone(h),
         job' \in [Handlers -> Job], ops' \in 0..MaxOps,
         UNCHANGED <<registered, role, inviteVars, revoked, raced>>,
         overlapped' \in BOOLEAN,
         job'[h].step \in RoleSteps, job'[h].invite = 0,
         Changing(h)', OwnerInv'
  PROVE  IInv'
<1>1. /\ TypeOK /\ JobsOK /\ AddressInv /\ AcceptedIsMember /\ RevokeInv
  BY DEF IInv
<1>2. TypeOK'
  BY <1>1 DEF TypeOK, inviteVars
<1>3. Grows
  BY DEF Grows, inviteVars
<1>4. LookedUp(h)'
  BY DEF LookedUp, RoleSteps, InviteSteps
<1>5. Accepting(h)'
  BY DEF Accepting, Changing, RoleSteps
<1>6. JobsOK'
  BY <1>1, <1>3, <1>4, <1>5, JobsKept
<1>7. AcceptedIsMember'
  BY <1>1, <1>3, AcceptedKept DEF inviteVars
<1>8. RevokeInv'
  BY <1>1, RevokeKept DEF inviteVars
<1>9. AddressInv'
  BY <1>1 DEF AddressInv, inviteVars
<1> QED
  BY <1>2, <1>6, <1>7, <1>8, <1>9 DEF IInv

\* What role changes under way rely on holds after a step that leaves the ownership and
\* the requests of all of them as they are, if it holds of the handler that moves.
LEMMA OwnershipKept ==
  ASSUME TypeOK, OwnerInv, NEW h \in Handlers, Alone(h), ~overlapped',
         \E o \in People : Owners = {o},
         Owners' = Owners,
         ~overlapped,
         \A g \in Handlers : NoTransferMet(g, h)' /\ NoTransferMet(h, g)',
         job'[h].step \in RoleSteps =>
           /\ job'[h].actor \subseteq Owners
           /\ job'[h].step \in {"count", "apply"} =>
                \A u \in job'[h].who : job'[h].seen = "owner" <=> u \in Owners
           /\ job'[h].step = "apply" => Safe(job'[h], 1)
  PROVE  OwnerInv'
<1>1. \A g, k \in Handlers : NoTransferMet(g, k)'
  <2> SUFFICES ASSUME NEW g \in Handlers, NEW k \in Handlers, g # h, k # h
               PROVE  NoTransferMet(g, k)'
    OBVIOUS
  <2>1. job'[g] = job[g] /\ job'[k] = job[k] /\ NoTransferMet(g, k)
    BY DEF Alone, OwnerInv
  <2> QED
    BY <2>1 DEF NoTransferMet, Transfers
<1>2. ASSUME NEW g \in Handlers, job'[g].step \in RoleSteps
      PROVE  /\ job'[g].actor \subseteq Owners'
             /\ job'[g].step \in {"count", "apply"} =>
                  \A u \in job'[g].who : job'[g].seen = "owner" <=> u \in Owners'
             /\ job'[g].step = "apply" => Safe(job'[g], 1)
  <2>1. CASE g = h
    BY <1>2, <2>1
  <2>2. CASE g # h
    <3>1. job'[g] = job[g]
      BY <2>2 DEF Alone
    <3> QED
      BY <1>2, <3>1 DEF OwnerInv
  <2> QED
    BY <2>1, <2>2
<1> QED
  BY <1>1, <1>2 DEF OwnerInv, Safe

LEMMA BeginRoleInv ==
  ASSUME IInv, NEW h \in Handlers, NEW actor \in People, NEW u \in People, NEW want \in Roles,
         BeginRole(h, actor, u, want)
  PROVE  IInv'
<1> DEFINE j == [Idle EXCEPT !.step = "target", !.actor = {actor}, !.who = {u}, !.want = want]
<1>1. /\ j \in Job /\ j.step = "target" /\ j.invite = 0
      /\ j.actor = {actor} /\ j.who = {u} /\ j.want = want
  BY DEF Idle, Job, Steps, RoleSteps
<1>2. /\ TypeOK /\ OwnerInv /\ Begin(h, j) /\ role[actor] = "owner"
      /\ UNCHANGED <<registered, role, inviteVars, revoked, raced>>
      /\ overlapped' = (overlapped \/ \E g \in Handlers :
                          job[g].step \in RoleSteps /\ (Transfers(j) \/ Transfers(job[g])))
  BY DEF IInv, BeginRole
<1> HIDE DEF j
<1>3. job'[h] = j /\ Alone(h) /\ job' \in [Handlers -> Job] /\ ops' \in 0..MaxOps
  BY <1>1, <1>2, Begun
<1>4. Changing(h)'
  BY <1>1, <1>2, <1>3 DEF Changing
<1>5. OwnerInv'
  <2> SUFFICES ASSUME ~overlapped' PROVE OwnerInv'
    BY DEF OwnerInv
  <2>1. /\ ~overlapped
        /\ \A g \in Handlers : job[g].step \in RoleSteps => ~Transfers(j) /\ ~Transfers(job[g])
    BY <1>2
  <2>2. Owners' = Owners /\ actor \in Owners /\ \E o \in People : Owners = {o}
    BY <1>2, <2>1 DEF Owners, OwnerInv
  <2>3. \A g \in Handlers : NoTransferMet(g, h)' /\ NoTransferMet(h, g)'
    BY <1>3, <2>1 DEF Alone, NoTransferMet, Transfers
  <2> QED
    BY <1>1, <1>2, <1>3, <2>1, <2>2, <2>3, OwnershipKept
<1>6. overlapped' \in BOOLEAN
  BY <1>2 DEF TypeOK
<1> QED
  BY <1>1, <1>2, <1>3, <1>4, <1>5, <1>6, RoleReads DEF RoleSteps

LEMMA ReadTargetInv == ASSUME IInv, NEW h \in Handlers, ReadTarget(h) PROVE IInv'
<1>1. /\ job[h].step = "target" /\ TypeOK /\ OwnerInv /\ LookedUp(h) /\ Changing(h)
      /\ UNCHANGED <<registered, role, inviteVars, ops, historyVars>>
  BY DEF ReadTarget, At, IInv, JobsOK
<1>2. PICK a, u \in People : job[h].actor = {a} /\ job[h].who = {u} /\ role[a] # "none"
  BY <1>1 DEF Changing, RoleSteps
<1>3. /\ role[u] \in Roles
      /\ job' = [job EXCEPT ![h].step = "count", ![h].seen = role[u]]
  BY <1>1, <1>2 DEF ReadTarget, TypeOK
<1>4. /\ job' \in [Handlers -> Job] /\ Alone(h) /\ ops' \in 0..MaxOps
      /\ job'[h].step = "count" /\ job'[h].seen = role[u] /\ job'[h].who = {u}
      /\ job'[h].actor = {a} /\ job'[h].want = job[h].want /\ job'[h].invite = 0
  <2>1. job[h] \in Job /\ job[h].invite = 0
    BY <1>1 DEF TypeOK, LookedUp, InviteSteps
  <2> QED
    BY <1>1, <1>2, <1>3, <2>1 DEF TypeOK, Job, Alone, Steps, RoleSteps
<1>5. Changing(h)'
  BY <1>1, <1>2, <1>3, <1>4 DEF Changing, RoleSteps
<1>6. OwnerInv'
  <2> SUFFICES ASSUME ~overlapped PROVE OwnerInv'
    BY <1>1 DEF OwnerInv, historyVars
  <2>1. Owners' = Owners /\ ~overlapped' /\ (u \in Owners <=> role[u] = "owner")
    BY <1>1 DEF Owners, historyVars
  <2>2. job[h].actor \subseteq Owners /\ \E o \in People : Owners = {o}
    BY <1>1 DEF OwnerInv, RoleSteps
  <2>3. \A g \in Handlers : NoTransferMet(g, h)' /\ NoTransferMet(h, g)'
    BY <1>1, <1>2, <1>4 DEF OwnerInv, Alone, NoTransferMet, Transfers, RoleSteps
  <2> QED
    BY <1>1, <1>2, <1>4, <2>1, <2>2, <2>3, OwnershipKept
<1>7. overlapped' \in BOOLEAN
  BY <1>1 DEF TypeOK, historyVars
<1> QED
  BY <1>1, <1>4, <1>5, <1>6, <1>7, RoleReads DEF RoleSteps, historyVars

LEMMA CountOwnersInv == ASSUME IInv, NEW h \in Handlers, CountOwners(h) PROVE IInv'
<1>1. /\ job[h].step = "count" /\ Goto(h, "apply") /\ Safe(job[h], Cardinality(Owners))
      /\ TypeOK /\ OwnerInv /\ LookedUp(h) /\ Changing(h)
      /\ UNCHANGED <<registered, role, inviteVars, historyVars>>
  BY DEF CountOwners, At, IInv, JobsOK
<1>2. "apply" \in Steps
  BY DEF Steps, RoleSteps
<1>3. /\ job' \in [Handlers -> Job] /\ ops' \in 0..MaxOps /\ Alone(h)
      /\ job'[h].step = "apply" /\ job'[h].invite = 0
      /\ job'[h].actor = job[h].actor /\ job'[h].who = job[h].who
      /\ job'[h].want = job[h].want /\ job'[h].seen = job[h].seen
  BY <1>1, <1>2, Went DEF LookedUp, InviteSteps
<1>4. Changing(h)'
  BY <1>1, <1>3 DEF Changing, RoleSteps
<1>5. OwnerInv'
  <2> SUFFICES ASSUME ~overlapped PROVE OwnerInv'
    BY <1>1 DEF OwnerInv, historyVars
  <2>1. Owners' = Owners /\ ~overlapped'
    BY <1>1 DEF Owners, historyVars
  <2>2. /\ job[h].actor \subseteq Owners /\ \E o \in People : Owners = {o}
        /\ \A u \in job[h].who : job[h].seen = "owner" <=> u \in Owners
    BY <1>1 DEF OwnerInv, RoleSteps
  <2>3. Cardinality(Owners) = 1
    BY <2>2, FS_Singleton
  <2>4. Safe(job'[h], 1)
    BY <1>1, <1>3, <2>3 DEF Safe
  <2>5. \A g \in Handlers : NoTransferMet(g, h)' /\ NoTransferMet(h, g)'
    BY <1>1, <1>3 DEF OwnerInv, Alone, NoTransferMet, Transfers, RoleSteps
  <2> QED
    BY <1>1, <1>3, <2>1, <2>2, <2>4, <2>5, OwnershipKept
<1>6. overlapped' \in BOOLEAN
  BY <1>1 DEF TypeOK, historyVars
<1> QED
  BY <1>1, <1>3, <1>4, <1>5, <1>6, RoleReads DEF RoleSteps, historyVars

LEMMA ApplyRoleChangeInv == ASSUME IInv, NEW h \in Handlers, ApplyRoleChange(h) PROVE IInv'
<1>1. /\ job[h].step = "apply" /\ Done(h) /\ Changing(h)
      /\ TypeOK /\ JobsOK /\ AddressInv /\ AcceptedIsMember /\ RevokeInv /\ OwnerInv
      /\ UNCHANGED <<registered, inviteVars, historyVars>>
  BY DEF ApplyRoleChange, At, IInv, JobsOK
<1>2. PICK a, u \in People : /\ job[h].actor = {a} /\ job[h].who = {u}
                             /\ role[a] # "none" /\ role[u] # "none"
                             /\ job[h].want \in Roles
  BY <1>1 DEF Changing, RoleSteps
<1>3. role' = [v \in People |-> IF v = u THEN job[h].want
                                ELSE IF v = a /\ job[h].want = "owner" THEN "admin"
                                ELSE role[v]]
  BY <1>2 DEF ApplyRoleChange, Transfers
<1>4. /\ job' \in [Handlers -> Job] /\ ops' \in 0..MaxOps /\ Alone(h)
      /\ job'[h].step = "idle" /\ job'[h].invite = 0
  BY <1>1, Ended
<1>5. \A v \in People : role[v] # "none" <=> role'[v] # "none"
  BY <1>2, <1>3
<1>6. TypeOK'
  <2>1. role' \in [People -> Roles \cup {"none"}]
    BY <1>1, <1>2, <1>3 DEF TypeOK
  <2> QED
    BY <1>1, <1>4, <1>5, <2>1 DEF TypeOK, inviteVars, historyVars
<1>7. Grows
  BY <1>1, <1>5 DEF Grows, inviteVars
<1>8. JobsOK'
  BY <1>1, <1>7, JobsKeptAtEnd
<1>9. AcceptedIsMember'
  BY <1>1, <1>7, AcceptedKept DEF inviteVars
<1>10. RevokeInv'
  BY <1>1, <1>4, RevokeKept DEF inviteVars, historyVars
<1>11. AddressInv'
  BY <1>1 DEF AddressInv, inviteVars
<1>12. OwnerInv'
  <2> SUFFICES ASSUME ~overlapped PROVE OwnerInv'
    BY <1>1 DEF OwnerInv, historyVars
  <2>1. Owners = {a} /\ (job[h].seen = "owner" <=> u = a) /\ Safe(job[h], 1)
    BY <1>1, <1>2 DEF OwnerInv, RoleSteps
  <2>2. ~overlapped' /\ job'[h].step \notin RoleSteps
    BY <1>1, <1>4 DEF historyVars, RoleSteps
  <2>3. CASE Transfers(job[h])
    <3>1. job[h].want = "owner" /\ u # a
      BY <1>2, <2>3 DEF Transfers
    <3>2. \A v \in People : role'[v] = "owner" <=> v = u
      BY <1>3, <2>1, <3>1 DEF Owners
    <3>3. Owners' = {u}
      BY <3>2 DEF Owners
    <3>4. \A g \in Handlers : job'[g].step \notin RoleSteps
      BY <1>1, <1>4, <2>2, <2>3 DEF OwnerInv, NoTransferMet, Alone, RoleSteps
    <3> QED
      BY <3>3, <3>4 DEF OwnerInv, NoTransferMet
  <2>4. CASE ~Transfers(job[h])
    <3>1. \A v \in People : role'[v] = "owner" <=> v = a
      <4>1. CASE job[h].want = "owner"
        BY <1>2, <1>3, <2>1, <2>4, <4>1 DEF Owners, Transfers
      <4>2. CASE job[h].want # "owner"
        <5>1. u # a
          BY <1>2, <2>1, <4>2 DEF Safe
        <5> QED
          BY <1>3, <2>1, <4>2, <5>1 DEF Owners
      <4> QED
        BY <4>1, <4>2
    <3>2. Owners' = Owners
      BY <2>1, <3>1 DEF Owners
    <3>3. \A g \in Handlers : NoTransferMet(g, h)' /\ NoTransferMet(h, g)'
      BY <2>2 DEF NoTransferMet
    <3> QED
      BY <1>1, <1>4, <2>1, <2>2, <3>2, <3>3, OwnershipKept
  <2> QED
    BY <2>3, <2>4
<1> QED
  BY <1>6, <1>8, <1>9, <1>10, <1>11, <1>12 DEF IInv

-----------------------------------------------------------------------------
(* The theorems *)

LEMMA InitInv == Init => IInv
<1> SUFFICES ASSUME Init PROVE IInv
  OBVIOUS
<1>1. PICK o \in People : /\ role = [u \in People |-> IF u = o THEN "owner" ELSE "none"]
                          /\ registered \subseteq People /\ o \in registered
  BY DEF Init
<1>2. /\ email = [i \in Invites |-> {}] /\ status = [i \in Invites |-> "none"]
      /\ expired = {} /\ job = [h \in Handlers |-> Idle] /\ ops = 0
      /\ overlapped = FALSE /\ revoked = {} /\ raced = {}
  BY DEF Init
<1>3. Idle \in Job /\ Idle.step = "idle" /\ Idle.invite = 0
  BY DEF Idle, Job, Steps
<1>4. TypeOK
  <2>1. role \in [People -> Roles \cup {"none"}] /\ \A u \in People : role[u] # "none" => u = o
    BY <1>1
  <2>2. job \in [Handlers -> Job] /\ ops \in 0..MaxOps
    BY <1>2, <1>3
  <2>3. email \in [Invites -> SUBSET People]
    BY <1>2
  <2>4. /\ status \in [Invites -> {"none", "pending", "accepted", "revoked"}]
        /\ \A i \in Invites : status[i] # "pending"
    BY <1>2
  <2> QED
    BY <1>1, <1>2, <2>1, <2>2, <2>3, <2>4 DEF TypeOK
<1>5. JobsOK
  BY <1>2, <1>3 DEF JobsOK, LookedUp, Accepting, Changing, RoleSteps, InviteSteps
<1>6. AddressInv /\ AcceptedIsMember /\ RevokeInv
  BY <1>2 DEF AddressInv, AcceptedIsMember, RevokeInv
<1>7. OwnerInv
  BY <1>1, <1>2, <1>3 DEF OwnerInv, Owners, NoTransferMet, RoleSteps
<1> QED
  BY <1>4, <1>5, <1>6, <1>7 DEF IInv

LEMMA StepInv == IInv /\ [Next]_vars => IInv'
<1> SUFFICES ASSUME IInv, [Next]_vars PROVE IInv'
  OBVIOUS
<1>1. ASSUME NEW h \in Handlers, ChangeRole(h) PROVE IInv'
  BY <1>1, BeginRoleInv, ReadTargetInv, CountOwnersInv, ApplyRoleChangeInv DEF ChangeRole
<1>2. ASSUME NEW h \in Handlers, InviteMember(h) PROVE IInv'
  BY <1>2, BeginInviteInv, LookupInviteeInv, AddInviteeInv, FindPendingInv, InsertInviteInv,
     RotateTokenInv DEF InviteMember
<1>3. ASSUME NEW h \in Handlers, ManageInvite(h) PROVE IInv'
  BY <1>3, BeginOnInvite, MarkRevokedInv DEF ManageInvite
<1>4. ASSUME NEW h \in Handlers, AcceptInvite(h) PROVE IInv'
  BY <1>4, BeginOnInvite, FindUserInv, CreateUserInv, JoinInv, AdmitInv, MarkAcceptedInv
     DEF AcceptInvite
<1>5. ASSUME NEW h \in Handlers, Fail(h) PROVE IInv'
  BY <1>5, FailInv
<1>6. ASSUME NEW u \in People, Register(u) PROVE IInv'
  BY <1>6, RegisterInv
<1>7. ASSUME NEW i \in Invites, Expire(i) PROVE IInv'
  BY <1>7, ExpireInv
<1>8. CASE UNCHANGED vars
  <2>1. TypeOK' /\ registered \subseteq registered'
    BY <1>8 DEF IInv, TypeOK, vars, inviteVars, historyVars
  <2> QED
    BY <1>8, <2>1, ElsewhereInv DEF vars, inviteVars
<1> QED
  BY <1>1, <1>2, <1>3, <1>4, <1>5, <1>6, <1>7, <1>8 DEF Next

\* The inductive invariant holds in every reachable state: whatever requests overlap,
\* and wherever their handlers fail.
THEOREM Invariant == Spec => []IInv
BY InitInv, StepInv, PTL DEF Spec

\* The types, and the promises of the schema, in every reachable state.
THEOREM TypeCorrect == Spec => []TypeOK
<1>1. IInv => TypeOK
  BY DEF IInv
<1> QED
  BY <1>1, Invariant, PTL

\* One owner, as long as no transfer has overlapped another role change.
THEOREM OneOwner == Spec => []OwnerUnlessOverlap
<1>1. IInv => OwnerUnlessOverlap
  BY DEF IInv, OwnerInv, OwnerUnlessOverlap
<1> QED
  BY <1>1, Invariant, PTL

\* An accepted invite has made its person a member.
THEOREM Accepted == Spec => []AcceptedIsMember
<1>1. IInv => AcceptedIsMember
  BY DEF IInv
<1> QED
  BY <1>1, Invariant, PTL

\* A revocation that nobody raced is final.
THEOREM Revoked == Spec => []RevokeHolds
<1>1. IInv => RevokeHolds
  BY DEF IInv, RevokeInv, RevokeHolds
<1> QED
  BY <1>1, Invariant, PTL

\* Joining never touches a role.
THEOREM RolesKept == Spec => JoiningKeepsRoles
<1> DEFINE Kept == \A u \in People : role'[u] # role[u] =>
                     \/ role[u] = "none" /\ role'[u] = "member"
                     \/ \E h \in Handlers : At(h, "apply") /\ u \in job[h].who \cup job[h].actor
<1>1. IInv /\ [Next]_vars => [Kept]_vars
  <2> SUFFICES ASSUME IInv, Next PROVE Kept
    BY DEF vars
  <2>1. role \in [People -> Roles \cup {"none"}]
    BY DEF IInv, TypeOK
  <2>2. ASSUME NEW u \in People, AddMember(u) PROVE Kept
    BY <2>1, <2>2 DEF AddMember
  <2>3. ASSUME NEW h \in Handlers, ApplyRoleChange(h) PROVE Kept
    BY <2>1, <2>3 DEF ApplyRoleChange
  <2>4. ASSUME role' = role PROVE Kept
    BY <2>4
  <2>5. ASSUME NEW h \in Handlers, AddInvitee(h) \/ Admit(h) PROVE Kept
    <3>1. job[h].who \subseteq People
      BY DEF IInv, TypeOK, Job
    <3> QED
      BY <2>2, <2>5, <3>1 DEF AddInvitee, Admit
  <2> HIDE DEF Kept
  <2>6. ASSUME NEW h \in Handlers, ChangeRole(h) PROVE Kept
    BY <2>3, <2>4, <2>6 DEF ChangeRole, BeginRole, ReadTarget, CountOwners
  <2>7. ASSUME NEW h \in Handlers, InviteMember(h) PROVE Kept
    BY <2>4, <2>5, <2>7
       DEF InviteMember, BeginInvite, LookupInvitee, FindPending, InsertInvite, RotateToken
  <2>8. ASSUME NEW h \in Handlers, ManageInvite(h) PROVE Kept
    BY <2>4, <2>8 DEF ManageInvite, BeginRevoke, BeginResend, MarkRevoked
  <2>9. ASSUME NEW h \in Handlers, AcceptInvite(h) PROVE Kept
    BY <2>4, <2>5, <2>9
       DEF AcceptInvite, BeginAccept, FindUser, CreateUser, Join, MarkAccepted
  <2> QED
    BY <2>4, <2>6, <2>7, <2>8, <2>9 DEF Next, Fail, Register, Expire
<1>2. Spec => []IInv
  BY Invariant
<1> QED
  BY <1>1, <1>2, PTL DEF Spec, JoiningKeepsRoles

-----------------------------------------------------------------------------
(* Teams: members *)

Held == T!TeamRoles \cup {"none"}

TeamJob == [step: T!Steps, team: T!Teams \cup {0}, who: SUBSET People, want: Held, seen: Held,
        project: T!Projects \cup {0}, env: T!Envs \cup {0}]

TeamTypeInv ==
  /\ teams \subseteq T!Teams
  /\ member \in [T!Teams -> [People -> Held]]
  /\ teamOverlapped \subseteq T!Teams
  /\ teamJob \in [Handlers -> TeamJob]

-----------------------------------------------------------------------------
(* The inductive invariant *)

TeamChanging(h) == teamJob[h].step \in T!ChangeSteps

\* A change works on one person of a team there is.
Target(h) == TeamChanging(h) => teamJob[h].team \in teams /\ \E u \in People : teamJob[h].who = {u}

\* A change that may cost an owner.
Losing(h) == TeamChanging(h) /\ teamJob[h].want # "owner"

\* Once it has read a person who is no owner, or counted the owners, there is another one.
Leaves(h) ==
  /\ Losing(h) /\ teamJob[h].team \notin teamOverlapped
  /\ teamJob[h].step # "target"
  /\ teamJob[h].step = "count" => teamJob[h].seen # "owner"
  => \E v \in People : v \notin teamJob[h].who /\ member[teamJob[h].team][v] = "owner"

TeamJobsOK == \A h \in Handlers : Target(h) /\ Leaves(h)

\* No two of them are under way in a team in which none have overlapped.
OneLoss ==
  \A g, h \in Handlers :
    Losing(g) /\ Losing(h) /\ teamJob[g].team = teamJob[h].team /\ teamJob[h].team \notin teamOverlapped
    => g = h

TeamInv == TeamTypeInv /\ TeamJobsOK /\ OneLoss /\ T!TeamOwnerUnlessOverlap

-----------------------------------------------------------------------------
(* How a step moves a handler *)

\* The other handlers stay where they are.
TeamAlone(h) == \A g \in Handlers \ {h} : teamJob'[g] = teamJob[g]

LEMMA TeamBegun ==
  ASSUME TeamTypeInv, NEW h \in Handlers, NEW j \in TeamJob, T!Begin(h, j)
  PROVE  teamJob' \in [Handlers -> TeamJob] /\ teamJob'[h] = j /\ TeamAlone(h) /\ teamJob[h] = T!Idle
BY DEF TeamTypeInv, T!Begin, TeamAlone

LEMMA TeamWent ==
  ASSUME TeamTypeInv, NEW h \in Handlers, NEW s \in T!Steps, T!Goto(h, s)
  PROVE  /\ teamJob' \in [Handlers -> TeamJob] /\ TeamAlone(h)
         /\ teamJob'[h].step = s /\ teamJob'[h].team = teamJob[h].team /\ teamJob'[h].who = teamJob[h].who
         /\ teamJob'[h].want = teamJob[h].want /\ teamJob'[h].seen = teamJob[h].seen
BY DEF TeamTypeInv, T!Goto, TeamAlone, TeamJob

LEMMA TeamEnded ==
  ASSUME TeamTypeInv, NEW h \in Handlers, T!Done(h)
  PROVE  teamJob' \in [Handlers -> TeamJob] /\ TeamAlone(h) /\ teamJob'[h].step = "idle"
BY DEF TeamTypeInv, T!Done, TeamAlone, TeamJob, T!Idle, T!Steps, Held

-----------------------------------------------------------------------------
(* What each kind of step keeps *)

\* Nothing of this invariant moves.
LEMMA TeamStill ==
  ASSUME TeamInv, UNCHANGED <<teams, member, teamOverlapped, teamJob>>
  PROVE  TeamInv'
BY DEF TeamInv, TeamTypeInv, TeamJobsOK, OneLoss, T!TeamOwnerUnlessOverlap, T!TeamOwners, TeamChanging,
       Target, Losing, Leaves

\* The team's owners stay owners.
Keeps(t) == \A u \in People : member[t][u] = "owner" => member'[t][u] = "owner"

\* The other handlers keep what they hold, if the owners of their teams stay.
LEMMA OthersKept ==
  ASSUME TeamInv, TeamTypeInv', NEW h \in Handlers, TeamAlone(h),
         teams \subseteq teams', teamOverlapped \subseteq teamOverlapped',
         \A g \in Handlers \ {h} :
           Losing(g) /\ teamJob[g].team \notin teamOverlapped' => Keeps(teamJob[g].team),
         Target(h)', Leaves(h)'
  PROVE  TeamJobsOK'
<1> SUFFICES ASSUME NEW g \in Handlers \ {h}
             PROVE  Target(g)' /\ Leaves(g)'
  BY DEF TeamJobsOK
<1>1. teamJob'[g] = teamJob[g] /\ teamJob[g] \in TeamJob
  BY DEF TeamAlone, TeamInv, TeamTypeInv
<1>2. Target(g) /\ Leaves(g)
  BY DEF TeamInv, TeamJobsOK
<1>3. Target(g)'
  BY <1>1, <1>2 DEF Target, TeamChanging
<1>4. Leaves(g)'
  BY <1>1, <1>2 DEF Leaves, Losing, TeamChanging, Keeps
<1> QED
  BY <1>3, <1>4

\* A handler that moves on inside its change, or leaves it, overlaps with none anew.
LEMMA OneLossKept ==
  ASSUME TeamInv, NEW h \in Handlers, TeamAlone(h), teamOverlapped \subseteq teamOverlapped',
         Losing(h)' => Losing(h) /\ teamJob'[h].team = teamJob[h].team
  PROVE  OneLoss'
BY DEF TeamInv, OneLoss, TeamAlone, Losing, TeamChanging

\* A team with every owner it had has one.
LEMMA TeamOwnerKept ==
  ASSUME TeamInv, NEW t \in teams \ teamOverlapped, Keeps(t)
  PROVE  T!TeamOwners(t)' # {}
BY DEF TeamInv, T!TeamOwnerUnlessOverlap, T!TeamOwners, Keeps

\* The handler moves somewhere outside a change of members, and no row is touched.
LEMMA TeamElsewhere ==
  ASSUME TeamInv, UNCHANGED <<teams, member, teamOverlapped>>, NEW h \in Handlers, TeamAlone(h),
         teamJob' \in [Handlers -> TeamJob], teamJob'[h].step \notin T!ChangeSteps
  PROVE  TeamInv'
<1>1. TeamTypeInv'
  BY DEF TeamInv, TeamTypeInv
<1>2. Target(h)' /\ Leaves(h)' /\ ~TeamChanging(h)'
  BY DEF Target, Losing, Leaves, TeamChanging, T!ChangeSteps
<1>3. TeamJobsOK'
  BY <1>1, <1>2, OthersKept DEF Keeps
<1>4. OneLoss'
  BY <1>2, OneLossKept DEF Losing
<1>5. T!TeamOwnerUnlessOverlap'
  BY DEF TeamInv, T!TeamOwnerUnlessOverlap, T!TeamOwners
<1> QED
  BY <1>1, <1>3, <1>4, <1>5 DEF TeamInv

\* One handler writes rows, and every owner there was stays.
LEMMA TeamAdded ==
  ASSUME TeamInv, UNCHANGED <<teams, teamOverlapped>>, \A t \in T!Teams : Keeps(t),
         member' \in [T!Teams -> [People -> Held]],
         NEW h \in Handlers, T!Done(h)
  PROVE  TeamInv'
<1>1. TeamTypeInv' /\ TeamAlone(h) /\ teamJob'[h].step = "idle"
  BY TeamEnded DEF TeamInv, TeamTypeInv
<1>2. Target(h)' /\ Leaves(h)' /\ ~TeamChanging(h)'
  BY <1>1 DEF Target, Losing, Leaves, TeamChanging, T!ChangeSteps
<1>3. \A g \in Handlers : Losing(g) => teamJob[g].team \in T!Teams
  BY DEF TeamInv, TeamJobsOK, Target, Losing, TeamTypeInv
<1>4. TeamJobsOK'
  BY <1>1, <1>2, <1>3, OthersKept
<1>5. OneLoss'
  BY <1>1, <1>2, OneLossKept DEF Losing
<1>6. T!TeamOwnerUnlessOverlap'
  BY TeamOwnerKept DEF T!TeamOwnerUnlessOverlap, T!TeamOwners, TeamInv, TeamTypeInv
<1> QED
  BY <1>1, <1>4, <1>5, <1>6 DEF TeamInv

-----------------------------------------------------------------------------
(* The steps that change members *)

LEMMA CreateKeeps ==
  ASSUME MaxTeams \in Nat, TeamInv, NEW h \in Handlers, NEW admin \in People,
         T!CreateTeam(h, admin)
  PROVE  TeamInv'
<1>1. PICK t \in T!Teams : /\ teams = 1..t - 1
                         /\ teams' = teams \cup {t}
                         /\ member' = [member EXCEPT ![t][admin] = "owner"]
  BY DEF T!CreateTeam
<1>2. t \notin teams /\ UNCHANGED <<teamOverlapped, teamJob>>
  BY <1>1 DEF T!CreateTeam, T!Teams
<1>3. TeamTypeInv'
  BY <1>1, <1>2 DEF TeamInv, TeamTypeInv, Held, T!TeamRoles
<1>4. \A s \in teams : member'[s] = member[s]
  BY <1>1, <1>2 DEF TeamInv, TeamTypeInv
<1>5. TeamJobsOK'
  BY <1>1, <1>2, <1>4 DEF TeamInv, TeamJobsOK, Target, Losing, Leaves, TeamChanging, T!ChangeSteps
<1>6. OneLoss'
  BY <1>2 DEF TeamInv, OneLoss, Losing, TeamChanging
<1>7. T!TeamOwnerUnlessOverlap'
  <2>1. member'[t][admin] = "owner"
    BY <1>1 DEF TeamInv, TeamTypeInv
  <2> QED
    BY <1>1, <1>2, <1>4, <2>1 DEF TeamInv, T!TeamOwnerUnlessOverlap, T!TeamOwners
<1> QED
  BY <1>3, <1>5, <1>6, <1>7 DEF TeamInv

LEMMA InsertKeeps ==
  ASSUME TeamInv, NEW h \in Handlers, T!InsertMember(h)
  PROVE  TeamInv'
<1>1. PICK u \in teamJob[h].who :
        /\ member[teamJob[h].team][u] = "none"
        /\ member' = [member EXCEPT ![teamJob[h].team][u] = teamJob[h].want]
  BY DEF T!InsertMember
<1>2. teamJob[h].want \in Held /\ u \in People
  BY DEF TeamInv, TeamTypeInv, TeamJob
<1>3. member' \in [T!Teams -> [People -> Held]]
  BY <1>1, <1>2 DEF TeamInv, TeamTypeInv
<1>4. \A t \in T!Teams : Keeps(t)
  BY <1>1, <1>2 DEF Keeps, TeamInv, TeamTypeInv
<1> QED
  BY <1>3, <1>4, TeamAdded DEF T!InsertMember

LEMMA BeginChangeKeeps ==
  ASSUME TeamInv, NEW h \in Handlers, NEW t \in teams, NEW actor \in People, NEW u \in People,
         NEW want \in Held, T!BeginChange(h, t, actor, u, want)
  PROVE  TeamInv'
<1> DEFINE j == [T!Idle EXCEPT !.step = "target", !.team = t, !.who = {u}, !.want = want]
           Busy == want # "owner" /\ \E g \in Handlers :
                     teamJob[g].team = t /\ teamJob[g].step \in T!ChangeSteps /\ teamJob[g].want # "owner"
<1>1. /\ T!Begin(h, j) /\ UNCHANGED <<teams, member>>
      /\ teamOverlapped' = teamOverlapped \cup {s \in {t} : Busy}
  BY DEF T!BeginChange
<1>2. j \in TeamJob /\ j.step = "target" /\ j.team = t /\ j.who = {u} /\ j.want = want
  BY DEF TeamInv, TeamTypeInv, TeamJob, T!Idle, Held, T!Steps, T!ChangeSteps
<1>3. teamJob' \in [Handlers -> TeamJob] /\ teamJob'[h] = j /\ TeamAlone(h)
  BY <1>1, <1>2, TeamBegun DEF TeamInv
<1>4. TeamTypeInv'
  BY <1>1, <1>3 DEF TeamInv, TeamTypeInv
<1>5. Target(h)' /\ Leaves(h)'
  BY <1>1, <1>2, <1>3 DEF Target, Losing, Leaves
<1>6. teamOverlapped \subseteq teamOverlapped' /\ \A s \in T!Teams : Keeps(s)
  BY <1>1 DEF Keeps
<1>7. \A g \in Handlers : Losing(g) => teamJob[g].team \in T!Teams
  BY DEF TeamInv, TeamJobsOK, Target, Losing, TeamTypeInv
<1>8. TeamJobsOK'
  BY <1>1, <1>3, <1>4, <1>5, <1>6, <1>7, OthersKept
<1>9. OneLoss'
  <2>1. ASSUME NEW g \in Handlers \ {h}, Losing(g)', Losing(h)', teamJob'[g].team = t,
               t \notin teamOverlapped'
        PROVE  FALSE
    <3>1. Busy
      BY <1>2, <1>3, <2>1 DEF Losing, TeamChanging, TeamAlone
    <3> QED
      BY <1>1, <2>1, <3>1
  <2>2. ASSUME NEW g \in Handlers \ {h}, NEW f \in Handlers \ {h}, Losing(g)', Losing(f)',
               teamJob'[g].team = teamJob'[f].team, teamJob'[f].team \notin teamOverlapped'
        PROVE  g = f
    BY <1>3, <1>6, <2>2 DEF Losing, TeamChanging, TeamAlone, TeamInv, OneLoss
  <2>3. teamJob'[h].team = t
    BY <1>2, <1>3
  <2> HIDE DEF j, Busy
  <2> QED
    BY <2>1, <2>2, <2>3 DEF OneLoss
<1>10. T!TeamOwnerUnlessOverlap'
  BY <1>1, <1>6 DEF TeamInv, T!TeamOwnerUnlessOverlap, T!TeamOwners
<1> QED
  BY <1>4, <1>8, <1>9, <1>10 DEF TeamInv

LEMMA ReadTargetKeeps ==
  ASSUME TeamInv, NEW h \in Handlers, T!ReadTarget(h)
  PROVE  TeamInv'
<1>1. PICK u \in teamJob[h].who :
        LET seen == member[teamJob[h].team][u] IN
          /\ seen \notin {"none", teamJob[h].want}
          /\ teamJob' = [teamJob EXCEPT ![h].seen = seen,
               ![h].step = IF teamJob[h].want = "none" /\ seen # "owner" THEN "delete" ELSE "count"]
  BY DEF T!ReadTarget
<1> DEFINE seen == member[teamJob[h].team][u]
<1>2. /\ teamJob[h].step = "target" /\ UNCHANGED <<teams, member, teamOverlapped>>
      /\ TeamChanging(h) /\ Target(h) /\ teamJob[h] \in TeamJob
  BY DEF T!ReadTarget, T!teamVars, T!At, TeamChanging, T!ChangeSteps, TeamInv, TeamJobsOK, TeamTypeInv
<1>3. teamJob[h].team \in T!Teams /\ teamJob[h].who = {u} /\ u \in People /\ seen \in Held
  BY <1>2 DEF Target, TeamInv, TeamTypeInv
<1>4. /\ teamJob'[h].seen = seen /\ seen # "none"
      /\ teamJob'[h].step \in {"count", "delete"}
      /\ teamJob'[h].step = "delete" => seen # "owner"
      /\ teamJob'[h].team = teamJob[h].team /\ teamJob'[h].who = {u}
      /\ teamJob'[h].want = teamJob[h].want /\ TeamAlone(h)
  BY <1>1, <1>2, <1>3 DEF TeamJob, TeamAlone, TeamInv, TeamTypeInv
<1>5. TeamTypeInv'
  BY <1>1, <1>2, <1>3 DEF TeamInv, TeamTypeInv, TeamJob, T!Steps, T!ChangeSteps
<1>6. Target(h)' /\ Leaves(h)'
  <2>1. Target(h)'
    BY <1>2, <1>3, <1>4 DEF Target
  <2>2. ASSUME teamJob[h].team \notin teamOverlapped, seen # "owner"
        PROVE  \E v \in People : v # u /\ member[teamJob[h].team][v] = "owner"
    BY <1>2, <2>2 DEF Target, TeamInv, T!TeamOwnerUnlessOverlap, T!TeamOwners
  <2> HIDE DEF seen
  <2>3. Leaves(h)'
    BY <1>2, <1>4, <2>2 DEF Leaves
  <2> QED
    BY <2>1, <2>3
<1>7. TeamJobsOK'
  BY <1>2, <1>4, <1>5, <1>6, OthersKept DEF Keeps
<1>8. OneLoss'
  BY <1>2, <1>4, OneLossKept DEF Losing
<1>9. T!TeamOwnerUnlessOverlap'
  BY <1>2 DEF TeamInv, T!TeamOwnerUnlessOverlap, T!TeamOwners
<1> QED
  BY <1>5, <1>7, <1>8, <1>9 DEF TeamInv

\* More than one owner leaves one when any one of them goes.
LEMMA Another ==
  ASSUME NEW W, NEW u, T!Cardinality(W) > 1
  PROVE  \E v \in W : v # u
<1>0. Cardinality(W) > 1
  BY DEF T!Cardinality, Cardinality
<1>1. CASE W = {}
  BY <1>0, <1>1, FS_EmptySet
<1>2. CASE W = {u}
  <2>1. Cardinality({u}) = 1
    BY FS_Singleton
  <2> QED
    BY <1>0, <1>2, <2>1
<1> QED
  BY <1>1, <1>2

LEMMA CountKeeps ==
  ASSUME TeamInv, NEW h \in Handlers, T!CountOwners(h)
  PROVE  TeamInv'
<1> DEFINE s == IF teamJob[h].want = "none" THEN "delete" ELSE "apply"
           owners == T!TeamOwners(teamJob[h].team)
<1>1. /\ teamJob[h].step = "count" /\ T!OwnerSafe(teamJob[h], T!Cardinality(owners)) /\ T!Goto(h, s)
      /\ UNCHANGED <<teams, member, teamOverlapped>>
      /\ TeamChanging(h) /\ Target(h) /\ Leaves(h) /\ TeamTypeInv
  BY DEF T!CountOwners, T!teamVars, T!At, TeamChanging, T!ChangeSteps, TeamInv, TeamJobsOK
<1>2. /\ teamJob' \in [Handlers -> TeamJob] /\ TeamAlone(h)
      /\ teamJob'[h].step = s /\ teamJob'[h].team = teamJob[h].team /\ teamJob'[h].who = teamJob[h].who
      /\ teamJob'[h].want = teamJob[h].want /\ teamJob'[h].seen = teamJob[h].seen
  BY <1>1, TeamWent DEF T!Steps, T!ChangeSteps
<1>3. TeamTypeInv'
  BY <1>1, <1>2 DEF TeamTypeInv
<1>4. Target(h)'
  BY <1>1, <1>2 DEF Target
<1>5. Leaves(h)'
  <2> SUFFICES ASSUME teamJob[h].seen = "owner", teamJob[h].want # "owner"
               PROVE  \E v \in owners : v \notin teamJob[h].who
    BY <1>1, <1>2 DEF Leaves, Losing, TeamChanging, T!TeamOwners
  <2>1. PICK u \in People : teamJob[h].who = {u}
    BY <1>1 DEF Target
  <2>2. T!Cardinality(owners) > 1
    BY <1>1 DEF T!OwnerSafe
  <2> HIDE DEF owners
  <2> QED
    BY <2>1, <2>2, Another
<1>6. TeamJobsOK'
  BY <1>1, <1>2, <1>3, <1>4, <1>5, OthersKept DEF Keeps, TeamInv
<1>7. OneLoss'
  BY <1>1, <1>2, OneLossKept DEF Losing
<1>8. T!TeamOwnerUnlessOverlap'
  BY <1>1 DEF TeamInv, T!TeamOwnerUnlessOverlap, T!TeamOwners
<1> QED
  BY <1>3, <1>6, <1>7, <1>8 DEF TeamInv

LEMMA ChangeKeeps ==
  ASSUME TeamInv, NEW h \in Handlers, T!ChangeMember(h)
  PROVE  TeamInv'
<1> DEFINE t == teamJob[h].team
<1>1. PICK u \in teamJob[h].who :
        /\ member[t][u] # "none"
        /\ member' = [member EXCEPT ![t][u] = teamJob[h].want]
  BY DEF T!ChangeMember
<1>2. /\ teamJob[h].step \in {"apply", "delete"} /\ T!Done(h) /\ UNCHANGED <<teams, teamOverlapped>>
      /\ TeamChanging(h) /\ Target(h) /\ Leaves(h) /\ teamJob[h] \in TeamJob /\ TeamTypeInv
  BY DEF T!ChangeMember, T!At, TeamChanging, T!ChangeSteps, TeamInv, TeamJobsOK, TeamTypeInv
<1>3. t \in T!Teams /\ teamJob[h].who = {u} /\ u \in People /\ teamJob[h].want \in Held
  BY <1>2 DEF Target, TeamTypeInv, TeamJob
<1>4. /\ teamJob' \in [Handlers -> TeamJob] /\ TeamAlone(h)
      /\ Target(h)' /\ Leaves(h)' /\ ~TeamChanging(h)'
  BY <1>2, TeamEnded DEF Target, Losing, Leaves, TeamChanging, T!ChangeSteps
<1>5. TeamTypeInv'
  BY <1>1, <1>2, <1>3, <1>4 DEF TeamTypeInv
<1>6. \A s \in T!Teams \ {t} : member'[s] = member[s]
  BY <1>1, <1>2, <1>3 DEF TeamTypeInv
<1>7. member'[t] = [member[t] EXCEPT ![u] = teamJob[h].want]
  BY <1>1, <1>2, <1>3 DEF TeamTypeInv
<1>8. TeamJobsOK'
  <2>1. ASSUME NEW g \in Handlers \ {h}, Losing(g), teamJob[g].team \notin teamOverlapped'
        PROVE  Keeps(teamJob[g].team)
    <3>1. teamJob[g].team \in T!Teams
      BY <2>1 DEF TeamInv, TeamJobsOK, Target, Losing, TeamTypeInv
    <3>2. CASE teamJob[g].team # t
      BY <1>6, <3>1, <3>2 DEF Keeps
    <3>3. CASE teamJob[g].team = t
      <4>1. teamJob[h].want = "owner"
        BY <1>2, <2>1, <3>3 DEF TeamInv, OneLoss, Losing
      <4>2. member[t] \in [People -> Held]
        BY <1>2, <1>3 DEF TeamTypeInv
      <4> QED
        BY <1>7, <3>3, <4>1, <4>2 DEF Keeps
    <3> QED
      BY <3>2, <3>3
  <2> QED
    BY <1>2, <1>4, <1>5, <2>1, OthersKept
<1>9. OneLoss'
  BY <1>2, <1>4, OneLossKept DEF Losing
<1>10. T!TeamOwnerUnlessOverlap'
  <2>1. ASSUME t \notin teamOverlapped
        PROVE  \E v \in People : member'[t][v] = "owner"
    <3>1. member[t] \in [People -> Held]
      BY <1>2, <1>3 DEF TeamTypeInv
    <3>2. CASE teamJob[h].want = "owner"
      BY <1>3, <1>7, <3>1, <3>2
    <3>3. CASE teamJob[h].want # "owner"
      BY <1>2, <1>3, <1>7, <2>1, <3>1, <3>3 DEF Leaves, Losing
    <3> QED
      BY <3>2, <3>3
  <2>2. \A s \in teams \ teamOverlapped : s # t => T!TeamOwners(s)' # {}
    BY <1>2, <1>6 DEF TeamInv, TeamTypeInv, T!TeamOwnerUnlessOverlap, T!TeamOwners
  <2> HIDE DEF t
  <2> QED
    BY <1>2, <2>1, <2>2 DEF T!TeamOwnerUnlessOverlap, T!TeamOwners
<1> QED
  BY <1>5, <1>8, <1>9, <1>10 DEF TeamInv

-----------------------------------------------------------------------------
(* Every step keeps it *)

LEMMA TeamInitially == T!Init => TeamInv
<1> SUFFICES ASSUME T!Init PROVE TeamInv
  OBVIOUS
<1>1. T!Idle \in TeamJob /\ T!Idle.step = "idle"
  BY DEF T!Idle, TeamJob, T!Steps, Held
<1>2. TeamTypeInv
  BY <1>1 DEF T!Init, TeamTypeInv, Held
<1>3. \A h \in Handlers : teamJob[h].step = "idle"
  BY <1>1 DEF T!Init
<1> QED
  BY <1>2, <1>3 DEF T!Init, TeamInv, TeamJobsOK, OneLoss, T!TeamOwnerUnlessOverlap, TeamChanging,
     T!ChangeSteps, Target, Losing, Leaves

\* The requests about projects, environments and keys.
LEMMA KeysKeep ==
  ASSUME TeamInv, NEW h \in Handlers,
         \/ T!CreateProject(h)
         \/ \E p \in T!Projects, s \in Slugs : T!CreateEnvironment(h, p, s)
         \/ \E e \in T!Envs : T!DeleteEnvironment(h, e)
         \/ \E p \in T!Projects \cup {0}, e \in T!Envs \cup {0} : T!BeginKey(h, p, e)
         \/ \E k \in T!Keys : T!DeleteKey(h, k)
         \/ T!CheckProject(h) \/ T!CheckEnvironment(h) \/ T!InsertKey(h) \/ T!Publish(h)
  PROVE  TeamInv'
<1>1. TeamTypeInv
  BY DEF TeamInv
<1>2. ASSUME NEW p \in T!Projects, NEW s \in Slugs, T!CreateEnvironment(h, p, s) PROVE TeamInv'
  BY <1>2, TeamStill DEF T!CreateEnvironment, T!teamVars
<1> DEFINE Publishing == [T!Idle EXCEPT !.step = "publish"]
<1>3. Publishing \in TeamJob /\ Publishing.step = "publish"
  BY DEF T!Idle, TeamJob, T!Steps, Held
<1>4. ASSUME T!Begin(h, Publishing), UNCHANGED T!teamVars PROVE TeamInv'
  <2> HIDE DEF Publishing
  <2> QED
    BY <1>1, <1>3, <1>4, TeamBegun, TeamElsewhere DEF T!teamVars, T!ChangeSteps
<1>5. ASSUME NEW p \in T!Projects \cup {0}, NEW e \in T!Envs \cup {0}, T!BeginKey(h, p, e)
      PROVE  TeamInv'
  <2> DEFINE j == [T!Idle EXCEPT !.step = "project", !.project = p, !.env = e]
  <2>1. j \in TeamJob /\ j.step = "project"
    BY DEF T!Idle, TeamJob, T!Steps, Held
  <2>2. T!Begin(h, j) /\ UNCHANGED T!teamVars
    BY <1>5 DEF T!BeginKey
  <2> HIDE DEF j
  <2> QED
    BY <1>1, <2>1, <2>2, TeamBegun, TeamElsewhere DEF T!teamVars, T!ChangeSteps
<1>6. ASSUME NEW s \in {"environment", "insertkey", "publish"}, T!Goto(h, s), UNCHANGED T!teamVars
      PROVE  TeamInv'
  <2>1. s \in T!Steps /\ s \notin T!ChangeSteps
    BY DEF T!Steps, T!ChangeSteps
  <2> QED
    BY <1>1, <1>6, <2>1, TeamWent, TeamElsewhere DEF T!teamVars
<1>7. ASSUME T!Done(h), UNCHANGED T!teamVars PROVE TeamInv'
  BY <1>1, <1>7, TeamEnded, TeamElsewhere DEF T!teamVars, T!ChangeSteps
<1> QED
  BY <1>2, <1>4, <1>5, <1>6, <1>7
     DEF T!CreateProject, T!DeleteEnvironment, T!DeleteKey, T!CheckProject, T!CheckEnvironment,
         T!InsertKey, T!Publish

\* The checks on the way to a new member.
LEMMA AddKeeps ==
  ASSUME TeamInv, NEW h \in Handlers,
         \/ \E t \in teams, actor, u \in People : T!BeginAdd(h, t, actor, u)
         \/ T!CheckOrgMember(h) \/ T!CheckAbsent(h)
  PROVE  TeamInv'
<1>1. TeamTypeInv
  BY DEF TeamInv
<1>2. ASSUME NEW t \in teams, NEW actor \in People, NEW u \in People, T!BeginAdd(h, t, actor, u)
      PROVE  TeamInv'
  <2> DEFINE j == [T!Idle EXCEPT !.step = "orgmember", !.team = t, !.who = {u}, !.want = "member"]
  <2>1. j \in TeamJob /\ j.step = "orgmember"
    BY <1>1 DEF TeamTypeInv, T!Idle, TeamJob, T!Steps, Held, T!TeamRoles
  <2>2. T!Begin(h, j) /\ UNCHANGED T!teamVars
    BY <1>2 DEF T!BeginAdd
  <2> HIDE DEF j
  <2> QED
    BY <1>1, <2>1, <2>2, TeamBegun, TeamElsewhere DEF T!teamVars, T!ChangeSteps
<1>3. ASSUME NEW s \in {"absent", "insert"}, T!Goto(h, s), UNCHANGED T!teamVars
      PROVE  TeamInv'
  <2>1. s \in T!Steps /\ s \notin T!ChangeSteps
    BY DEF T!Steps, T!ChangeSteps
  <2> QED
    BY <1>1, <1>3, <2>1, TeamWent, TeamElsewhere DEF T!teamVars
<1> QED
  BY <1>2, <1>3 DEF T!CheckOrgMember, T!CheckAbsent

LEMMA TeamStepKeeps ==
  ASSUME MaxTeams \in Nat, TeamInv, [T!Next]_(T!vars)
  PROVE  TeamInv'
<1>1. ASSUME UNCHANGED T!vars PROVE TeamInv'
  BY <1>1, TeamStill DEF T!vars, T!teamVars
<1>2. ASSUME NEW u \in People, T!OrgChange(u) PROVE TeamInv'
  BY <1>2, TeamStill DEF T!OrgChange
<1>3. ASSUME NEW h \in Handlers, T!Fail(h) PROVE TeamInv'
  BY <1>3, TeamEnded, TeamElsewhere DEF T!Fail, T!teamVars, T!ChangeSteps, TeamInv
<1>4. ASSUME NEW h \in Handlers, T!Request(h) PROVE TeamInv'
  <2>1. ASSUME NEW t \in teams, NEW actor \in People, NEW u \in People,
               NEW want \in T!TeamRoles \cup {"none"}, T!BeginChange(h, t, actor, u, want)
        PROVE  TeamInv'
    BY <2>1, BeginChangeKeeps DEF Held
  <2> QED
    BY <1>4, <2>1, CreateKeeps, AddKeeps, KeysKeep DEF T!Request
<1>5. ASSUME NEW h \in Handlers, T!Step(h) PROVE TeamInv'
  BY <1>5, AddKeeps, InsertKeeps, ReadTargetKeeps, CountKeeps, ChangeKeeps, KeysKeep DEF T!Step
<1> QED
  BY <1>1, <1>2, <1>3, <1>4, <1>5 DEF T!Next

\* The owner that the handlers of team members counted on is still there when they write.
THEOREM TeamInvariant == ASSUME MaxTeams \in Nat PROVE T!Spec => []TeamInv
<1>1. TeamInv /\ [T!Next]_(T!vars) => TeamInv'
  BY TeamStepKeeps
<1> QED
  BY <1>1, TeamInitially, PTL DEF T!Spec

\* A team in which no two removals or demotions have overlapped has an owner, whatever the
\* handlers of RemoveTeamMember, UpdateTeamMemberRole and the rest do meanwhile.
THEOREM TeamOwned == ASSUME MaxTeams \in Nat PROVE T!Spec => []TeamOwnerUnlessOverlap
<1>1. TeamInv => TeamOwnerUnlessOverlap
  BY DEF TeamInv, TeamOwnerUnlessOverlap
<1> QED
  BY <1>1, TeamInvariant, PTL

-----------------------------------------------------------------------------
(* Keys and their environments *)

Fits(k) ==
  keys[k] # <<>> /\ keys[k][2] # 0 =>
    keys[k][2] \in T!Live /\ envs[keys[k][2]][1] = keys[k][1]

\* A key about to be inserted has an environment of its project, deleted or not.
Ready(h) ==
  teamJob[h].step = "insertkey" /\ teamJob[h].env # 0 =>
    envs[teamJob[h].env] # <<>> /\ envs[teamJob[h].env][1] = teamJob[h].project

UpToDate == ~stale /\ (\A h \in Handlers : ~T!At(h, "publish")) => published = keys

KeyInv ==
  /\ envs \in [T!Envs -> (T!Projects \X Slugs) \cup {<<>>}]
  /\ keys \in [T!Keys -> ((T!Projects \cup {0}) \X (T!Envs \cup {0})) \cup {<<>>}]
  /\ \A k \in T!Keys : Fits(k)
  /\ \A h \in Handlers : Ready(h)
  /\ UpToDate

\* No key changes.
LEMMA KeysStill ==
  ASSUME KeyInv, UNCHANGED <<T!keyVars, teamJob>>
  PROVE  KeyInv'
BY DEF KeyInv, T!keyVars, Fits, Ready, UpToDate, T!Live, T!At

\* A handler that is not about to publish goes somewhere.
LEMMA KeysOnward ==
  ASSUME KeyInv, UNCHANGED T!keyVars, NEW h \in Handlers, TeamAlone(h),
         teamJob[h].step # "publish", Ready(h)'
  PROVE  KeyInv'
<1>1. \A k \in T!Keys : Fits(k)'
  BY DEF KeyInv, T!keyVars, Fits, T!Live
<1>2. \A g \in Handlers : Ready(g)'
  BY DEF KeyInv, T!keyVars, Ready, TeamAlone
<1>3. UpToDate'
  BY DEF KeyInv, T!keyVars, UpToDate, T!At, TeamAlone
<1> QED
  BY <1>1, <1>2, <1>3 DEF KeyInv, T!keyVars

\* A handler that is about to publish now may have changed keys or deleted environments.
LEMMA KeysToPublish ==
  ASSUME KeyInv, envs' = envs, NEW h \in Handlers, TeamAlone(h), teamJob'[h].step = "publish",
         keys' \in [T!Keys -> ((T!Projects \cup {0}) \X (T!Envs \cup {0})) \cup {<<>>}],
         \A k \in T!Keys : Fits(k)'
  PROVE  KeyInv'
<1>1. \A g \in Handlers : Ready(g)'
  BY DEF KeyInv, Ready, TeamAlone
<1>2. UpToDate'
  BY DEF UpToDate, T!At
<1> QED
  BY <1>1, <1>2 DEF KeyInv

LEMMA DeleteEnvironmentFits ==
  ASSUME TeamInv, KeyInv, NEW h \in Handlers, NEW e \in T!Envs, T!DeleteEnvironment(h, e)
  PROVE  KeyInv'
<1>1. /\ e \in T!Live /\ UNCHANGED envs /\ gone' = gone \cup {e}
      /\ keys' = [k \in T!Keys |->
           IF keys[k] # <<>> /\ keys[k][2] = e THEN <<keys[k][1], 0>> ELSE keys[k]]
  BY DEF T!DeleteEnvironment
<1>2. TeamAlone(h) /\ teamJob'[h].step = "publish"
  <2> DEFINE j == [T!Idle EXCEPT !.step = "publish"]
  <2>1. j \in TeamJob /\ j.step = "publish"
    BY DEF T!Idle, TeamJob, T!Steps, Held
  <2>2. T!Begin(h, j)
    BY DEF T!DeleteEnvironment
  <2> HIDE DEF j
  <2> QED
    BY <2>1, <2>2, TeamBegun DEF TeamInv
<1>3. keys' \in [T!Keys -> ((T!Projects \cup {0}) \X (T!Envs \cup {0})) \cup {<<>>}]
  BY <1>1 DEF KeyInv
<1>4. ASSUME NEW k \in T!Keys PROVE Fits(k)'
  <2>1. CASE keys[k] # <<>> /\ keys[k][2] = e
    BY <1>1, <2>1 DEF Fits
  <2>2. CASE keys[k] = <<>> \/ keys[k][2] # e
    <3>1. keys'[k] = keys[k] /\ Fits(k)
      BY <1>1, <2>2 DEF KeyInv
    <3> QED
      BY <1>1, <2>2, <3>1 DEF Fits, T!Live
  <2> QED
    BY <2>1, <2>2
<1> QED
  BY <1>1, <1>2, <1>3, <1>4, KeysToPublish

LEMMA DeleteKeyFits ==
  ASSUME TeamInv, KeyInv, NEW h \in Handlers, NEW k \in T!Keys, T!DeleteKey(h, k)
  PROVE  KeyInv'
<1>1. UNCHANGED <<envs, gone>> /\ keys' = [keys EXCEPT ![k] = <<>>]
  BY DEF T!DeleteKey
<1>2. TeamAlone(h) /\ teamJob'[h].step = "publish"
  <2> DEFINE j == [T!Idle EXCEPT !.step = "publish"]
  <2>1. j \in TeamJob /\ j.step = "publish"
    BY DEF T!Idle, TeamJob, T!Steps, Held
  <2>2. T!Begin(h, j)
    BY DEF T!DeleteKey
  <2> HIDE DEF j
  <2> QED
    BY <2>1, <2>2, TeamBegun DEF TeamInv
<1>3. keys' \in [T!Keys -> ((T!Projects \cup {0}) \X (T!Envs \cup {0})) \cup {<<>>}]
  BY <1>1 DEF KeyInv
<1>4. \A i \in T!Keys : Fits(i)'
  BY <1>1 DEF KeyInv, Fits, T!Live
<1> QED
  BY <1>1, <1>2, <1>3, <1>4, KeysToPublish

LEMMA InsertKeyFits ==
  ASSUME TeamInv, KeyInv, NEW h \in Handlers, T!InsertKey(h)
  PROVE  KeyInv'
<1> DEFINE p == teamJob[h].project
           e == teamJob[h].env
<1>1. PICK k \in T!Keys : keys[k] = <<>> /\ keys' = [keys EXCEPT ![k] = <<p, e>>]
  BY DEF T!InsertKey
<1>2. /\ teamJob[h].step = "insertkey" /\ e \in T!Live \cup {0} /\ UNCHANGED <<envs, gone>>
      /\ T!Goto(h, "publish")
  BY DEF T!InsertKey, T!At
<1>3. TeamAlone(h) /\ teamJob'[h].step = "publish"
  BY <1>2, TeamWent DEF TeamInv, T!Steps
<1>4. p \in T!Projects \cup {0} /\ e \in T!Envs \cup {0}
  BY DEF TeamInv, TeamTypeInv, TeamJob
<1>5. keys' \in [T!Keys -> ((T!Projects \cup {0}) \X (T!Envs \cup {0})) \cup {<<>>}]
  BY <1>1, <1>4 DEF KeyInv
<1>6. keys'[k] = <<p, e>> /\ \A i \in T!Keys \ {k} : keys'[i] = keys[i]
  BY <1>1 DEF KeyInv
<1>7. e # 0 => e \in T!Live /\ envs[e][1] = p
  BY <1>2 DEF KeyInv, Ready
<1>8. Fits(k)'
  BY <1>2, <1>6, <1>7 DEF Fits, T!Live
<1>9. \A i \in T!Keys \ {k} : Fits(i)'
  BY <1>2, <1>6 DEF KeyInv, Fits, T!Live
<1> QED
  BY <1>2, <1>3, <1>5, <1>8, <1>9, KeysToPublish

\* A new environment is one no key and no request names.
LEMMA CreateEnvironmentFits ==
  ASSUME MaxEnvs \in Nat, TeamInv, KeyInv, NEW h \in Handlers, NEW p \in T!Projects, NEW s \in Slugs,
         T!CreateEnvironment(h, p, s)
  PROVE  KeyInv'
<1>1. PICK e \in T!Envs : /\ \A f \in T!Envs : envs[f] = <<>> <=> f >= e
                        /\ envs' = [envs EXCEPT ![e] = <<p, s>>]
  BY DEF T!CreateEnvironment
<1>2. envs[e] = <<>> /\ UNCHANGED <<gone, keys, published, stale, teamJob>>
  BY <1>1 DEF T!CreateEnvironment, T!Envs
<1>3. \A f \in T!Envs : envs[f] # <<>> => envs'[f] = envs[f]
  BY <1>1, <1>2 DEF KeyInv
<1>4. envs' \in [T!Envs -> (T!Projects \X Slugs) \cup {<<>>}]
  BY <1>1 DEF KeyInv
<1>5. \A k \in T!Keys : Fits(k)'
  BY <1>2, <1>3 DEF KeyInv, Fits, T!Live
<1>6. ASSUME NEW g \in Handlers PROVE Ready(g)'
  <2>1. teamJob[g].env \in T!Envs \cup {0}
    BY DEF TeamInv, TeamTypeInv, TeamJob
  <2> QED
    BY <1>2, <1>3, <2>1 DEF KeyInv, Ready
<1>7. UpToDate'
  BY <1>2 DEF KeyInv, UpToDate, T!At
<1> QED
  BY <1>2, <1>4, <1>5, <1>6, <1>7 DEF KeyInv

LEMMA PublishFits ==
  ASSUME TeamInv, KeyInv, NEW h \in Handlers, T!Publish(h)
  PROVE  KeyInv'
<1>1. /\ published' = keys /\ UNCHANGED <<envs, gone, keys>>
      /\ TeamAlone(h) /\ teamJob'[h].step = "idle"
  BY TeamEnded DEF T!Publish, TeamInv
<1>2. \A k \in T!Keys : Fits(k)'
  BY <1>1 DEF KeyInv, Fits, T!Live
<1>3. \A g \in Handlers : Ready(g)'
  BY <1>1 DEF KeyInv, Ready, TeamAlone
<1>4. UpToDate'
  BY <1>1 DEF UpToDate
<1> QED
  BY <1>1, <1>2, <1>3, <1>4 DEF KeyInv

LEMMA FailFits ==
  ASSUME TeamInv, KeyInv, NEW h \in Handlers, T!Fail(h)
  PROVE  KeyInv'
<1>1. /\ stale' = (stale \/ T!At(h, "publish")) /\ UNCHANGED <<envs, gone, keys, published>>
      /\ TeamAlone(h) /\ teamJob'[h].step = "idle"
  BY TeamEnded DEF T!Fail, TeamInv
<1>2. \A k \in T!Keys : Fits(k)'
  BY <1>1 DEF KeyInv, Fits, T!Live
<1>3. \A g \in Handlers : Ready(g)'
  BY <1>1 DEF KeyInv, Ready, TeamAlone
<1>4. UpToDate'
  <2> SUFFICES ASSUME ~stale', \A g \in Handlers : teamJob'[g].step # "publish"
               PROVE  published' = keys'
    BY DEF UpToDate, T!At
  <2>1. ~stale /\ \A g \in Handlers : teamJob[g].step # "publish"
    BY <1>1 DEF T!At, TeamAlone
  <2> QED
    BY <1>1, <2>1 DEF KeyInv, UpToDate, T!At
<1> QED
  BY <1>1, <1>2, <1>3, <1>4 DEF KeyInv

\* A request that begins with its checks.
LEMMA BeginsFit ==
  ASSUME TeamInv, KeyInv, UNCHANGED T!keyVars, NEW h \in Handlers, NEW j \in TeamJob,
         T!Begin(h, j), j.step # "insertkey"
  PROVE  KeyInv'
<1>1. teamJob'[h] = j /\ TeamAlone(h) /\ teamJob[h].step # "publish"
  BY TeamBegun DEF TeamInv, T!Idle
<1> QED
  BY <1>1, KeysOnward DEF Ready

\* A request that goes on with its checks, or ends without having written a key.
LEMMA GoesFit ==
  ASSUME TeamInv, KeyInv, UNCHANGED T!keyVars, NEW h \in Handlers, teamJob[h].step # "publish",
         T!Done(h) \/ \E s \in T!Steps \ {"insertkey"} : T!Goto(h, s)
  PROVE  KeyInv'
<1>1. TeamAlone(h) /\ teamJob'[h].step # "insertkey"
  BY TeamEnded, TeamWent DEF TeamInv
<1> QED
  BY <1>1, KeysOnward DEF Ready

\* The steps about members.
LEMMA MembersFit ==
  ASSUME TeamInv, KeyInv, NEW h \in Handlers,
         \/ \E u \in People : T!CreateTeam(h, u)
         \/ \E t \in teams, actor, u \in People : T!BeginAdd(h, t, actor, u)
         \/ \E t \in teams, actor, u \in People, want \in Held : T!BeginChange(h, t, actor, u, want)
         \/ T!CheckOrgMember(h) \/ T!CheckAbsent(h) \/ T!InsertMember(h)
         \/ T!ReadTarget(h) \/ T!CountOwners(h) \/ T!ChangeMember(h)
  PROVE  KeyInv'
<1>1. ASSUME NEW u \in People, T!CreateTeam(h, u) PROVE KeyInv'
  BY <1>1, KeysStill DEF T!CreateTeam
<1>2. ASSUME NEW t \in teams, NEW actor \in People, NEW u \in People, T!BeginAdd(h, t, actor, u)
      PROVE  KeyInv'
  <2> DEFINE j == [T!Idle EXCEPT !.step = "orgmember", !.team = t, !.who = {u}, !.want = "member"]
  <2>1. j \in TeamJob /\ j.step = "orgmember"
    BY DEF TeamInv, TeamTypeInv, T!Idle, TeamJob, T!Steps, Held, T!TeamRoles
  <2>2. T!Begin(h, j) /\ UNCHANGED T!keyVars
    BY <1>2 DEF T!BeginAdd
  <2> HIDE DEF j
  <2> QED
    BY <2>1, <2>2, BeginsFit
<1>3. ASSUME NEW t \in teams, NEW actor \in People, NEW u \in People, NEW want \in Held,
             T!BeginChange(h, t, actor, u, want)
      PROVE  KeyInv'
  <2> DEFINE j == [T!Idle EXCEPT !.step = "target", !.team = t, !.who = {u}, !.want = want]
  <2>1. j \in TeamJob /\ j.step = "target"
    BY DEF TeamInv, TeamTypeInv, T!Idle, TeamJob, T!Steps, T!ChangeSteps, Held
  <2>2. T!Begin(h, j) /\ UNCHANGED T!keyVars
    BY <1>3 DEF T!BeginChange
  <2> HIDE DEF j
  <2> QED
    BY <2>1, <2>2, BeginsFit
<1>4. ASSUME T!CheckOrgMember(h) \/ T!CheckAbsent(h) \/ T!InsertMember(h) PROVE KeyInv'
  BY <1>4, GoesFit DEF T!CheckOrgMember, T!CheckAbsent, T!InsertMember, T!At, T!Steps
<1>5. ASSUME T!CountOwners(h) PROVE KeyInv'
  <2>1. /\ teamJob[h].step = "count" /\ UNCHANGED T!keyVars
        /\ T!Goto(h, IF teamJob[h].want = "none" THEN "delete" ELSE "apply")
    BY <1>5 DEF T!CountOwners, T!At
  <2> QED
    BY <2>1, GoesFit DEF T!Steps, T!ChangeSteps
<1>6. ASSUME T!ChangeMember(h) PROVE KeyInv'
  BY <1>6, GoesFit DEF T!ChangeMember, T!At
<1>7. ASSUME T!ReadTarget(h) PROVE KeyInv'
  <2>1. /\ teamJob[h].step = "target" /\ UNCHANGED T!keyVars
        /\ TeamAlone(h) /\ teamJob'[h].step \in {"delete", "count"}
    BY <1>7 DEF T!ReadTarget, T!At, TeamAlone, TeamInv, TeamTypeInv, TeamJob
  <2> QED
    BY <2>1, KeysOnward DEF Ready
<1> QED
  BY <1>1, <1>2, <1>3, <1>4, <1>5, <1>6, <1>7

\* The steps about projects, environments and keys.
LEMMA KeyStepsFit ==
  ASSUME MaxEnvs \in Nat, TeamInv, KeyInv, NEW h \in Handlers,
         \/ T!CreateProject(h)
         \/ \E p \in T!Projects, s \in Slugs : T!CreateEnvironment(h, p, s)
         \/ \E e \in T!Envs : T!DeleteEnvironment(h, e)
         \/ \E p \in T!Projects \cup {0}, e \in T!Envs \cup {0} : T!BeginKey(h, p, e)
         \/ \E k \in T!Keys : T!DeleteKey(h, k)
         \/ T!CheckProject(h) \/ T!CheckEnvironment(h) \/ T!InsertKey(h) \/ T!Publish(h)
  PROVE  KeyInv'
<1>1. ASSUME T!CreateProject(h) PROVE KeyInv'
  <2> DEFINE j == [T!Idle EXCEPT !.step = "publish"]
  <2>1. j \in TeamJob /\ j.step = "publish"
    BY DEF T!Idle, TeamJob, T!Steps, Held
  <2>2. T!Begin(h, j) /\ UNCHANGED <<envs, gone, keys>>
    BY <1>1 DEF T!CreateProject
  <2> HIDE DEF j
  <2>3. teamJob'[h].step = "publish" /\ TeamAlone(h)
    BY <2>1, <2>2, TeamBegun DEF TeamInv
  <2> QED
    BY <2>2, <2>3, KeysToPublish DEF KeyInv, Fits, T!Live
<1>2. ASSUME NEW p \in T!Projects \cup {0}, NEW e \in T!Envs \cup {0}, T!BeginKey(h, p, e)
      PROVE  KeyInv'
  <2> DEFINE j == [T!Idle EXCEPT !.step = "project", !.project = p, !.env = e]
  <2>1. j \in TeamJob /\ j.step = "project"
    BY DEF T!Idle, TeamJob, T!Steps, Held
  <2>2. T!Begin(h, j) /\ UNCHANGED T!keyVars
    BY <1>2 DEF T!BeginKey
  <2> HIDE DEF j
  <2> QED
    BY <2>1, <2>2, BeginsFit
<1>3. ASSUME T!CheckProject(h) PROVE KeyInv'
  <2> DEFINE s == IF teamJob[h].env = 0 THEN "insertkey" ELSE "environment"
  <2>1. teamJob[h].step = "project" /\ UNCHANGED T!keyVars /\ T!Goto(h, s)
    BY <1>3 DEF T!CheckProject, T!At
  <2>2. TeamAlone(h) /\ teamJob'[h].step = s /\ teamJob'[h].env = teamJob[h].env
    BY <2>1 DEF T!Goto, TeamAlone, TeamInv, TeamTypeInv, TeamJob
  <2> QED
    BY <2>1, <2>2, KeysOnward DEF Ready
<1>4. ASSUME T!CheckEnvironment(h) PROVE KeyInv'
  <2>1. /\ teamJob[h].step = "environment" /\ UNCHANGED T!keyVars /\ T!Goto(h, "insertkey")
        /\ teamJob[h].env \in T!Live /\ envs[teamJob[h].env][1] = teamJob[h].project
    BY <1>4 DEF T!CheckEnvironment, T!At
  <2>2. /\ TeamAlone(h) /\ teamJob'[h].env = teamJob[h].env /\ teamJob'[h].project = teamJob[h].project
    BY <2>1 DEF T!Goto, TeamAlone, TeamInv, TeamTypeInv, TeamJob
  <2> QED
    BY <2>1, <2>2, KeysOnward DEF Ready, T!keyVars, T!Live
<1> QED
  BY <1>1, <1>2, <1>3, <1>4, CreateEnvironmentFits, DeleteEnvironmentFits, DeleteKeyFits,
     InsertKeyFits, PublishFits

LEMMA KeyInitially == T!Init => KeyInv
BY DEF T!Init, KeyInv, Fits, Ready, UpToDate, T!Idle

LEMMA KeyStep ==
  ASSUME MaxEnvs \in Nat, TeamInv, KeyInv, [T!Next]_(T!vars)
  PROVE  KeyInv'
<1>1. ASSUME UNCHANGED T!vars PROVE KeyInv'
  BY <1>1, KeysStill DEF T!vars
<1>2. ASSUME NEW u \in People, T!OrgChange(u) PROVE KeyInv'
  BY <1>2, KeysStill DEF T!OrgChange
<1>3. ASSUME NEW h \in Handlers, T!Request(h) PROVE KeyInv'
  BY <1>3, MembersFit, KeyStepsFit DEF T!Request, Held
<1>4. ASSUME NEW h \in Handlers, T!Step(h) PROVE KeyInv'
  BY <1>4, MembersFit, KeyStepsFit DEF T!Step
<1> QED
  BY <1>1, <1>2, <1>3, <1>4, FailFits DEF T!Next

\* Published keys name live environments of their own projects once no publish is pending
\* or lost, however the checks of CreateAPIKey and DeleteEnvironment interleave.
THEOREM PublishedFit ==
  ASSUME MaxTeams \in Nat, MaxEnvs \in Nat PROVE T!Spec => []PublishedKeysFit
<1>1. TeamInv /\ KeyInv /\ [T!Next]_(T!vars) => KeyInv'
  BY KeyStep
<1>2. KeyInv => PublishedKeysFit
  BY DEF KeyInv, Fits, UpToDate, PublishedKeysFit, T!PublishedKeysFit
<1> QED
  BY <1>1, <1>2, TeamInvariant, KeyInitially, PTL DEF T!Spec

-----------------------------------------------------------------------------
(* SignIn: the inductive invariant *)

Refusals == {"refused", "failed", "error"}

Request == [step : S!Steps, op : {"register", "login", "request", "confirm", "begin", "complete", None},
            email : Emails \cup {None}, proof : Calls \cup {"first", None},
            idp : S!Providers \cup {None}, sub : Subjects \cup {None},
            claims : S!Tokens \cup {None}, reply : Emails \cup Refusals \cup {"ok", None},
            seen : SUBSET Calls]

Token == [user : Emails, status : {"fresh", "expired", "used"}]

SignInTypes ==
  /\ users \in [Emails -> {None, "first", ""} \cup Calls]
  /\ links \in [S!Providers \X Subjects -> Emails \cup {None}]
  /\ resets \in [Calls -> Token \cup {None}]
  /\ states \in [Calls -> S!Providers \cup {None}]
  /\ call \in [Calls -> Request]

Over(c) == call[c].step = "done"
SsoSteps == {"exchange", "resolve", "match", "provision", "link"}

\* What a request has gathered when it comes to a statement.
Gathered(c) ==
  /\ call[c].step = "create" => call[c].op = "register" /\ call[c].email \in Emails
  /\ call[c].step \in {"void", "mint"} =>
       call[c].op = "request" /\ call[c].email \in Emails /\ users[call[c].email] # None
  /\ call[c].step \in {"set", "consume"} =>
       call[c].op = "confirm" /\ call[c].email \in Emails /\ call[c].proof \in Calls
  /\ call[c].step \in SsoSteps => call[c].op = "complete" /\ call[c].idp \in S!Providers
  /\ call[c].step \in SsoSteps \ {"exchange"} =>
       call[c].sub \in Subjects /\ call[c].claims \in S!Tokens
  /\ call[c].step \in {"match", "provision", "link"} => call[c].email \in Emails

\* A token or a state exists once the request that made it has been answered.
MadeBy(c) ==
  /\ resets[c] # None => Over(c) /\ users[resets[c].user] # None
  /\ states[c] # None => Over(c)

SeenAreOver(c) == \A t \in call[c].seen : Over(t)

Void(t, e) == resets[t] # None => resets[t].user # e \/ resets[t].status = "used"

\* A reset request that has deleted what there was leaves nothing older to use.
Voided(c) ==
  call[c].op = "request" /\ (call[c].step = "mint" \/ (Over(c) /\ call[c].reply = "ok")) =>
    \A t \in call[c].seen : Void(t, call[c].email)

\* A confirmation has not got hold of what an answered request has voided.
NotVoided(c) ==
  call[c].step \in {"set", "consume"} \/ (S!Session(c) /\ call[c].op = "confirm") =>
    \A r \in call[c].seen :
      call[r].op = "request" /\ call[r].email = call[c].email /\ call[r].reply = "ok"
        => call[c].proof \notin call[r].seen

Consumed(c) ==
  S!Session(c) /\ call[c].op = "confirm" =>
    /\ call[c].proof \in Calls /\ resets[call[c].proof] # None
    /\ resets[call[c].proof].status = "used" /\ Over(call[c].proof)

HoldsState(c) ==
  call[c].step \in SsoSteps \/ (S!Session(c) /\ call[c].op = "complete")

\* A state that was taken out of the store is not there, and will not be again.
Taken(c) ==
  HoldsState(c) =>
    call[c].proof \in Calls /\ states[call[c].proof] = None /\ Over(call[c].proof)

\* The session of a federated login is for the user its subject is linked to.
Linked(c) ==
  S!Session(c) /\ call[c].op = "complete" =>
    /\ call[c].idp \in S!Providers /\ call[c].sub \in Subjects
    /\ links[S!Identity(c)] = call[c].reply

CallOK(c) ==
  /\ Gathered(c) /\ MadeBy(c) /\ SeenAreOver(c) /\ Voided(c) /\ NotVoided(c)
  /\ Consumed(c) /\ Taken(c) /\ Linked(c)

TakenOnce ==
  \A c, d \in Calls :
    HoldsState(c) /\ HoldsState(d) /\ call[c].proof = call[d].proof => c = d

UsesToken(c) == S!Session(c) /\ call[c].op = "confirm"

UsedOnce ==
  \A c, d \in Calls :
    UsesToken(c) /\ UsesToken(d) /\ call[c].proof = call[d].proof => c = d

SignInInv == SignInTypes /\ (\A c \in Calls : CallOK(c)) /\ TakenOnce /\ UsedOnce


-----------------------------------------------------------------------------
(* SignIn: how a step moves a request *)

\* The other requests stay where they are.
Apart(c) == \A d \in Calls \ {c} : call'[d] = call[d]

LEMMA Arriving ==
  ASSUME SignInTypes, NEW c \in Calls,
         NEW op \in {"register", "login", "request", "confirm", "begin", "complete"},
         NEW e \in Emails \cup {None}, NEW p \in Calls \cup {"first", None},
         NEW i \in S!Providers \cup {None}
  PROVE  LET r == S!Arrive(c, op, e, p, i) IN
         /\ r \in Request /\ r.op = op /\ r.email = e /\ r.proof = p /\ r.idp = i
         /\ \A t \in Calls : t \in r.seen <=> Over(t)
BY DEF S!Arrive, S!Idle, S!Answered, S!At, Request, S!Steps, Over

LEMMA Answering ==
  ASSUME SignInTypes, NEW c \in Calls, NEW r \in Request,
         NEW reply \in Emails \cup Refusals \cup {"ok"}, S!Answer(c, r, reply)
  PROVE  /\ call' \in [Calls -> Request] /\ Apart(c)
         /\ call'[c].step = "done" /\ call'[c].reply = reply
         /\ call'[c].op = r.op /\ call'[c].email = r.email /\ call'[c].seen = r.seen
         /\ reply \in Emails =>
              call'[c].proof = r.proof /\ call'[c].idp = r.idp /\ call'[c].sub = r.sub
<1> DEFINE done == IF reply \in Emails THEN r
                   ELSE [r EXCEPT !.proof = None, !.idp = None, !.sub = None]
           answered == [done EXCEPT !.step = "done", !.claims = None, !.reply = reply]
<1>1. done \in Request /\ done.op = r.op /\ done.email = r.email /\ done.seen = r.seen
  BY DEF Request
<1>2. reply \in Emails => done = r
  OBVIOUS
<1>3. call' = [call EXCEPT ![c] = answered]
  BY DEF S!Answer
<1> HIDE DEF done
<1>4. /\ answered \in Request /\ answered.step = "done" /\ answered.reply = reply
      /\ answered.op = done.op /\ answered.email = done.email /\ answered.seen = done.seen
      /\ answered.proof = done.proof /\ answered.idp = done.idp /\ answered.sub = done.sub
  <2>1. "done" \in S!Steps /\ reply \in Emails \cup Refusals \cup {"ok", None}
    BY DEF S!Steps
  <2>2. answered \in Request
    BY <1>1, <2>1 DEF Request
  <2> QED
    BY <1>1, <2>2 DEF Request
<1> HIDE DEF answered
<1> QED
  BY <1>1, <1>2, <1>3, <1>4 DEF SignInTypes, Apart

LEMMA Going ==
  ASSUME SignInTypes, NEW c \in Calls, NEW r \in Request, NEW s \in S!Steps, S!Goto(c, r, s)
  PROVE  /\ call' \in [Calls -> Request] /\ Apart(c)
         /\ call'[c].step = s /\ call'[c].op = r.op /\ call'[c].email = r.email
         /\ call'[c].proof = r.proof /\ call'[c].idp = r.idp /\ call'[c].sub = r.sub
         /\ call'[c].claims = r.claims /\ call'[c].seen = r.seen
<1> DEFINE gone1 == [r EXCEPT !.step = s]
<1>1. /\ gone1 \in Request /\ gone1.step = s /\ gone1.op = r.op /\ gone1.email = r.email
      /\ gone1.proof = r.proof /\ gone1.idp = r.idp /\ gone1.sub = r.sub
      /\ gone1.claims = r.claims /\ gone1.seen = r.seen
  BY DEF Request
<1>2. call' = [call EXCEPT ![c] = gone1]
  BY DEF S!Goto
<1> HIDE DEF gone1
<1>3. /\ call' \in [Calls -> Request] /\ Apart(c) /\ call'[c] = gone1
  BY <1>1, <1>2 DEF SignInTypes, Apart
<1> QED
  BY <1>1, <1>3 DEF gone1

-----------------------------------------------------------------------------
(* SignIn: what a step keeps of the other requests *)

\* A token only wears out: it is used for good, and what is deleted stays so.
Wears(t) ==
  /\ resets'[t] # None =>
       /\ resets[t] # None /\ resets'[t].user = resets[t].user
       /\ resets[t].status = "used" => resets'[t].status = "used"
  /\ resets[t] # None /\ resets[t].status = "used" => resets'[t] # None

Wearing(c) ==
  /\ \A e \in Emails : users[e] # None => users'[e] # None
  /\ \A k \in S!Providers \X Subjects : links[k] # None => links'[k] = links[k]
  /\ \A t \in Calls \ {c} : Wears(t) /\ states'[t] \in {states[t], None}

LEMMA OthersOK ==
  ASSUME SignInInv, SignInTypes', NEW c \in Calls, Apart(c), ~Over(c), Wearing(c),
         NEW d \in Calls, d # c
  PROVE  CallOK(d)'
<1> USE DEF Over
<1>1. CallOK(d) /\ call'[d] = call[d] /\ call[d] \in Request
  BY DEF SignInInv, Apart, SignInTypes
<1>2. \A t \in Calls : Over(t) => call'[t] = call[t] /\ t # c /\ Over(t)'
  BY DEF Apart
<1>3. \A t \in Calls : resets[t] # None => resets[t] \in Token
  BY DEF SignInInv, SignInTypes
<1>4. call[d].seen \subseteq Calls
  BY <1>1 DEF Request
<1>5. SeenAreOver(d)'
  BY <1>1, <1>2, <1>4 DEF CallOK, SeenAreOver
<1>6. Gathered(d)'
  BY <1>1 DEF CallOK, Gathered, Wearing
<1>7. MadeBy(d)'
  BY <1>1, <1>3 DEF CallOK, MadeBy, Wearing, Wears, Token
<1>8. Voided(d)'
  <2>1. ASSUME NEW t \in call[d].seen, Void(t, call[d].email) PROVE Void(t, call[d].email)'
    BY <1>1, <1>2, <1>4, <2>1 DEF Void, Wearing, Wears, CallOK, SeenAreOver
  <2> QED
    BY <1>1, <2>1 DEF CallOK, Voided, Void
<1>9. NotVoided(d)'
  BY <1>1, <1>2, <1>4 DEF CallOK, NotVoided, SeenAreOver, S!Session, S!At
<1>10. Consumed(d)'
  BY <1>1, <1>2 DEF CallOK, Consumed, S!Session, S!At, Wearing, Wears
<1>11. Taken(d)'
  BY <1>1, <1>2 DEF CallOK, Taken, HoldsState, S!Session, S!At, Wearing
<1>12. Linked(d)'
  <2>1. S!Identity(d)' = S!Identity(d) /\ (S!Session(d)' <=> S!Session(d))
    BY <1>1 DEF S!Identity, S!Session, S!At
  <2>2. CASE S!Session(d) /\ call[d].op = "complete"
    <3>1. S!Identity(d) \in S!Providers \X Subjects /\ links[S!Identity(d)] = call[d].reply
      BY <1>1, <2>2 DEF CallOK, Linked, S!Identity
    <3>2. links[S!Identity(d)] # None
      BY <2>2, <3>1, SignInAssumption DEF S!Session
    <3> QED
      BY <1>1, <2>1, <2>2, <3>1, <3>2 DEF CallOK, Linked, Wearing
  <2> QED
    BY <1>1, <2>1, <2>2 DEF Linked
<1> QED
  BY <1>5, <1>6, <1>7, <1>8, <1>9, <1>10, <1>11, <1>12 DEF CallOK

\* A request that does not take a state keeps the states where they are.
LEMMA TakenOnceKept ==
  ASSUME SignInInv, NEW c \in Calls, Apart(c),
         HoldsState(c)' => HoldsState(c) /\ call'[c].proof = call[c].proof
  PROVE  TakenOnce'
<1>1. \A d \in Calls : HoldsState(d)' => HoldsState(d) /\ call'[d].proof = call[d].proof
  BY DEF HoldsState, Apart, S!Session, S!At
<1> HIDE DEF HoldsState
<1> QED
  BY <1>1 DEF TakenOnce, SignInInv

\* A token that opens a session had opened none.
LEMMA UsedOnceKept ==
  ASSUME SignInInv, NEW c \in Calls, Apart(c), UsesToken(c)' => S!Unused(call'[c].proof)
  PROVE  UsedOnce'
<1>1. ASSUME NEW d \in Calls \ {c}, UsesToken(d)'
      PROVE  UsesToken(d) /\ call'[d].proof = call[d].proof /\ ~S!Unused(call[d].proof)
  <2>1. UsesToken(d) /\ call'[d] = call[d]
    BY <1>1 DEF UsesToken, Apart, S!Session, S!At
  <2> QED
    BY <2>1 DEF UsesToken, SignInInv, CallOK, Consumed, S!Unused
<1> HIDE DEF UsesToken, S!Unused
<1>2. ASSUME NEW d \in Calls, NEW e \in Calls, UsesToken(d)', UsesToken(e)',
             call'[d].proof = call'[e].proof
      PROVE  d = e
  BY <1>1, <1>2 DEF UsedOnce, SignInInv
<1> QED
  BY <1>2 DEF UsedOnce

\* What one request does is as good as the invariant.
LEMMA OneMoves ==
  ASSUME SignInInv, SignInTypes', NEW c \in Calls, Apart(c), ~Over(c), Wearing(c), CallOK(c)',
         HoldsState(c)' => HoldsState(c) /\ call'[c].proof = call[c].proof,
         UsesToken(c)' => S!Unused(call'[c].proof)
  PROVE  SignInInv'
BY OthersOK, TakenOnceKept, UsedOnceKept DEF SignInInv


StoresTyped ==
  /\ users \in [Emails -> {None, "first", ""} \cup Calls]
  /\ links \in [S!Providers \X Subjects -> Emails \cup {None}]
  /\ resets \in [Calls -> Token \cup {None}]
  /\ states \in [Calls -> S!Providers \cup {None}]

\* A request that has not been answered has made nothing, and saw what was answered.
LEMMA Unanswered ==
  ASSUME SignInInv, NEW c \in Calls, ~Over(c)
  PROVE  /\ resets[c] = None /\ states[c] = None /\ call[c] \in Request
         /\ \A t \in call[c].seen : t \in Calls /\ Over(t)
         /\ SignInTypes /\ StoresTyped /\ CallOK(c)
<1>1. SignInTypes /\ StoresTyped /\ CallOK(c) /\ call[c] \in Request
  BY DEF SignInInv, SignInTypes, StoresTyped
<1>2. call[c].seen \subseteq Calls
  BY <1>1 DEF Request
<1> QED
  BY <1>1, <1>2 DEF CallOK, MadeBy, SeenAreOver

LEMMA Sees ==
  ASSUME NEW c \in Calls, ~Over(c), Apart(c), \A t \in call'[c].seen : t \in Calls /\ Over(t)
  PROVE  SeenAreOver(c)'
BY DEF SeenAreOver, Over, Apart

\* A request goes to its next statement.
LEMMA GoingKeeps ==
  ASSUME SignInInv, NEW c \in Calls, ~Over(c), NEW r \in Request, NEW s \in S!Steps \ {"done"},
         S!Goto(c, r, s), \A t \in r.seen : t \in Calls /\ Over(t),
         StoresTyped', Wearing(c), resets'[c] = None, states'[c] = None,
         Gathered(c)', Voided(c)', NotVoided(c)', Taken(c)',
         HoldsState(c)' => HoldsState(c) /\ call'[c].proof = call[c].proof
  PROVE  SignInInv'
<1>1. /\ call' \in [Calls -> Request] /\ Apart(c)
      /\ call'[c].step = s /\ call'[c].seen = r.seen
  BY Going DEF SignInInv
<1>2. SignInTypes'
  BY <1>1 DEF SignInTypes, StoresTyped
<1>3. SeenAreOver(c)'
  BY <1>1, Sees
<1>4. MadeBy(c)' /\ Consumed(c)' /\ Linked(c)' /\ ~UsesToken(c)'
  BY <1>1 DEF MadeBy, Consumed, Linked, UsesToken, S!Session, S!At
<1> QED
  BY <1>1, <1>2, <1>3, <1>4, OneMoves DEF CallOK

\* A request is turned away, or fails: whatever it was, it holds nothing then.
LEMMA RefusalKeeps ==
  ASSUME SignInInv, NEW c \in Calls, ~Over(c), NEW r \in Request, NEW reply \in Refusals,
         S!Answer(c, r, reply), \A t \in r.seen : t \in Calls /\ Over(t),
         UNCHANGED <<users, links, resets>>, StoresTyped',
         \A t \in Calls : states'[t] \in {states[t], None}
  PROVE  SignInInv'
<1>1. /\ call' \in [Calls -> Request] /\ Apart(c)
      /\ call'[c].step = "done" /\ call'[c].reply = reply /\ call'[c].seen = r.seen
  BY Answering DEF SignInInv
<1>2. SignInTypes' /\ Wearing(c)
  BY <1>1 DEF SignInTypes, StoresTyped, Wearing, Wears
<1>3. SeenAreOver(c)'
  BY <1>1, Sees
<1>4. resets'[c] = None /\ states'[c] = None
  BY Unanswered
<1>5. reply \notin Emails /\ reply # "ok"
  BY SignInAssumption DEF Refusals
<1>6. /\ Gathered(c)' /\ MadeBy(c)' /\ Voided(c)' /\ NotVoided(c)' /\ Consumed(c)'
      /\ Taken(c)' /\ Linked(c)' /\ ~HoldsState(c)' /\ ~UsesToken(c)'
  BY <1>1, <1>4, <1>5
     DEF Gathered, MadeBy, Voided, NotVoided, Consumed, Taken, Linked, HoldsState, UsesToken, SsoSteps,
         S!Session, S!At
<1> QED
  BY <1>1, <1>2, <1>3, <1>6, OneMoves DEF CallOK

LEMMA FaultKeeps ==
  ASSUME SignInInv, NEW c \in Calls, ~Over(c), S!Fault(c)
  PROVE  SignInInv'
<1>1. /\ S!Answer(c, call[c], "failed") /\ UNCHANGED <<users, links, resets, states>>
      /\ "failed" \in Refusals
  BY DEF S!Fault, Refusals
<1> QED
  BY <1>1, Unanswered, RefusalKeeps DEF StoresTyped

LEMMA EmailTakenKeeps ==
  ASSUME SignInInv, NEW c \in Calls, ~Over(c), S!EmailTaken(c), UNCHANGED <<links, resets, states>>
  PROVE  SignInInv'
<1>1. S!Answer(c, call[c], "error") /\ users' = users /\ "error" \in Refusals
  BY DEF S!EmailTaken, Refusals
<1> QED
  BY <1>1, Unanswered, RefusalKeeps DEF StoresTyped

\* An answer to a request that is neither a reset nor a federated login.
LEMMA OtherAnswerKeeps ==
  ASSUME SignInInv, NEW c \in Calls, ~Over(c), NEW r \in Request,
         NEW reply \in Emails \cup Refusals \cup {"ok"},
         S!Answer(c, r, reply), \A t \in r.seen : t \in Calls /\ Over(t),
         r.op \in {"register", "login", "begin"},
         StoresTyped', Wearing(c), resets'[c] = None
  PROVE  SignInInv'
<1>1. /\ call' \in [Calls -> Request] /\ Apart(c)
      /\ call'[c].step = "done" /\ call'[c].op = r.op /\ call'[c].seen = r.seen
  BY Answering DEF SignInInv
<1>2. SignInTypes'
  BY <1>1 DEF SignInTypes, StoresTyped
<1>3. SeenAreOver(c)'
  BY <1>1, Sees
<1>4. /\ Gathered(c)' /\ MadeBy(c)' /\ Voided(c)' /\ NotVoided(c)' /\ Consumed(c)'
      /\ Taken(c)' /\ Linked(c)' /\ ~HoldsState(c)' /\ ~UsesToken(c)'
  BY <1>1
     DEF Gathered, MadeBy, Voided, NotVoided, Consumed, Taken, Linked, HoldsState, UsesToken, SsoSteps,
         S!Session, S!At, Over
<1> QED
  BY <1>1, <1>2, <1>3, <1>4, OneMoves DEF CallOK

-----------------------------------------------------------------------------
(* SignIn: the steps *)

LEMMA RegisterKeeps ==
  ASSUME SignInInv, NEW c \in Calls, NEW e \in Emails, S!Register(c, e)
  PROVE  SignInInv'
<1> DEFINE r == S!Arrive(c, "register", e, None, None)
<1>1. /\ ~Over(c) /\ UNCHANGED <<users, links, resets, states>>
      /\ S!Answer(c, r, "refused") \/ S!Goto(c, r, "create")
  BY DEF S!Register, S!At, Over
<1>2. r \in Request /\ r.op = "register" /\ r.email = e /\ \A t \in r.seen : t \in Calls /\ Over(t)
  <2>1. r \in Request /\ r.op = "register" /\ r.email = e /\ \A t \in Calls : t \in r.seen => Over(t)
    BY Arriving DEF SignInInv
  <2> QED
    BY <2>1 DEF Request
<1>3. resets'[c] = None /\ states'[c] = None /\ StoresTyped' /\ Wearing(c)
  BY <1>1, Unanswered DEF StoresTyped, Wearing, Wears
<1> HIDE DEF r
<1>4. ASSUME S!Answer(c, r, "refused") PROVE SignInInv'
  BY <1>1, <1>2, <1>3, <1>4, RefusalKeeps DEF Refusals
<1>5. ASSUME S!Goto(c, r, "create") PROVE SignInInv'
  <2>1. "create" \in S!Steps \ {"done"}
    BY DEF S!Steps
  <2>2. call'[c].step = "create" /\ call'[c].op = "register" /\ call'[c].email = e
    BY <1>2, <1>5, <2>1, Going DEF SignInInv
  <2>3. Gathered(c)' /\ Voided(c)' /\ NotVoided(c)' /\ Taken(c)' /\ ~HoldsState(c)'
    BY <2>2 DEF Gathered, Voided, NotVoided, Taken, HoldsState, SsoSteps, S!Session, S!At, Over
  <2> QED
    BY <1>1, <1>2, <1>3, <1>5, <2>1, <2>3, GoingKeeps
<1> QED
  BY <1>1, <1>4, <1>5

LEMMA CreateAccountKeeps ==
  ASSUME SignInInv, NEW c \in Calls, S!CreateAccount(c)
  PROVE  SignInInv'
<1>1. call[c].step = "create" /\ ~Over(c)
  BY DEF S!CreateAccount, S!At, Over
<1>2. call[c].op = "register" /\ call[c].email \in Emails
  BY <1>1, Unanswered DEF CallOK, Gathered
<1>3. ASSUME S!InsertUser(c, c), S!Answer(c, call[c], call[c].email), UNCHANGED <<links, resets, states>>
      PROVE  SignInInv'
  <2>1. users[call[c].email] = None /\ users' = [users EXCEPT ![call[c].email] = c]
    BY <1>3 DEF S!InsertUser
  <2>2. StoresTyped' /\ Wearing(c) /\ resets'[c] = None
    BY <1>1, <1>2, <1>3, <2>1, Unanswered, SignInAssumption DEF StoresTyped, Wearing, Wears
  <2> QED
    BY <1>1, <1>2, <1>3, <2>2, Unanswered, OtherAnswerKeeps
<1> QED
  BY <1>1, <1>3, FaultKeeps, EmailTakenKeeps DEF S!CreateAccount

LEMMA LoginKeeps ==
  ASSUME SignInInv, NEW c \in Calls, NEW e \in Emails, NEW p \in Calls \cup {"first"},
         S!LoginWithPassword(c, e, p)
  PROVE  SignInInv'
<1> DEFINE r == S!Arrive(c, "login", e, p, None)
<1>1. /\ ~Over(c) /\ UNCHANGED <<users, links, resets, states>>
      /\ S!Answer(c, r, e) \/ S!Answer(c, r, "refused")
  BY DEF S!LoginWithPassword, S!At, Over
<1>2. r \in Request /\ r.op = "login" /\ \A t \in r.seen : t \in Calls /\ Over(t)
  <2>1. r \in Request /\ r.op = "login" /\ \A t \in Calls : t \in r.seen => Over(t)
    BY Arriving DEF SignInInv
  <2> QED
    BY <2>1 DEF Request
<1>3. resets'[c] = None /\ StoresTyped' /\ Wearing(c)
  BY <1>1, Unanswered DEF StoresTyped, Wearing, Wears
<1> HIDE DEF r
<1> QED
  BY <1>1, <1>2, <1>3, OtherAnswerKeeps DEF Refusals


LEMMA RequestResetKeeps ==
  ASSUME SignInInv, NEW c \in Calls, NEW e \in Emails, S!RequestPasswordReset(c, e)
  PROVE  SignInInv'
<1> DEFINE r == S!Arrive(c, "request", e, None, None)
<1>1. /\ ~Over(c) /\ UNCHANGED <<users, links, resets, states>>
      /\ \/ users[e] = None /\ S!Answer(c, r, "ok")
         \/ users[e] # None /\ S!Goto(c, r, "void")
  BY DEF S!RequestPasswordReset, S!At, Over
<1>2. /\ r \in Request /\ r.op = "request" /\ r.email = e
      /\ \A t \in r.seen : t \in Calls /\ Over(t)
  <2>1. /\ r \in Request /\ r.op = "request" /\ r.email = e
        /\ \A t \in Calls : t \in r.seen => Over(t)
    BY Arriving DEF SignInInv
  <2> QED
    BY <2>1 DEF Request
<1>3. resets'[c] = None /\ states'[c] = None /\ StoresTyped' /\ Wearing(c)
  BY <1>1, Unanswered DEF StoresTyped, Wearing, Wears
<1> HIDE DEF r
<1>4. ASSUME users[e] = None, S!Answer(c, r, "ok") PROVE SignInInv'
  <2>1. /\ call' \in [Calls -> Request] /\ Apart(c) /\ call'[c].step = "done"
        /\ call'[c].reply = "ok" /\ call'[c].email = e /\ call'[c].seen = r.seen
        /\ call'[c].op = "request"
    BY <1>2, <1>4, Answering DEF SignInInv
  <2>2. SignInTypes'
    BY <1>3, <2>1 DEF SignInTypes, StoresTyped
  <2>3. Voided(c)'
    <3> SUFFICES ASSUME NEW t \in r.seen PROVE Void(t, e)'
      BY <2>1 DEF Voided, Void
    <3>1. resets[t] # None => users[resets[t].user] # None
      BY <1>2 DEF SignInInv, CallOK, MadeBy
    <3> QED
      BY <1>1, <1>4, <3>1 DEF Void
  <2>4. SeenAreOver(c)'
    BY <1>1, <1>2, <2>1, Sees
  <2>5. "ok" \notin Emails
    BY SignInAssumption
  <2>6. /\ Gathered(c)' /\ MadeBy(c)' /\ NotVoided(c)' /\ Consumed(c)' /\ Taken(c)'
        /\ Linked(c)' /\ ~HoldsState(c)' /\ ~UsesToken(c)'
    BY <1>3, <2>1, <2>5
       DEF Gathered, MadeBy, NotVoided, Consumed, Taken, Linked, HoldsState, UsesToken,
           SsoSteps, S!Session, S!At
  <2> QED
    BY <1>1, <1>3, <2>1, <2>2, <2>3, <2>4, <2>6, OneMoves DEF CallOK
<1>5. ASSUME users[e] # None, S!Goto(c, r, "void") PROVE SignInInv'
  <2>1. "void" \in S!Steps \ {"done"}
    BY DEF S!Steps
  <2>2. call'[c].step = "void" /\ call'[c].op = "request" /\ call'[c].email = e
    BY <1>2, <1>5, <2>1, Going DEF SignInInv
  <2>3. Gathered(c)' /\ Voided(c)' /\ NotVoided(c)' /\ Taken(c)' /\ ~HoldsState(c)'
    BY <1>1, <1>5, <2>2
       DEF Gathered, Voided, NotVoided, Taken, HoldsState, SsoSteps, S!Session, S!At, Over
  <2> QED
    BY <1>1, <1>2, <1>3, <1>5, <2>1, <2>3, GoingKeeps
<1> QED
  BY <1>1, <1>4, <1>5

LEMMA DeleteUnusedKeeps ==
  ASSUME SignInInv, NEW c \in Calls, S!DeleteUnusedForUser(c)
  PROVE  SignInInv'
<1>1. call[c].step = "void" /\ ~Over(c)
  BY DEF S!DeleteUnusedForUser, S!At, Over
<1>2. call[c].op = "request" /\ call[c].email \in Emails /\ users[call[c].email] # None
  BY <1>1, Unanswered DEF CallOK, Gathered
<1>3. ASSUME resets' = [t \in Calls |-> IF S!Unused(t) /\ resets[t].user = call[c].email
                                        THEN None ELSE resets[t]],
             S!Goto(c, call[c], "mint"), UNCHANGED <<users, links, states>>
      PROVE  SignInInv'
  <2>1. "mint" \in S!Steps \ {"done"}
    BY DEF S!Steps
  <2>2. /\ call'[c].step = "mint" /\ call'[c].op = "request" /\ call'[c].email = call[c].email
        /\ call'[c].seen = call[c].seen
    BY <1>1, <1>2, <1>3, <2>1, Unanswered, Going
  <2>3. \A t \in Calls : resets'[t] = resets[t] \/ (S!Unused(t) /\ resets'[t] = None)
    BY <1>3
  <2>4. StoresTyped' /\ Wearing(c) /\ resets'[c] = None /\ states'[c] = None
    <3>1. resets' \in [Calls -> Token \cup {None}]
      BY <1>1, <1>3, Unanswered DEF StoresTyped
    <3>2. \A t \in Calls : Wears(t)
      BY <2>3 DEF Wears, S!Unused
    <3> QED
      BY <1>1, <1>3, <2>3, <3>1, <3>2, Unanswered DEF StoresTyped, Wearing
  <2>5. Voided(c)'
    <3> SUFFICES ASSUME NEW t \in call[c].seen PROVE Void(t, call[c].email)'
      BY <2>2 DEF Voided, Void
    <3>1. t \in Calls
      BY <1>1, Unanswered
    <3> QED
      BY <1>3, <2>2, <3>1 DEF Void, S!Unused
  <2>6. Gathered(c)' /\ NotVoided(c)' /\ Taken(c)' /\ ~HoldsState(c)'
    BY <1>2, <1>3, <2>2
       DEF Gathered, NotVoided, Taken, HoldsState, SsoSteps, S!Session, S!At
  <2> QED
    BY <1>1, <1>3, <2>1, <2>4, <2>5, <2>6, Unanswered, GoingKeeps
<1> QED
  BY <1>1, <1>3, FaultKeeps DEF S!DeleteUnusedForUser

LEMMA CreateTokenKeeps ==
  ASSUME SignInInv, NEW c \in Calls, S!CreateToken(c)
  PROVE  SignInInv'
<1>1. call[c].step = "mint" /\ ~Over(c)
  BY DEF S!CreateToken, S!At, Over
<1>2. /\ call[c].op = "request" /\ call[c].email \in Emails /\ users[call[c].email] # None
      /\ \A t \in call[c].seen : t \in Calls /\ t # c /\ Void(t, call[c].email)
  BY <1>1, Unanswered DEF CallOK, Gathered, Voided
<1>3. ASSUME resets' = [resets EXCEPT ![c] = [user |-> call[c].email, status |-> "fresh"]],
             S!Answer(c, call[c], "ok"), UNCHANGED <<users, links, states>>
      PROVE  SignInInv'
  <2>1. /\ call' \in [Calls -> Request] /\ Apart(c) /\ call'[c].step = "done"
        /\ call'[c].reply = "ok" /\ call'[c].email = call[c].email
        /\ call'[c].seen = call[c].seen /\ call'[c].op = "request"
    BY <1>1, <1>2, <1>3, Unanswered, Answering
  <2>2. /\ resets'[c] = [user |-> call[c].email, status |-> "fresh"]
        /\ resets' \in [Calls -> Token \cup {None}]
        /\ \A t \in Calls \ {c} : resets'[t] = resets[t]
    <3>1. [user |-> call[c].email, status |-> "fresh"] \in Token
      BY <1>2 DEF Token
    <3> QED
      BY <1>1, <1>3, <3>1, Unanswered DEF StoresTyped
  <2>3. SignInTypes' /\ Wearing(c)
    BY <1>1, <1>3, <2>1, <2>2, Unanswered DEF SignInTypes, StoresTyped, Wearing, Wears
  <2>4. Voided(c)'
    BY <1>2, <2>1, <2>2 DEF Voided, Void
  <2>5. SeenAreOver(c)'
    BY <1>1, <2>1, Sees, Unanswered
  <2>6. MadeBy(c)'
    BY <1>2, <1>3, <2>1, <2>2 DEF MadeBy, Over
  <2>7. "ok" \notin Emails
    BY SignInAssumption
  <2>8. /\ Gathered(c)' /\ NotVoided(c)' /\ Consumed(c)' /\ Taken(c)'
        /\ Linked(c)' /\ ~HoldsState(c)' /\ ~UsesToken(c)'
    BY <2>1, <2>7
       DEF Gathered, NotVoided, Consumed, Taken, Linked, HoldsState, UsesToken, SsoSteps,
           S!Session, S!At
  <2> QED
    BY <1>1, <2>1, <2>3, <2>4, <2>5, <2>6, <2>8, OneMoves DEF CallOK
<1> QED
  BY <1>1, <1>3, FaultKeeps DEF S!CreateToken

LEMMA ConfirmKeeps ==
  ASSUME SignInInv, NEW c \in Calls, NEW t \in Calls, S!ConfirmPasswordReset(c, t)
  PROVE  SignInInv'
<1> DEFINE r == S!Arrive(c, "confirm", None, t, None)
           held == [r EXCEPT !.email = resets[t].user]
<1>1. /\ ~Over(c) /\ UNCHANGED <<users, links, resets, states>>
      /\ \/ S!Unused(t) /\ resets[t].status = "fresh" /\ S!Goto(c, held, "set")
         \/ S!Answer(c, r, "refused")
  BY DEF S!ConfirmPasswordReset, S!At, Over
<1>2. /\ r \in Request /\ r.op = "confirm" /\ r.proof = t
      /\ \A d \in r.seen : d \in Calls /\ Over(d)
  <2>1. /\ r \in Request /\ r.op = "confirm" /\ r.proof = t
        /\ \A d \in Calls : d \in r.seen => Over(d)
    BY Arriving DEF SignInInv
  <2> QED
    BY <2>1 DEF Request
<1>3. resets'[c] = None /\ states'[c] = None /\ StoresTyped' /\ Wearing(c)
  BY <1>1, Unanswered DEF StoresTyped, Wearing, Wears
<1> HIDE DEF r
<1>4. ASSUME S!Answer(c, r, "refused") PROVE SignInInv'
  BY <1>1, <1>2, <1>3, <1>4, RefusalKeeps DEF Refusals
<1>5. ASSUME S!Unused(t), resets[t].status = "fresh", S!Goto(c, held, "set") PROVE SignInInv'
  <2>1. "set" \in S!Steps \ {"done"}
    BY DEF S!Steps
  <2>2. resets[t] # None /\ resets[t].user \in Emails
    BY <1>1, <1>5, Unanswered DEF S!Unused, StoresTyped, Token
  <2>3. /\ held \in Request /\ held.op = "confirm" /\ held.proof = t
        /\ held.email = resets[t].user /\ held.seen = r.seen
    BY <1>2, <2>2 DEF Request
  <2> HIDE DEF held
  <2>4. /\ call'[c].step = "set" /\ call'[c].op = "confirm" /\ call'[c].proof = t
        /\ call'[c].email = resets[t].user /\ call'[c].seen = r.seen /\ Apart(c)
    BY <1>5, <2>1, <2>3, Going DEF SignInInv
  <2>5. NotVoided(c)'
    <3> SUFFICES ASSUME NEW d \in r.seen, call'[d].op = "request",
                        call'[d].email = resets[t].user, call'[d].reply = "ok",
                        t \in call'[d].seen
                 PROVE  FALSE
      BY <2>4 DEF NotVoided
    <3>1. call'[d] = call[d] /\ Over(d) /\ Voided(d)
      BY <1>1, <1>2, <2>4 DEF Apart, SignInInv, CallOK
    <3>2. Void(t, resets[t].user)
      BY <3>1 DEF Voided
    <3> QED
      BY <1>5, <2>2, <3>2 DEF Void
  <2>6. Gathered(c)' /\ Voided(c)' /\ Taken(c)' /\ ~HoldsState(c)'
    BY <2>2, <2>4 DEF Gathered, Voided, Taken, HoldsState, SsoSteps, S!Session, S!At, Over
  <2> QED
    BY <1>1, <1>2, <1>3, <1>5, <2>1, <2>3, <2>5, <2>6, GoingKeeps
<1> HIDE DEF held
<1> QED
  BY <1>1, <1>4, <1>5

LEMMA UpdatePasswordKeeps ==
  ASSUME SignInInv, NEW c \in Calls, S!UpdatePassword(c)
  PROVE  SignInInv'
<1>1. call[c].step = "set" /\ ~Over(c)
  BY DEF S!UpdatePassword, S!At, Over
<1>2. /\ call[c].op = "confirm" /\ call[c].email \in Emails /\ call[c].proof \in Calls
      /\ NotVoided(c)
  BY <1>1, Unanswered DEF CallOK, Gathered
<1>3. ASSUME users' = [users EXCEPT ![call[c].email] = c],
             S!Goto(c, call[c], "consume"), UNCHANGED <<links, resets, states>>
      PROVE  SignInInv'
  <2>1. "consume" \in S!Steps \ {"done"}
    BY DEF S!Steps
  <2>2. /\ call'[c].step = "consume" /\ call'[c].op = "confirm" /\ call'[c].email = call[c].email
        /\ call'[c].seen = call[c].seen /\ call'[c].proof = call[c].proof /\ Apart(c)
    BY <1>1, <1>2, <1>3, <2>1, Unanswered, Going
  <2>3. StoresTyped' /\ Wearing(c) /\ resets'[c] = None /\ states'[c] = None
    BY <1>1, <1>2, <1>3, Unanswered, SignInAssumption DEF StoresTyped, Wearing, Wears
  <2>4. NotVoided(c)'
    BY <1>1, <1>2, <2>2, Unanswered DEF NotVoided, Apart
  <2>5. Gathered(c)' /\ Voided(c)' /\ Taken(c)' /\ ~HoldsState(c)'
    BY <1>2, <2>2 DEF Gathered, Voided, Taken, HoldsState, SsoSteps, S!Session, S!At, Over
  <2> QED
    BY <1>1, <1>3, <2>1, <2>3, <2>4, <2>5, Unanswered, GoingKeeps
<1> QED
  BY <1>1, <1>3, FaultKeeps DEF S!UpdatePassword

LEMMA ConsumeKeeps ==
  ASSUME SignInInv, NEW c \in Calls, S!Consume(c)
  PROVE  SignInInv'
<1> DEFINE t == call[c].proof
<1>1. call[c].step = "consume" /\ ~Over(c)
  BY DEF S!Consume, S!At, Over
<1>2. /\ call[c].op = "confirm" /\ call[c].email \in Emails /\ t \in Calls /\ NotVoided(c)
  BY <1>1, Unanswered DEF CallOK, Gathered
<1>3. ASSUME S!Answer(c, call[c], "error"), UNCHANGED <<users, links, resets, states>>
      PROVE  SignInInv'
  BY <1>1, <1>3, Unanswered, RefusalKeeps DEF Refusals, StoresTyped
<1>4. ASSUME S!Unused(t), resets' = [resets EXCEPT ![t].status = "used"],
             S!Answer(c, call[c], call[c].email), UNCHANGED <<users, links, states>>
      PROVE  SignInInv'
  <2>1. /\ call' \in [Calls -> Request] /\ Apart(c) /\ call'[c].step = "done"
        /\ call'[c].op = "confirm" /\ call'[c].email = call[c].email
        /\ call'[c].seen = call[c].seen /\ call'[c].proof = t
    BY <1>1, <1>2, <1>4, Unanswered, Answering
  <2>2. resets[t] \in Token /\ resets[t] # None /\ resets[t].status # "used"
    BY <1>1, <1>2, <1>4, Unanswered DEF S!Unused, StoresTyped
  <2>3. Over(t) /\ t # c
    BY <1>1, <1>2, <2>2 DEF SignInInv, CallOK, MadeBy
  <2>4. /\ resets'[t] = [resets[t] EXCEPT !.status = "used"]
        /\ resets' \in [Calls -> Token \cup {None}]
        /\ \A d \in Calls \ {t} : resets'[d] = resets[d]
    BY <1>1, <1>2, <1>4, <2>2, Unanswered DEF StoresTyped, Token
  <2>5. resets'[t] # None /\ resets'[t].status = "used" /\ resets'[t].user = resets[t].user
    BY <2>2, <2>4, SignInAssumption DEF Token
  <2>6. SignInTypes' /\ Wearing(c) /\ resets'[c] = None /\ states'[c] = None
    <3>1. \A d \in Calls \ {c} : Wears(d)
      BY <2>2, <2>4, <2>5 DEF Wears
    <3> QED
      BY <1>1, <1>4, <2>1, <2>3, <2>4, <3>1, Unanswered DEF SignInTypes, StoresTyped, Wearing
  <2>7. SeenAreOver(c)'
    BY <1>1, <2>1, Sees, Unanswered
  <2>8. NotVoided(c)'
    BY <1>1, <1>2, <2>1, Unanswered DEF NotVoided, Apart
  <2>9. Consumed(c)'
    BY <1>2, <2>1, <2>3, <2>5 DEF Consumed, Over, Apart
  <2>10. /\ Gathered(c)' /\ MadeBy(c)' /\ Voided(c)' /\ Taken(c)' /\ Linked(c)' /\ ~HoldsState(c)'
    BY <2>1, <2>6
       DEF Gathered, MadeBy, Voided, Taken, Linked, HoldsState, SsoSteps, S!Session, S!At
  <2>11. S!Unused(call'[c].proof)
    BY <1>4, <2>1
  <2> QED
    BY <1>1, <2>1, <2>6, <2>7, <2>8, <2>9, <2>10, <2>11, OneMoves DEF CallOK
<1> QED
  BY <1>1, <1>3, <1>4, FaultKeeps DEF S!Consume


LEMMA BeginSSOKeeps ==
  ASSUME SignInInv, NEW c \in Calls, NEW p \in S!Providers, S!BeginSSO(c, p)
  PROVE  SignInInv'
<1> DEFINE r == S!Arrive(c, "begin", None, None, p)
<1>1. /\ ~Over(c) /\ UNCHANGED <<users, links, resets>>
      /\ \/ states' = [states EXCEPT ![c] = p] /\ S!Answer(c, r, "ok")
         \/ states' = states /\ S!Answer(c, r, "failed")
  BY DEF S!BeginSSO, S!At, Over
<1>2. r \in Request /\ r.op = "begin" /\ \A t \in r.seen : t \in Calls /\ Over(t)
  <2>1. r \in Request /\ r.op = "begin" /\ \A t \in Calls : t \in r.seen => Over(t)
    BY Arriving DEF SignInInv
  <2> QED
    BY <2>1 DEF Request
<1>3. resets'[c] = None /\ StoresTyped' /\ Wearing(c)
  BY <1>1, Unanswered DEF StoresTyped, Wearing, Wears
<1> HIDE DEF r
<1> QED
  BY <1>1, <1>2, <1>3, OtherAnswerKeeps DEF Refusals

LEMMA CompleteSSOKeeps ==
  ASSUME SignInInv, NEW c \in Calls, NEW s \in Calls, NEW p \in S!Providers, S!CompleteSSO(c, s, p)
  PROVE  SignInInv'
<1> DEFINE r == S!Arrive(c, "complete", None, s, p)
<1>1. /\ ~Over(c) /\ call[c].step = "idle" /\ UNCHANGED <<users, links, resets>>
      /\ states' = [states EXCEPT ![s] = None]
      /\ \/ states[s] # p /\ S!Answer(c, r, "refused")
         \/ states[s] = p /\ S!Goto(c, r, "exchange")
  BY DEF S!CompleteSSO, S!At, Over
<1>2. /\ r \in Request /\ r.op = "complete" /\ r.proof = s /\ r.idp = p
      /\ \A t \in r.seen : t \in Calls /\ Over(t)
  <2>1. /\ r \in Request /\ r.op = "complete" /\ r.proof = s /\ r.idp = p
        /\ \A t \in Calls : t \in r.seen => Over(t)
    BY Arriving DEF SignInInv
  <2> QED
    BY <2>1 DEF Request
<1>3. /\ resets'[c] = None /\ states'[c] = None /\ StoresTyped' /\ Wearing(c)
      /\ states'[s] = None /\ \A t \in Calls : states'[t] \in {states[t], None}
  BY <1>1, Unanswered DEF StoresTyped, Wearing, Wears
<1> HIDE DEF r
<1>4. ASSUME S!Answer(c, r, "refused") PROVE SignInInv'
  BY <1>1, <1>2, <1>3, <1>4, RefusalKeeps DEF Refusals
<1>5. ASSUME states[s] = p, S!Goto(c, r, "exchange") PROVE SignInInv'
  <2>1. "exchange" \in S!Steps
    BY DEF S!Steps
  <2>2. /\ call' \in [Calls -> Request] /\ Apart(c) /\ call'[c].step = "exchange"
        /\ call'[c].op = "complete" /\ call'[c].proof = s /\ call'[c].idp = p
        /\ call'[c].seen = r.seen
    BY <1>2, <1>5, <2>1, Going DEF SignInInv
  <2>3. states[s] # None /\ Over(s) /\ s # c
    BY <1>1, <1>5, SignInAssumption DEF SignInInv, CallOK, MadeBy, S!Providers
  <2>4. SignInTypes'
    BY <1>3, <2>2 DEF SignInTypes, StoresTyped
  <2>5. CallOK(c)'
    <3>1. SeenAreOver(c)'
      BY <1>1, <1>2, <2>2, Sees
    <3>2. Taken(c)'
      BY <1>3, <2>2, <2>3 DEF Taken, Over, Apart
    <3>3. /\ Gathered(c)' /\ MadeBy(c)' /\ Voided(c)' /\ NotVoided(c)' /\ Consumed(c)'
          /\ Linked(c)'
      BY <1>3, <2>2
         DEF Gathered, MadeBy, Voided, NotVoided, Consumed, Linked, SsoSteps, S!Session, S!At, Over
    <3> QED
      BY <3>1, <3>2, <3>3 DEF CallOK
  <2>6. ASSUME NEW d \in Calls \ {c} PROVE CallOK(d)'
    BY <1>1, <1>3, <2>2, <2>4, <2>6, OthersOK
  <2>7. TakenOnce'
    <3>1. ASSUME NEW d \in Calls \ {c}, HoldsState(d)' PROVE call'[d].proof # s
      <4>1. HoldsState(d) /\ Taken(d) /\ call'[d] = call[d]
        BY <2>2, <3>1 DEF HoldsState, Apart, S!Session, S!At, SignInInv, CallOK
      <4> QED
        BY <2>3, <4>1 DEF Taken
    <3>2. ASSUME NEW d \in Calls \ {c}, NEW e \in Calls \ {c}, HoldsState(d)', HoldsState(e)',
                 call'[d].proof = call'[e].proof
          PROVE  d = e
      <4>1. HoldsState(d) /\ HoldsState(e) /\ call'[d] = call[d] /\ call'[e] = call[e]
        BY <2>2, <3>2 DEF HoldsState, Apart, S!Session, S!At
      <4> QED
        BY <3>2, <4>1 DEF SignInInv, TakenOnce
    <3> QED
      BY <2>2, <3>1, <3>2 DEF TakenOnce
  <2>8. UsedOnce'
    BY <2>2, UsedOnceKept DEF UsesToken, S!Session, S!At
  <2> QED
    BY <2>4, <2>5, <2>6, <2>7, <2>8 DEF SignInInv
<1> QED
  BY <1>1, <1>4, <1>5

\* A federated login goes from one of its statements to the next.
LEMMA SsoGoingKeeps ==
  ASSUME SignInInv, NEW c \in Calls, call[c].step \in SsoSteps, NEW r \in Request,
         NEW s \in SsoSteps \ {"exchange"}, S!Goto(c, r, s), r.op = "complete",
         r.proof = call[c].proof, r.idp = call[c].idp, r.seen = call[c].seen,
         r.sub \in Subjects, r.claims \in S!Tokens,
         s \in {"match", "provision", "link"} => r.email \in Emails,
         StoresTyped', Wearing(c), UNCHANGED <<links, resets, states>>
  PROVE  SignInInv'
<1>1. s \in S!Steps \ {"done"} /\ ~Over(c) /\ HoldsState(c)
  BY DEF SsoSteps, S!Steps, Over, HoldsState
<1>2. /\ Apart(c) /\ call'[c].step = s /\ call'[c].op = "complete" /\ call'[c].idp = call[c].idp
      /\ call'[c].proof = call[c].proof /\ call'[c].email = r.email /\ call'[c].sub = r.sub
      /\ call'[c].claims = r.claims
  BY <1>1, Going DEF SignInInv
<1>3. Taken(c)'
  <2>1. /\ call[c].proof \in Calls /\ states[call[c].proof] = None /\ Over(call[c].proof)
    BY <1>1, Unanswered DEF CallOK, Taken
  <2> QED
    BY <1>1, <1>2, <2>1 DEF Taken, Apart, Over
<1>4. Gathered(c)'
  <2>1. call[c].idp \in S!Providers
    BY <1>1, Unanswered DEF CallOK, Gathered
  <2> QED
    BY <1>2, <2>1 DEF Gathered, SsoSteps
<1>5. Voided(c)' /\ NotVoided(c)'
  BY <1>2 DEF Voided, NotVoided, SsoSteps, S!Session, S!At, Over
<1> QED
  BY <1>1, <1>2, <1>3, <1>4, <1>5, Unanswered, GoingKeeps

\* A federated login ends with a session of the user its subject is linked to.
LEMMA SsoAnswerKeeps ==
  ASSUME SignInInv, NEW c \in Calls, call[c].step \in SsoSteps \ {"exchange"}, NEW r \in Request,
         NEW e \in Emails, S!Answer(c, r, e), r.op = "complete",
         r.proof = call[c].proof, r.idp = call[c].idp, r.seen = call[c].seen,
         r.sub = call[c].sub, links'[S!Identity(c)] = e,
         StoresTyped', Wearing(c), UNCHANGED <<users, resets, states>>
  PROVE  SignInInv'
<1>1. ~Over(c) /\ HoldsState(c)
  BY DEF SsoSteps, Over, HoldsState
<1>2. /\ call' \in [Calls -> Request] /\ Apart(c) /\ call'[c].step = "done"
      /\ call'[c].reply = e /\ call'[c].op = "complete" /\ call'[c].seen = call[c].seen
      /\ call'[c].proof = call[c].proof /\ call'[c].idp = call[c].idp /\ call'[c].sub = call[c].sub
  BY Answering DEF SignInInv
<1>3. SignInTypes'
  BY <1>2 DEF SignInTypes, StoresTyped
<1>4. call[c].idp \in S!Providers /\ call[c].sub \in Subjects
  BY <1>1, Unanswered DEF CallOK, Gathered
<1>5. SeenAreOver(c)'
  BY <1>1, <1>2, Sees, Unanswered
<1>6. Taken(c)'
  <2>1. /\ call[c].proof \in Calls /\ states[call[c].proof] = None /\ Over(call[c].proof)
    BY <1>1, Unanswered DEF CallOK, Taken
  <2> QED
    BY <1>1, <1>2, <2>1 DEF Taken, Apart, Over
<1>7. Linked(c)'
  BY <1>2, <1>4 DEF Linked, S!Identity
<1>8. /\ Gathered(c)' /\ MadeBy(c)' /\ Voided(c)' /\ NotVoided(c)' /\ Consumed(c)'
      /\ ~UsesToken(c)'
  <2>1. resets'[c] = None /\ states'[c] = None
    BY <1>1, Unanswered
  <2> QED
    BY <1>2, <2>1 DEF Gathered, MadeBy, Voided, NotVoided, Consumed, UsesToken, SsoSteps
<1> QED
  BY <1>1, <1>2, <1>3, <1>5, <1>6, <1>7, <1>8, OneMoves DEF CallOK

LEMMA ExchangeKeeps ==
  ASSUME SignInInv, NEW c \in Calls, S!Exchange(c)
  PROVE  SignInInv'
<1>1. call[c].step = "exchange" /\ call[c].step \in SsoSteps /\ ~Over(c)
  BY DEF S!Exchange, S!At, Over, SsoSteps
<1>2. call[c].op = "complete"
  BY <1>1, Unanswered DEF CallOK, Gathered
<1>3. ASSUME NEW claims \in S!ClaimsOf(call[c].idp), UNCHANGED <<users, links, resets, states>>,
             \/ S!Answer(c, call[c], "refused")
             \/ /\ claims.sub # None
                /\ S!Goto(c, [call[c] EXCEPT !.sub = claims.sub, !.claims = claims], "resolve")
      PROVE  SignInInv'
  <2>1. claims \in S!Tokens
    <3>1. ASSUME NEW p, NEW s \in Subjects, NEW e \in Emails \cup {None}
          PROVE  [sub |-> s, email |-> e, verified |-> e # None] \in S!Tokens
      <4>1. (e # None) \in BOOLEAN
        OBVIOUS
      <4> QED
        BY <4>1 DEF S!Tokens
    <3>3. S!SamlClaims(call[c].idp) \subseteq S!Tokens
      BY <3>1 DEF S!SamlClaims
    <3>2. ASSUME NEW p, NEW token \in S!Tokens, NEW info \in S!Tokens
          PROVE  S!OidcClaims(p, token, info) \in S!Tokens
      BY DEF S!OidcClaims, S!Tokens
    <3> QED
      BY <3>2, <3>3 DEF S!ClaimsOf
  <2>2. StoresTyped' /\ Wearing(c)
    BY <1>1, <1>3, Unanswered DEF StoresTyped, Wearing, Wears
  <2>3. ASSUME S!Answer(c, call[c], "refused") PROVE SignInInv'
    BY <1>1, <1>3, <2>2, <2>3, Unanswered, RefusalKeeps DEF Refusals
  <2>4. ASSUME claims.sub # None,
               S!Goto(c, [call[c] EXCEPT !.sub = claims.sub, !.claims = claims], "resolve")
        PROVE  SignInInv'
    <3> DEFINE r == [call[c] EXCEPT !.sub = claims.sub, !.claims = claims]
    <3>1. claims.sub \in Subjects
      BY <2>1, <2>4 DEF S!Tokens
    <3>2. /\ r \in Request /\ r.op = call[c].op /\ r.proof = call[c].proof
          /\ r.idp = call[c].idp /\ r.seen = call[c].seen
          /\ r.sub = claims.sub /\ r.claims = claims
      BY <1>1, <2>1, <3>1, Unanswered DEF Request
    <3>3. "resolve" \in SsoSteps \ {"exchange"} /\ "resolve" \notin {"match", "provision", "link"}
      BY DEF SsoSteps
    <3>4. S!Goto(c, r, "resolve")
      BY <2>4
    <3> HIDE DEF r
    <3> QED
      BY <1>1, <1>2, <1>3, <2>1, <2>2, <3>1, <3>2, <3>3, <3>4, SsoGoingKeeps
  <2> QED
    BY <1>3, <2>3, <2>4
<1> QED
  BY <1>1, <1>3, FaultKeeps DEF S!Exchange

LEMMA ResolveKeeps ==
  ASSUME SignInInv, NEW c \in Calls, S!Resolve(c)
  PROVE  SignInInv'
<1> DEFINE r == [call[c] EXCEPT !.email = links[S!Identity(c)]]
           m == [r EXCEPT !.email = r.claims.email]
<1>1. /\ call[c].step = "resolve" /\ UNCHANGED <<users, links, resets, states>>
      /\ \/ r.email # None /\ S!Answer(c, r, r.email)
         \/ S!Answer(c, r, "refused")
         \/ r.claims.email # None /\ S!Goto(c, m, "match")
  BY DEF S!Resolve, S!At
<1>2. ~Over(c) /\ call[c].step \in SsoSteps \ {"exchange"} /\ call[c] \in Request
  BY <1>1, Unanswered DEF Over, SsoSteps
<1>3. /\ call[c].op = "complete" /\ call[c].idp \in S!Providers /\ call[c].sub \in Subjects
      /\ call[c].claims \in S!Tokens
  BY <1>1, <1>2, Unanswered DEF CallOK, Gathered
<1>4. StoresTyped' /\ Wearing(c)
  BY <1>1, <1>2, Unanswered DEF StoresTyped, Wearing, Wears
<1>5. links[S!Identity(c)] \in Emails \cup {None}
  BY <1>2, <1>3, Unanswered DEF StoresTyped, S!Identity
<1>6. /\ r \in Request /\ r.op = "complete" /\ r.proof = call[c].proof /\ r.idp = call[c].idp
      /\ r.seen = call[c].seen /\ r.sub = call[c].sub /\ r.claims = call[c].claims
      /\ r.email = links[S!Identity(c)]
  BY <1>2, <1>3, <1>5 DEF Request
<1>7. call[c].claims.email \in Emails \cup {None}
  BY <1>3 DEF S!Tokens
<1> HIDE DEF r
<1>8. /\ m \in Request /\ m.op = "complete" /\ m.proof = call[c].proof /\ m.idp = call[c].idp
      /\ m.seen = call[c].seen /\ m.sub = call[c].sub /\ m.claims = call[c].claims
      /\ m.email = call[c].claims.email
  BY <1>6, <1>7 DEF Request
<1> HIDE DEF m
<1>9. ASSUME r.email # None, S!Answer(c, r, r.email) PROVE SignInInv'
  BY <1>1, <1>2, <1>4, <1>5, <1>6, <1>9, SsoAnswerKeeps
<1>10. ASSUME S!Answer(c, r, "refused") PROVE SignInInv'
  BY <1>1, <1>2, <1>4, <1>6, <1>10, Unanswered, RefusalKeeps DEF Refusals
<1>11. ASSUME r.claims.email # None, S!Goto(c, m, "match") PROVE SignInInv'
  <2>1. "match" \in SsoSteps \ {"exchange"} /\ m.email \in Emails
    BY <1>6, <1>7, <1>8, <1>11 DEF SsoSteps
  <2> QED
    BY <1>1, <1>2, <1>3, <1>4, <1>8, <1>11, <2>1, SsoGoingKeeps
<1> QED
  BY <1>1, <1>9, <1>10, <1>11

LEMMA MatchEmailKeeps ==
  ASSUME SignInInv, NEW c \in Calls, S!MatchEmail(c)
  PROVE  SignInInv'
<1>1. PICK s \in {"link", "provision"} :
        /\ call[c].step = "match" /\ S!Goto(c, call[c], s)
        /\ UNCHANGED <<users, links, resets, states>>
  BY DEF S!MatchEmail, S!At
<1>2. /\ ~Over(c) /\ call[c].step \in SsoSteps /\ s \in SsoSteps \ {"exchange"}
  BY <1>1 DEF Over, SsoSteps
<1>3. /\ call[c].op = "complete" /\ call[c].sub \in Subjects /\ call[c].claims \in S!Tokens
      /\ call[c].email \in Emails
  BY <1>1, <1>2, Unanswered DEF CallOK, Gathered
<1>4. StoresTyped' /\ Wearing(c)
  BY <1>1, <1>2, Unanswered DEF StoresTyped, Wearing, Wears
<1> QED
  BY <1>1, <1>2, <1>3, <1>4, Unanswered, SsoGoingKeeps

LEMMA ProvisionKeeps ==
  ASSUME SignInInv, NEW c \in Calls, S!Provision(c)
  PROVE  SignInInv'
<1>1. call[c].step = "provision" /\ ~Over(c) /\ call[c].step \in SsoSteps
  BY DEF S!Provision, S!At, Over, SsoSteps
<1>2. /\ call[c].op = "complete" /\ call[c].sub \in Subjects /\ call[c].claims \in S!Tokens
      /\ call[c].email \in Emails
  BY <1>1, Unanswered DEF CallOK, Gathered
<1>3. ASSUME S!InsertUser(c, ""), S!Goto(c, call[c], "link"), UNCHANGED <<links, resets, states>>
      PROVE  SignInInv'
  <2>1. users[call[c].email] = None /\ users' = [users EXCEPT ![call[c].email] = ""]
    BY <1>3 DEF S!InsertUser
  <2>2. StoresTyped' /\ Wearing(c)
    BY <1>1, <1>2, <1>3, <2>1, Unanswered DEF StoresTyped, Wearing, Wears
  <2>3. "link" \in SsoSteps \ {"exchange"}
    BY DEF SsoSteps
  <2> QED
    BY <1>1, <1>2, <1>3, <2>2, <2>3, Unanswered, SsoGoingKeeps
<1> QED
  BY <1>1, <1>3, FaultKeeps, EmailTakenKeeps DEF S!Provision

LEMMA CreateLinkKeeps ==
  ASSUME SignInInv, NEW c \in Calls, S!CreateLink(c)
  PROVE  SignInInv'
<1>1. call[c].step = "link" /\ ~Over(c) /\ call[c].step \in SsoSteps \ {"exchange"}
  BY DEF S!CreateLink, S!At, Over, SsoSteps
<1>2. /\ call[c].op = "complete" /\ call[c].sub \in Subjects /\ call[c].idp \in S!Providers
      /\ call[c].email \in Emails
  BY <1>1, Unanswered DEF CallOK, Gathered
<1>3. ASSUME links[S!Identity(c)] = None, links' = [links EXCEPT ![S!Identity(c)] = call[c].email],
             S!Answer(c, call[c], call[c].email), UNCHANGED <<users, resets, states>>
      PROVE  SignInInv'
  <2>1. S!Identity(c) \in S!Providers \X Subjects
    BY <1>2 DEF S!Identity
  <2> DEFINE i == S!Identity(c)
  <2> HIDE DEF i
  <2>2. links' = [links EXCEPT ![i] = call[c].email] /\ i \in S!Providers \X Subjects /\ links[i] = None
    BY <1>3, <2>1 DEF i
  <2>3. links'[i] = call[c].email
    BY <1>1, <2>2, Unanswered DEF StoresTyped
  <2>4. StoresTyped' /\ Wearing(c)
    BY <1>1, <1>2, <1>3, <2>2, Unanswered DEF StoresTyped, Wearing, Wears
  <2>5. links'[S!Identity(c)] = call[c].email
    BY <2>3 DEF i
  <2> QED
    BY <1>1, <1>2, <1>3, <2>4, <2>5, Unanswered, SsoAnswerKeeps
<1>4. ASSUME S!Answer(c, call[c], "error"), UNCHANGED <<users, links, resets, states>>
      PROVE  SignInInv'
  BY <1>1, <1>4, Unanswered, RefusalKeeps DEF Refusals, StoresTyped
<1> QED
  BY <1>1, <1>3, <1>4, FaultKeeps DEF S!CreateLink

-----------------------------------------------------------------------------
(* SignIn: time passes *)

\* No request moves, and tokens and states only go.
LEMMA TimeKeeps ==
  ASSUME SignInInv, UNCHANGED <<users, links, call>>, StoresTyped',
         \A t \in Calls : Wears(t) /\ states'[t] \in {states[t], None}
  PROVE  SignInInv'
<1>1. SignInTypes' /\ TakenOnce' /\ UsedOnce'
  BY DEF SignInInv, SignInTypes, StoresTyped, TakenOnce, UsedOnce, HoldsState, UsesToken,
         S!Session, S!At
<1>2. ASSUME NEW c \in Calls PROVE CallOK(c)'
  <2>1. CallOK(c) /\ call[c].seen \subseteq Calls
    BY DEF SignInInv, SignInTypes, Request
  <2>2. Gathered(c)' /\ SeenAreOver(c)' /\ NotVoided(c)' /\ Linked(c)'
    BY <2>1
       DEF CallOK, Gathered, SeenAreOver, NotVoided, Linked, S!Session, S!At, S!Identity, Over
  <2>3. MadeBy(c)'
    BY <2>1 DEF CallOK, MadeBy, Wears, Over
  <2>4. Voided(c)'
    BY <2>1 DEF CallOK, Voided, Void, Wears, Over
  <2>5. Consumed(c)' /\ Taken(c)'
    BY <2>1 DEF CallOK, Consumed, Taken, HoldsState, Wears, S!Session, S!At, Over
  <2> QED
    BY <2>2, <2>3, <2>4, <2>5 DEF CallOK
<1> QED
  BY <1>1, <1>2 DEF SignInInv

LEMMA ExpireKeeps ==
  ASSUME SignInInv, NEW t \in Calls, S!ExpireToken(t) \/ S!ExpireState(t)
  PROVE  SignInInv'
<1>1. StoresTyped
  BY DEF SignInInv, SignInTypes, StoresTyped
<1>2. ASSUME S!ExpireToken(t) PROVE SignInInv'
  <2>1. /\ resets[t] \in Token /\ resets[t].status = "fresh"
        /\ resets' = [resets EXCEPT ![t].status = "expired"]
        /\ UNCHANGED <<users, links, states, call>>
    BY <1>1, <1>2 DEF S!ExpireToken, StoresTyped
  <2>2. /\ resets'[t] = [resets[t] EXCEPT !.status = "expired"]
        /\ \A d \in Calls \ {t} : resets'[d] = resets[d]
        /\ resets' \in [Calls -> Token \cup {None}]
    BY <1>1, <2>1 DEF StoresTyped, Token
  <2>3. resets[t] # None /\ resets'[t].user = resets[t].user
    BY <1>2, <2>1, <2>2 DEF S!ExpireToken, Token
  <2>4. \A d \in Calls : Wears(d)
    BY <2>1, <2>2, <2>3 DEF Wears
  <2> QED
    BY <1>1, <2>1, <2>2, <2>4, TimeKeeps DEF StoresTyped
<1>3. ASSUME S!ExpireState(t) PROVE SignInInv'
  <2>1. /\ states' = [states EXCEPT ![t] = None] /\ UNCHANGED <<users, links, resets, call>>
    BY <1>3 DEF S!ExpireState
  <2> QED
    BY <1>1, <2>1, TimeKeeps DEF StoresTyped, Wears
<1> QED
  BY <1>2, <1>3

-----------------------------------------------------------------------------
(* SignIn: every step keeps it *)

LEMMA SignInInitially == S!Init => SignInInv
<1> SUFFICES ASSUME S!Init PROVE SignInInv
  OBVIOUS
<1>1. S!Idle \in Request /\ S!Idle.step = "idle" /\ S!Idle.seen = {}
  BY DEF S!Idle, Request, S!Steps
<1>2. /\ users \in [Emails -> {None, "first", ""} \cup Calls]
      /\ \A c \in Calls : call[c] = S!Idle /\ resets[c] = None /\ states[c] = None
  BY DEF S!Init
<1>3. SignInTypes
  BY <1>1, <1>2 DEF S!Init, SignInTypes
<1>4. ASSUME NEW c \in Calls PROVE CallOK(c) /\ ~HoldsState(c) /\ ~UsesToken(c)
  BY <1>1, <1>2
     DEF CallOK, Gathered, MadeBy, SeenAreOver, Voided, NotVoided, Consumed, Taken, Linked,
         HoldsState, UsesToken, SsoSteps, S!Session, S!At, Over
<1> QED
  BY <1>3, <1>4 DEF SignInInv, TakenOnce, UsedOnce

LEMMA SignInStepKeeps ==
  ASSUME SignInInv, [S!Next]_(S!vars)
  PROVE  SignInInv'
<1>1. ASSUME UNCHANGED S!vars PROVE SignInInv'
  BY <1>1, TimeKeeps DEF S!vars, SignInInv, SignInTypes, StoresTyped, Wears
<1>2. ASSUME NEW c \in Calls,
             \/ \E e \in Emails : \/ S!Register(c, e)
                                 \/ S!RequestPasswordReset(c, e)
                                 \/ \E p \in Calls \cup {"first"} : S!LoginWithPassword(c, e, p)
             \/ \E t \in Calls : S!ConfirmPasswordReset(c, t)
             \/ \E p \in S!Providers : \/ S!BeginSSO(c, p)
                                      \/ \E s \in Calls : S!CompleteSSO(c, s, p)
      PROVE  SignInInv'
  BY <1>2, RegisterKeeps, RequestResetKeeps, LoginKeeps, ConfirmKeeps, BeginSSOKeeps,
     CompleteSSOKeeps
<1>3. ASSUME NEW c \in Calls,
             \/ S!CreateAccount(c) \/ S!DeleteUnusedForUser(c) \/ S!CreateToken(c)
             \/ S!UpdatePassword(c) \/ S!Consume(c)
             \/ S!Exchange(c) \/ S!Resolve(c) \/ S!MatchEmail(c) \/ S!Provision(c)
             \/ S!CreateLink(c) \/ S!ExpireToken(c) \/ S!ExpireState(c)
      PROVE  SignInInv'
  BY <1>3, CreateAccountKeeps, DeleteUnusedKeeps, CreateTokenKeeps, UpdatePasswordKeeps,
     ConsumeKeeps, ExchangeKeeps, ResolveKeeps, MatchEmailKeeps, ProvisionKeeps,
     CreateLinkKeeps, ExpireKeeps
<1> QED
  BY <1>1, <1>2, <1>3 DEF S!Next

\* What a request has taken, used up or voided stays so while others come and go.
THEOREM SignInInvariant == S!Spec => []SignInInv
<1>1. SignInInv /\ [S!Next]_(S!vars) => SignInInv'
  BY SignInStepKeeps
<1> QED
  BY <1>1, SignInInitially, PTL DEF S!Spec

\* A reset token and an SSO state open one session each (ConfirmPasswordReset, CompleteSSO).
THEOREM OneSession == S!Spec => []OneSessionPerProof
<1>1. SignInInv => OneSessionPerProof
  <2> SUFFICES ASSUME SignInInv, NEW c \in Calls, NEW d \in Calls, S!Session(c), S!Session(d),
                      call[c].op = call[d].op, call[c].op \in {"confirm", "complete"},
                      call[c].proof = call[d].proof
               PROVE  c = d
    BY DEF OneSessionPerProof, S!OneSessionPerProof
  <2>1. CASE call[c].op = "confirm"
    BY <2>1 DEF SignInInv, UsedOnce, UsesToken
  <2>2. CASE call[c].op = "complete"
    BY <2>2 DEF SignInInv, TakenOnce, HoldsState
  <2> QED
    BY <2>1, <2>2
<1> QED
  BY <1>1, SignInInvariant, PTL

\* Every session a subject is given is the one of the user it is linked to.
THEOREM SubjectOneUser == S!Spec => []SubjectIsOneUser
<1>1. SignInInv => SubjectIsOneUser
  BY DEF SignInInv, CallOK, Linked, SubjectIsOneUser, S!SubjectIsOneUser
<1> QED
  BY <1>1, SignInInvariant, PTL

\* A token requested before a later reset request was answered opens nothing afterwards.
THEOREM LaterVoids == S!Spec => []LaterRequestVoids
<1>1. SignInInv => LaterRequestVoids
  BY DEF SignInInv, CallOK, NotVoided, LaterRequestVoids, S!LaterRequestVoids
<1> QED
  BY <1>1, SignInInvariant, PTL
=============================================================================
