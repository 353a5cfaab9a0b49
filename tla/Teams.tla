--------------------------------- MODULE Teams ---------------------------------
(***************************************************************************)
(* Inside one organization: its teams and their members, and its projects  *)
(* with their environments and the API keys made for them.                 *)
(*                                                                         *)
(* As in Tenancy, every handler reads with one statement after another and *)
(* then writes with one more, and no transaction spans them.  What the     *)
(* schema refuses (a key, a unique index, a foreign key) fails the write   *)
(* and with it the handler.                                                *)
(*                                                                         *)
(* Memberships of the organization and roles in it are Tenancy's: here     *)
(* they may change at any time.  The organization's owner counts as an     *)
(* admin, as in IsAdmin.                                                   *)
(***************************************************************************)
EXTENDS Naturals, FiniteSets

CONSTANTS
  People,     \* users
  Handlers,   \* requests served at once
  Slugs,      \* environment slugs
  MaxTeams,   \* bound: teams created
  MaxProjects,\* bound: projects created
  MaxEnvs,    \* bound: environments created
  MaxKeys,    \* bound: API keys created
  MaxOps      \* bound: operations begun

Teams == 1..MaxTeams
Projects == 1..MaxProjects
Envs == 1..MaxEnvs
Keys == 1..MaxKeys

VARIABLES
  orgRole,     \* orgRole[u]: role in the organization, "none" for no membership
  teams,       \* teams created
  member,      \* member[t][u]: role in team_members, "none" if there is no row
  projects,    \* projects created
  envs,        \* envs[e]: project and slug of environment e, <<>> before it is created
  gone,        \* environments deleted
  keys,        \* keys[k]: project and environment (0 for none) of key k, <<>> for no row
  published,   \* the keys as the published snapshot has them
  stale,       \* a publish has failed since the last that succeeded
  job,         \* job[h]: the operation handler h is in, and its locals
  ops,         \* operations begun (bounded by MaxOps)
  overlapped   \* history: teams in which two changes that may each cost an owner have overlapped

teamVars == <<orgRole, teams, member, overlapped>>
keyVars == <<projects, envs, gone, keys, published, stale>>
vars == <<teamVars, keyVars, job, ops>>

-----------------------------------------------------------------------------
TeamRoles == {"member", "admin", "owner"}
ChangeSteps == {"target", "count", "apply", "delete"}
Steps == {"idle", "orgmember", "absent", "insert", "project", "environment",
          "insertkey", "publish"} \cup ChangeSteps

\* want: the role asked for, "none" to remove; seen: the role the target had.
Idle == [step |-> "idle", team |-> 0, who |-> {}, want |-> "none", seen |-> "none",
         project |-> 0, env |-> 0]

Init ==
  /\ \E admin \in People, outside \in SUBSET People :
       orgRole = [u \in People |->
         IF u = admin THEN "admin" ELSE IF u \in outside THEN "none" ELSE "member"]
  /\ teams = {}
  /\ member = [t \in Teams |-> [u \in People |-> "none"]]
  /\ projects = {}
  /\ envs = [e \in Envs |-> <<>>]
  /\ gone = {}
  /\ keys = [k \in Keys |-> <<>>]
  /\ published = keys
  /\ stale = FALSE
  /\ job = [h \in Handlers |-> Idle]
  /\ ops = 0
  /\ overlapped = {}

Count == ops < MaxOps /\ ops' = ops + 1

Begin(h, j) == job[h] = Idle /\ Count /\ job' = [job EXCEPT ![h] = j]

Goto(h, s) == job' = [job EXCEPT ![h].step = s] /\ UNCHANGED ops

Done(h) == job' = [job EXCEPT ![h] = Idle] /\ UNCHANGED ops

At(h, s) == job[h].step = s

\* An early return, a failed statement, a dead process: what was written stays.
Fail(h) ==
  /\ job[h] # Idle
  /\ Done(h)
  /\ stale' = (stale \/ At(h, "publish"))
  /\ UNCHANGED <<teamVars, projects, envs, gone, keys, published>>

-----------------------------------------------------------------------------
(* Teams *)

\* IsOrgAdmin; CanManageTeam; CanChangeTeamRoles
OrgAdmin(u) == orgRole[u] = "admin"
MayManage(t, u) == OrgAdmin(u) \/ member[t][u] \in {"admin", "owner"}
MayChangeRoles(t, u) == OrgAdmin(u) \/ member[t][u] = "owner"

TeamOwners(t) == {u \in People : member[t][u] = "owner"}

\* The team and its owner, in one transaction.
CreateTeam(h, admin) ==
  /\ OrgAdmin(admin)
  /\ job[h] = Idle
  /\ Count
  /\ \E t \in Teams :
       /\ teams = 1..t - 1
       /\ teams' = teams \cup {t}
       /\ member' = [member EXCEPT ![t][admin] = "owner"]
  /\ UNCHANGED <<orgRole, overlapped, keyVars, job>>

BeginAdd(h, t, actor, u) ==
  /\ t \in teams
  /\ MayManage(t, actor)
  /\ Begin(h, [Idle EXCEPT !.step = "orgmember", !.team = t, !.who = {u}, !.want = "member"])
  /\ UNCHANGED <<teamVars, keyVars>>

\* orgs.GetMemberRole
CheckOrgMember(h) ==
  /\ At(h, "orgmember")
  /\ \A u \in job[h].who : orgRole[u] # "none"
  /\ Goto(h, "absent")
  /\ UNCHANGED <<teamVars, keyVars>>

CheckAbsent(h) ==
  /\ At(h, "absent")
  /\ \A u \in job[h].who : member[job[h].team][u] = "none"
  /\ Goto(h, "insert")
  /\ UNCHANGED <<teamVars, keyVars>>

\* A plain INSERT: a row that is there by now refuses it.
InsertMember(h) ==
  /\ At(h, "insert")
  /\ \E u \in job[h].who :
       /\ member[job[h].team][u] = "none"
       /\ member' = [member EXCEPT ![job[h].team][u] = job[h].want]
  /\ Done(h)
  /\ UNCHANGED <<orgRole, teams, overlapped, keyVars>>

\* A removal (want is "none") or a change of role.
BeginChange(h, t, actor, u, want) ==
  /\ t \in teams
  /\ IF want = "none" THEN MayManage(t, actor) ELSE MayChangeRoles(t, actor)
  /\ Begin(h, [Idle EXCEPT !.step = "target", !.team = t, !.who = {u}, !.want = want])
  /\ overlapped' = overlapped \cup
       {s \in {t} : want # "owner" /\ \E g \in Handlers :
                      job[g].team = t /\ job[g].step \in ChangeSteps /\ job[g].want # "owner"}
  /\ UNCHANGED <<orgRole, teams, member, keyVars>>

\* A role that is the one asked for already ends the request; only an owner's removal
\* has the owners counted.
ReadTarget(h) ==
  /\ At(h, "target")
  /\ \E u \in job[h].who : LET seen == member[job[h].team][u] IN
       /\ seen \notin {"none", job[h].want}
       /\ job' = [job EXCEPT ![h].seen = seen,
            ![h].step = IF job[h].want = "none" /\ seen # "owner" THEN "delete" ELSE "count"]
  /\ UNCHANGED <<teamVars, keyVars, ops>>

\* Mutation: a removal is checked as a change of role is not.
SoleOwnerUnchecked(j, owners) == j.seen = "owner" /\ j.want = "none" => owners > 1

\* AssertSoleTeamOwnerSafe, and the check of RemoveTeamMember
OwnerSafe(j, owners) == j.seen = "owner" /\ j.want # "owner" => owners > 1

CountOwners(h) ==
  /\ At(h, "count")
  /\ OwnerSafe(job[h], Cardinality(TeamOwners(job[h].team)))
  /\ Goto(h, IF job[h].want = "none" THEN "delete" ELSE "apply")
  /\ UNCHANGED <<teamVars, keyVars>>

\* DELETE or UPDATE of a row that is not there any more is "not found".
ChangeMember(h) ==
  /\ At(h, "apply") \/ At(h, "delete")
  /\ \E u \in job[h].who :
       /\ member[job[h].team][u] # "none"
       /\ member' = [member EXCEPT ![job[h].team][u] = job[h].want]
  /\ Done(h)
  /\ UNCHANGED <<orgRole, teams, overlapped, keyVars>>

-----------------------------------------------------------------------------
(* Projects, environments, API keys *)

Live == {e \in Envs : envs[e] # <<>>} \ gone

\* Any member of the organization may.
CreateProject(h) ==
  /\ Begin(h, [Idle EXCEPT !.step = "publish"])
  /\ \E p \in Projects :
       /\ projects = 1..p - 1
       /\ projects' = projects \cup {p}
  /\ UNCHANGED <<teamVars, envs, gone, keys, published, stale>>

\* UNIQUE (project_id, slug); nothing is published, as a snapshot lists no environments.
CreateEnvironment(h, p, s) ==
  /\ p \in projects
  /\ \A e \in Live : envs[e] # <<p, s>>
  /\ job[h] = Idle
  /\ Count
  /\ \E e \in Envs :
       /\ \A f \in Envs : envs[f] = <<>> <=> f >= e
       /\ envs' = [envs EXCEPT ![e] = <<p, s>>]
  /\ UNCHANGED <<teamVars, projects, gone, keys, published, stale, job>>

\* Mutation: the published snapshot is left as it is.
DeleteUnpublished(h, e) ==
  /\ e \in Live
  /\ job[h] = Idle
  /\ Count
  /\ gone' = gone \cup {e}
  /\ keys' = [k \in Keys |->
       IF keys[k] # <<>> /\ keys[k][2] = e THEN <<keys[k][1], 0>> ELSE keys[k]]
  /\ UNCHANGED <<teamVars, projects, envs, published, stale, job>>

\* The keys made for it become keys of the whole project (ON DELETE SET NULL).
DeleteEnvironment(h, e) ==
  /\ e \in Live
  /\ Begin(h, [Idle EXCEPT !.step = "publish"])
  /\ gone' = gone \cup {e}
  /\ keys' = [k \in Keys |->
       IF keys[k] # <<>> /\ keys[k][2] = e THEN <<keys[k][1], 0>> ELSE keys[k]]
  /\ UNCHANGED <<teamVars, projects, envs, published, stale>>

\* A personal key has neither project nor environment; a service account's environment
\* needs a project (ValidateKindRules).
KindFits(p, e) == e # 0 => p # 0

BeginKey(h, p, e) ==
  /\ KindFits(p, e)
  /\ Begin(h, [Idle EXCEPT !.step = "project", !.project = p, !.env = e])
  /\ UNCHANGED <<teamVars, keyVars>>

\* ProjectBelongsToOrg
CheckProject(h) ==
  /\ At(h, "project")
  /\ job[h].project \in projects \cup {0}
  /\ Goto(h, IF job[h].env = 0 THEN "insertkey" ELSE "environment")
  /\ UNCHANGED <<teamVars, keyVars>>

\* EnvironmentBelongsToProject
CheckEnvironment(h) ==
  /\ At(h, "environment")
  /\ \E e \in Live : e = job[h].env /\ envs[e][1] = job[h].project
  /\ Goto(h, "insertkey")
  /\ UNCHANGED <<teamVars, keyVars>>

\* The environment may have been deleted since: its foreign key then refuses the row.
InsertKey(h) ==
  /\ At(h, "insertkey")
  /\ job[h].env \in Live \cup {0}
  /\ \E k \in Keys :
       /\ keys[k] = <<>>
       /\ keys' = [keys EXCEPT ![k] = <<job[h].project, job[h].env>>]
  /\ Goto(h, "publish")
  /\ UNCHANGED <<teamVars, projects, envs, gone, published, stale>>

DeleteKey(h, k) ==
  /\ keys[k] # <<>>
  /\ Begin(h, [Idle EXCEPT !.step = "publish"])
  /\ keys' = [keys EXCEPT ![k] = <<>>]
  /\ UNCHANGED <<teamVars, projects, envs, gone, published, stale>>

\* Compiles what the tables hold by now (SnapshotDistribution has the races of two).
Publish(h) ==
  /\ At(h, "publish")
  /\ published' = keys
  /\ stale' = FALSE
  /\ Done(h)
  /\ UNCHANGED <<teamVars, projects, envs, gone, keys>>

-----------------------------------------------------------------------------
\* The organization changes: a user joins it, an admin is made or unmade.
OrgChange(u) ==
  /\ Count
  /\ orgRole' = [orgRole EXCEPT ![u] = IF @ = "member" THEN "admin" ELSE "member"]
  /\ UNCHANGED <<teams, member, overlapped, keyVars, job>>

Request(h) ==
  \/ \E u \in People : CreateTeam(h, u)
  \/ \E t \in teams, actor, u \in People : BeginAdd(h, t, actor, u)
  \/ \E t \in teams, actor, u \in People, want \in TeamRoles \cup {"none"} :
       BeginChange(h, t, actor, u, want)
  \/ CreateProject(h)
  \/ \E p \in Projects, s \in Slugs : CreateEnvironment(h, p, s)
  \/ \E e \in Envs : DeleteEnvironment(h, e)
  \/ \E p \in Projects \cup {0}, e \in Envs \cup {0} : BeginKey(h, p, e)
  \/ \E k \in Keys : DeleteKey(h, k)

Step(h) ==
  \/ CheckOrgMember(h) \/ CheckAbsent(h) \/ InsertMember(h)
  \/ ReadTarget(h) \/ CountOwners(h) \/ ChangeMember(h)
  \/ CheckProject(h) \/ CheckEnvironment(h) \/ InsertKey(h)
  \/ Publish(h)

Next ==
  \/ \E h \in Handlers : job[h] = Idle /\ ops < MaxOps /\ Request(h)
  \/ \E h \in Handlers : Step(h) \/ Fail(h)
  \/ \E u \in People : OrgChange(u)

Spec == Init /\ [][Next]_vars

-----------------------------------------------------------------------------
(* Properties *)

\* A team keeps an owner as long as no two removals or demotions in it have overlapped: the
\* last one is neither demoted nor removed, even if members are added and made owners
\* between a change's reads and its write, whoever manages the team meanwhile gains or
\* loses that right, and whatever requests fail (RemoveTeamMember, UpdateTeamMemberRole).
TeamOwnerUnlessOverlap == \A t \in teams \ overlapped : TeamOwners(t) # {}

\* Once the requests that change keys have published, no key the gateways hold names an
\* environment that was deleted or belongs to another project, although a key is checked
\* in two statements and inserted in a third while environments come and go.
PublishedKeysFit ==
  ~stale /\ (\A h \in Handlers : ~At(h, "publish")) =>
    \A k \in Keys : published[k] # <<>> /\ published[k][2] # 0 =>
      published[k][2] \in Live /\ envs[published[k][2]][1] = published[k][1]
=============================================================================
