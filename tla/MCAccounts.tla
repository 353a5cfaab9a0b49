------------------------------ MODULE MCAccounts ------------------------------
(* Who may use the control plane: the members of an organization and its invites  *)
(* (Tenancy), its teams, projects and keys (Teams), or the users and their        *)
(* sessions (SignIn). The handlers of the three share no row they both write: a   *)
(* behaviour is one of them.                                                      *)
EXTENDS Tenancy, TLC

CONSTANTS
  u1, u2, u3, u4, h1, h2,
  Parts,
  Slugs, MaxTeams, MaxProjects, MaxEnvs, MaxKeys, MaxTeamOps,
  Calls, Emails, Subjects, Oidc, Saml, RequireVerified, SignupEnabled, MaxFaults, None

VARIABLES part,
  orgRole, teams, member, projects, envs, gone, keys, published, stale,
  teamJob, teamOps, teamOverlapped,
  users, links, resets, states, call, faults

T == INSTANCE Teams WITH job <- teamJob, ops <- teamOps, overlapped <- teamOverlapped,
                         MaxOps <- MaxTeamOps
S == INSTANCE SignIn

inTeams == <<orgRole, teams, member, projects, envs, gone, keys, published, stale,
             teamJob, teamOps, teamOverlapped>>
inSignIn == <<users, links, resets, states, call, faults>>

MCInit ==
  /\ part \in Parts
  /\ IF part = "members" THEN Init
     ELSE /\ registered = {} /\ role = <<>> /\ email = <<>> /\ status = <<>> /\ expired = {}
          /\ job = [h \in Handlers |-> Idle] /\ ops = 0
          /\ overlapped = TRUE /\ revoked = {} /\ raced = {}
  /\ IF part = "teams" THEN T!Init
     ELSE /\ orgRole = <<>> /\ teams = {} /\ member = <<>> /\ projects = {} /\ envs = <<>>
          /\ gone = {} /\ keys = <<>> /\ published = <<>> /\ stale = TRUE
          /\ teamJob = <<>> /\ teamOps = 0 /\ teamOverlapped = {}
  /\ IF part = "signin" THEN S!Init
     ELSE /\ users = <<>> /\ links = <<>> /\ resets = <<>> /\ states = <<>>
          /\ call = [c \in Calls |-> S!Idle] /\ faults = 0

MCNext ==
  \/ part = "members" /\ Next /\ UNCHANGED <<part, inTeams, inSignIn>>
  \/ part = "teams" /\ T!Next /\ UNCHANGED <<part, vars, inSignIn>>
  \/ part = "signin" /\ S!Next /\ UNCHANGED <<part, vars, inTeams>>

MCSpec == MCInit /\ [][MCNext]_<<part, vars, inTeams, inSignIn>>

\* None is nothing else, and what a request is answered with says what it is.
ASSUME SignInAssumption ==
  /\ None \notin Calls \cup Emails \cup Subjects \cup Oidc \cup Saml
  /\ None \notin [user : Emails, status : {"fresh", "expired", "used"}]
  /\ Emails \cap {"refused", "failed", "error", "ok"} = {}

\* Teams: a team keeps an owner unless two removals or demotions in it overlapped.
TeamOwnerUnlessOverlap == T!TeamOwnerUnlessOverlap
\* Teams: the environments of the keys a gateway holds are there, and their projects'.
PublishedKeysFit == T!PublishedKeysFit
\* SignIn: what proves who is calling opens one session.
OneSessionPerProof == S!OneSessionPerProof
\* SignIn: a subject of an identity provider is one user for ever.
SubjectIsOneUser == S!SubjectIsOneUser
\* SignIn: a reset token requested before another reset request no longer opens anything.
LaterRequestVoids == S!LaterRequestVoids
\* People and handlers are interchangeable, and so are calls and addresses: the parts
\* share their model values (the calls are named like the people, the addresses
\* like the handlers), so that one small group of permutations serves them all.
MCSymmetry == Permutations(People) \cup Permutations(Handlers)
=============================================================================
