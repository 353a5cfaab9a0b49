SPECIFICATION MCSpec
CONSTANTS
  u1 = u1
  u2 = u2
  u3 = u3
  h1 = h1
  h2 = h2
  u4 = u4
  Parts = {"members", "teams", "signin"}
  People = {u1, u2, u3, u4}
  Handlers = {h1, h2}
  MaxInvites = 2
  MaxOps = 5
  Slugs = {"dev"}
  MaxTeams = 1
  MaxProjects = 2
  MaxEnvs = 2
  MaxKeys = 1
  MaxTeamOps = 4
  Calls = {u1, u2, u3, u4}
  Emails = {h1, h2}
  Subjects = {"s1"}
  Oidc = {"oidc"}
  Saml = {"saml"}
  RequireVerified = {"oidc"}
  SignupEnabled = TRUE
  MaxFaults = 1
  None = None
SYMMETRY MCSymmetry
INVARIANTS
  OwnerUnlessOverlap
  RevokeHolds
  TeamOwnerUnlessOverlap
  PublishedKeysFit
  OneSessionPerProof
  SubjectIsOneUser
  LaterRequestVoids
CHECK_DEADLOCK FALSE
