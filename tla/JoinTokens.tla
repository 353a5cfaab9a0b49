------------------------------ MODULE JoinTokens ------------------------------
(***************************************************************************)
(* The join tokens of the hub: regional control planes (federation peers)  *)
(* and gateway deployments are known by the hash of a token, shown once    *)
(* when it is minted.  The hub also seals the token of a peer, to call the *)
(* peer back.                                                              *)
(*                                                                         *)
(* Administrators register, patch and rotate; a region's puller presents   *)
(* the token it is configured with and the hub answers with its export; a  *)
(* gateway sends heartbeats.  Every statement of a handler is a step, so a *)
(* row read by one handler may have changed when it writes.                *)
(***************************************************************************)
EXTENDS Naturals, FiniteSets

CONSTANTS
  Admins,        \* handlers of the administrators' requests
  Peers,         \* ids of peers
  Deployments,   \* ids of gateway deployments
  Regions,       \* regions, by their slug
  Closed,        \* the regions that are disabled
  None,          \* no row
  MaxTokens,     \* bound on the tokens minted
  MaxCommands,   \* bound on the administrators' commands
  MaxRevision,   \* bound on the hub's revision
  MaxFaults      \* bound on the statements that fail

VARIABLES
  peers, deployments,  \* rows by id
  minted,              \* tokens 1..minted have been drawn
  revision,            \* the hub's federation revision
  config,              \* the token each peer's and each deployment's process holds, 0 for none
  pc, cmd,             \* each handler's next step and request
  shown,               \* history: tokens answered to an administrator, with their owner
  retired,             \* history: tokens a rotation has replaced
  barred,              \* history: peers disabled while nobody held an earlier status of them to write
  crossed,             \* history: peers a rotation of which has overlapped or failed, and none was alone since
  commands, faults

rows == <<peers, deployments, minted, revision>>
hist == <<retired, barred, crossed>>
vars == <<rows, config, pc, cmd, shown, hist, commands, faults>>

Owners   == Peers \cup Deployments
Handlers == Admins \cup Owners
Statuses == {"pending", "active", "disabled"}
Idle     == [id |-> None]

Init ==
  /\ peers = [p \in Peers |-> None] /\ deployments = [d \in Deployments |-> None]
  /\ minted = 0 /\ revision = 0
  /\ config = [o \in Owners |-> 0]
  /\ pc = [h \in Handlers |-> "idle"] /\ cmd = [h \in Handlers |-> Idle]
  /\ shown = {} /\ retired = {} /\ barred = {} /\ crossed = {}
  /\ commands = 0 /\ faults = 0

Goto(h, step, what) ==
  /\ pc' = [pc EXCEPT ![h] = step]
  /\ cmd' = [cmd EXCEPT ![h] = what]
  /\ UNCHANGED <<commands, faults>>

Done(h) == Goto(h, "idle", Idle)

\* An administrator's request.
Command(h, step, what) ==
  /\ pc[h] = "idle" /\ commands < MaxCommands
  /\ commands' = commands + 1
  /\ pc' = [pc EXCEPT ![h] = step]
  /\ cmd' = [cmd EXCEPT ![h] = what]
  /\ UNCHANGED faults

\* The other handlers with a request about this peer under way.
Busy(h, p) == {g \in Handlers \ {h} : cmd[g].id = p}

\* The handlers that rotate this peer's token, or give it its first.
Rotating(p) == {g \in Handlers : cmd[g].id = p /\ pc[g] \in {"rehash", "seal"}}

\* Those that are to write the status of a peer they have read as not disabled.
Reviving(p) == {g \in Handlers : cmd[g].id = p /\
                  \/ pc[g] = "activate"
                  \/ pc[g] = "writePeer" /\ cmd[g].asked = "" /\ cmd[g].was.status # "disabled"}

Mint == minted < MaxTokens /\ minted' = minted + 1

-----------------------------------------------------------------------------
(* Peers *)

\* The region is read first, and refused when it is disabled.
RegisterPeer(h, p, region) ==
  /\ peers[p] = None /\ Busy(h, p) = {} /\ region \notin Closed
  /\ Mint
  /\ Command(h, "createPeer", [id |-> p, token |-> minted', region |-> region])
  /\ UNCHANGED <<peers, deployments, revision, config, shown, hist>>

CreatePeer(h) ==
  /\ pc[h] = "createPeer"
  /\ peers' = [peers EXCEPT ![cmd[h].id] =
       [region |-> cmd[h].region, status |-> "pending", hash |-> cmd[h].token, enc |-> 0, cursor |-> 0]]
  /\ Goto(h, "seal", cmd[h])
  /\ UNCHANGED <<deployments, minted, revision, config, shown, hist>>

\* A patch of a peer: what it does not give is what the row held when it was read.
UpdatePeer(h, p, status) ==
  /\ peers[p] # None
  /\ Command(h, "writePeer", [id |-> p, asked |-> status, was |-> peers[p]])
  /\ UNCHANGED <<rows, config, shown, hist>>

\* The status a patch writes: the one given, or the one read.
Patched(c) == IF c.asked = "" THEN c.was.status ELSE c.asked

\* Mutation: the whole row read is written back.
WriteRow(h) ==
  LET c == cmd[h] IN
  /\ pc[h] = "writePeer"
  /\ peers' = [peers EXCEPT ![c.id] = [c.was EXCEPT !.status = Patched(c)]]
  /\ Done(h)
  /\ UNCHANGED <<deployments, minted, revision, config, shown, hist>>

WritePeer(h) ==
  LET c == cmd[h] IN
  /\ pc[h] = "writePeer"
  /\ peers' = [peers EXCEPT ![c.id].status = Patched(c)]
  /\ barred' = CASE c.asked = "disabled" /\ Reviving(c.id) = {} -> barred \cup {c.id}
                 [] c.asked \in {"pending", "active"}            -> barred \ {c.id}
                 [] OTHER                                        -> barred
  /\ Done(h)
  /\ UNCHANGED <<deployments, minted, revision, config, shown, retired, crossed>>

RotatePeerJoinToken(h, p) ==
  /\ peers[p] # None
  /\ Mint
  /\ Command(h, "rehash", [id |-> p, token |-> minted'])
  /\ crossed' = IF Rotating(p) = {} THEN crossed \ {p} ELSE crossed \cup {p}
  /\ UNCHANGED <<peers, deployments, revision, config, shown, retired, barred>>

\* Mutation: a rotation is answered without sealing its token.
RehashOnly(h) ==
  LET p == cmd[h].id IN
  /\ pc[h] = "rehash"
  /\ peers' = [peers EXCEPT ![p].hash = cmd[h].token, ![p].status = "pending"]
  /\ retired' = retired \cup {peers[p].hash}
  /\ barred' = barred \ {p}
  /\ shown' = shown \cup {<<p, cmd[h].token>>}
  /\ Done(h)
  /\ UNCHANGED <<deployments, minted, revision, config, crossed>>

\* The new hash makes a peer pending, a disabled one too.
UpdatePeerJoinTokenHash(h) ==
  LET p == cmd[h].id IN
  /\ pc[h] = "rehash"
  /\ peers' = [peers EXCEPT ![p].hash = cmd[h].token, ![p].status = "pending"]
  /\ retired' = retired \cup {peers[p].hash}
  /\ barred' = barred \ {p}
  /\ Goto(h, "seal", cmd[h])
  /\ UNCHANGED <<deployments, minted, revision, config, shown, crossed>>

\* The hub's own copy of the token; only then is the token shown.
UpdatePeerJoinTokenEnc(h) ==
  LET p == cmd[h].id IN
  /\ pc[h] = "seal"
  /\ peers' = [peers EXCEPT ![p].enc = cmd[h].token]
  /\ shown' = shown \cup {<<p, cmd[h].token>>}
  /\ Done(h)
  /\ UNCHANGED <<deployments, minted, revision, config, hist>>

\* Mutation: any peer that is not active is made active.
AuthenticateAny(p) ==
  /\ pc[p] = "idle" /\ config[p] # 0
  /\ peers[p] # None /\ peers[p].hash = config[p]
  /\ \E slug \in Regions :
       Goto(p, IF peers[p].status = "active" THEN "export" ELSE "activate", [id |-> p, slug |-> slug])
  /\ UNCHANGED <<rows, config, shown, hist>>

\* The puller's request, for its region or another: the row whose hash is the token's, if
\* it is not disabled.  A pending peer is made active, with the name and address just read.
AuthenticatePeerToken(p) ==
  /\ pc[p] = "idle" /\ config[p] # 0
  /\ peers[p] # None /\ peers[p].hash = config[p] /\ peers[p].status # "disabled"
  /\ \E slug \in Regions :
       Goto(p, IF peers[p].status = "pending" THEN "activate" ELSE "export", [id |-> p, slug |-> slug])
  /\ UNCHANGED <<rows, config, shown, hist>>

Activate(p) ==
  /\ pc[p] = "activate"
  /\ peers' = [peers EXCEPT ![p].status = "active"]
  /\ Goto(p, "export", cmd[p])
  /\ UNCHANGED <<deployments, minted, revision, config, shown, hist>>

\* A peer is given its own region only.
Export(p) ==
  /\ pc[p] = "export"
  /\ IF cmd[p].slug = peers[p].region
     THEN Goto(p, "record", [id |-> p, revision |-> revision])
     ELSE Done(p)
  /\ UNCHANGED <<rows, config, shown, hist>>

RecordPeerSync(p) ==
  /\ pc[p] = "record"
  /\ peers' = [peers EXCEPT ![p].cursor = cmd[p].revision]
  /\ Done(p)
  /\ UNCHANGED <<deployments, minted, revision, config, shown, hist>>

\* A membership, an overlay or a publish moves the revision on.
BumpRevision ==
  /\ revision < MaxRevision
  /\ revision' = revision + 1
  /\ UNCHANGED <<peers, deployments, minted, config, pc, cmd, shown, hist, commands, faults>>

-----------------------------------------------------------------------------
(* Deployments *)

RegisterDeployment(h, d, region) ==
  /\ deployments[d] = None /\ Busy(h, d) = {} /\ region \notin Closed
  /\ Mint
  /\ Command(h, "insertDeployment", [id |-> d, token |-> minted', region |-> region])
  /\ UNCHANGED <<peers, deployments, revision, config, shown, hist>>

InsertDeployment(h) ==
  LET c == cmd[h] IN
  /\ pc[h] = "insertDeployment"
  /\ deployments' = [deployments EXCEPT ![c.id] = [region |-> c.region, status |-> "pending", hash |-> c.token]]
  /\ shown' = shown \cup {<<c.id, c.token>>}
  /\ Done(h)
  /\ UNCHANGED <<peers, minted, revision, config, hist>>

\* By the region in the path, which must be the deployment's.
RotateJoinToken(h, d, region) ==
  /\ deployments[d] # None /\ deployments[d].region = region
  /\ Mint
  /\ Command(h, "rehashDeployment", [id |-> d, token |-> minted'])
  /\ UNCHANGED <<peers, deployments, revision, config, shown, hist>>

UpdateJoinTokenHash(h) ==
  LET c == cmd[h] IN
  /\ pc[h] = "rehashDeployment"
  /\ deployments' = [deployments EXCEPT ![c.id].hash = c.token]
  /\ retired' = retired \cup {deployments[c.id].hash}
  /\ shown' = shown \cup {<<c.id, c.token>>}
  /\ Done(h)
  /\ UNCHANGED <<peers, minted, revision, config, barred, crossed>>

\* The gateway's token is compared with the row read, ...
Heartbeat(d) ==
  /\ pc[d] = "idle" /\ config[d] # 0
  /\ deployments[d] # None /\ deployments[d].hash = config[d]
  /\ Goto(d, "heartbeat", [id |-> d])
  /\ UNCHANGED <<rows, config, shown, hist>>

\* ... and the row is written whatever its hash has become.
RecordHeartbeat(d) ==
  /\ pc[d] = "heartbeat"
  /\ deployments' = [deployments EXCEPT ![d].status = "healthy"]
  /\ Done(d)
  /\ UNCHANGED <<peers, minted, revision, config, shown, hist>>

-----------------------------------------------------------------------------
\* The operator configures a process with a token that was shown for it.
Configure(o, token) ==
  /\ <<o, token>> \in shown /\ config[o] # token
  /\ config' = [config EXCEPT ![o] = token]
  /\ UNCHANGED <<rows, pc, cmd, shown, hist, commands, faults>>

\* A statement fails, or the hub dies: the request ends where it is.
Fail(h) ==
  /\ pc[h] # "idle" /\ faults < MaxFaults
  /\ faults' = faults + 1
  /\ pc' = [pc EXCEPT ![h] = "idle"] /\ cmd' = [cmd EXCEPT ![h] = Idle]
  /\ crossed' = crossed \cup {p \in Peers : h \in Rotating(p)}
  /\ UNCHANGED <<rows, config, shown, retired, barred, commands>>

Request(h) ==
  \/ \E p \in Peers, r \in Regions : RegisterPeer(h, p, r)
  \/ \E p \in Peers, st \in Statuses \cup {""} : UpdatePeer(h, p, st)
  \/ \E p \in Peers : RotatePeerJoinToken(h, p)
  \/ \E d \in Deployments, r \in Regions : RegisterDeployment(h, d, r) \/ RotateJoinToken(h, d, r)

AdminStep(h) ==
  \/ CreatePeer(h) \/ WritePeer(h) \/ UpdatePeerJoinTokenHash(h) \/ UpdatePeerJoinTokenEnc(h)
  \/ InsertDeployment(h) \/ UpdateJoinTokenHash(h)

\* A regional control plane pulls over and over.
Pull(p) == AuthenticatePeerToken(p) \/ Activate(p) \/ Export(p) \/ RecordPeerSync(p)

\* A gateway sends a heartbeat over and over.
Beat(d) == Heartbeat(d) \/ RecordHeartbeat(d)

Next ==
  \/ \E h \in Admins : Request(h) \/ AdminStep(h)
  \/ \E p \in Peers : Pull(p)
  \/ \E d \in Deployments : Beat(d)
  \/ BumpRevision
  \/ \E o \in Owners, token \in 1..minted : Configure(o, token)
  \/ \E h \in Handlers : Fail(h)

Spec == Init /\ [][Next]_vars

-----------------------------------------------------------------------------
(* Properties *)

PeerRow == [region : Regions, status : Statuses, hash : 1..minted, enc : 0..minted, cursor : 0..revision]
DeploymentRow == [region : Regions, status : {"pending", "healthy"}, hash : 1..minted]

\* Every variable holds what the rows and the handlers can hold.
TypeOK ==
  /\ \A p \in Peers : peers[p] \in PeerRow \cup {None}
  /\ \A d \in Deployments : deployments[d] \in DeploymentRow \cup {None}
  /\ minted \in 0..MaxTokens /\ revision \in 0..MaxRevision
  /\ config \in [Owners -> 0..minted]

\* A token that a rotation has replaced never opens the hub again, however patches, first
\* uses, heartbeats and rotations of the row interleave.
RevokedStaysOut ==
  /\ \A p \in Peers : peers[p] # None => peers[p].hash \notin retired
  /\ \A d \in Deployments : deployments[d] # None => deployments[d].hash \notin retired

\* The token the hub keeps to call a peer back is the one the peer is known by, whatever
\* patches, first uses and pulls write the row meanwhile, unless a rotation is under way or
\* the last ones overlapped or failed: the next rotation that runs alone makes it so again.
SealedIsCurrent ==
  \A p \in Peers : peers[p] # None /\ p \notin crossed /\ Rotating(p) = {} =>
    peers[p].enc = peers[p].hash

\* A disabled peer stays disabled until an administrator gives it another status or a
\* rotation its token, whatever pulls, rotations and patches have read before: only a first
\* use, or a patch without a status, that had read the earlier one may undo it.
DisabledStaysOut == \A p \in barred : peers[p].status = "disabled"
=============================================================================
