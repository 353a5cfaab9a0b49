----------------------------- MODULE MCFederation -----------------------------
(* A hub and its regions: one region that pulls its configuration (FederationSync) *)
(* or the tokens by which peers and gateways are known (JoinTokens). The two share *)
(* the hub's revision only, which JoinTokens lets grow freely: a behaviour is one  *)
(* of the two.                                                                     *)
EXTENDS MCFederationSync

CONSTANTS Parts, Admins, Peers, Deployments, Slugs, Closed, None,
          MaxTokens, MaxAdminCommands, MaxRevision, MaxFaults

VARIABLES part, peers, deployments, minted, peerRevision, config, adminStep, cmd, shown, retired,
          barred, crossed, adminCommands, faults

J == INSTANCE JoinTokens WITH Regions <- Slugs, MaxCommands <- MaxAdminCommands,
       revision <- peerRevision, pc <- adminStep, commands <- adminCommands

ASSUME JoinAssumption ==
  /\ Admins \cap (Peers \cup Deployments) = {} /\ Peers \cap Deployments = {}
  /\ None \notin Peers \cup Deployments
  /\ None \notin [region : Slugs, status : J!Statuses, hash : Nat, enc : Nat, cursor : Nat]
  /\ None \notin [region : Slugs, status : {"pending", "healthy"}, hash : Nat]

joinVars == <<peers, deployments, minted, peerRevision, config, adminStep, cmd, shown, retired,
              barred, crossed, adminCommands, faults>>
all == <<part, fedVars, joinVars>>

Pulling(A) == part = "pull" /\ A /\ UNCHANGED <<part, joinVars>>
Joining(A) == part = "join" /\ A /\ UNCHANGED <<part, fedVars>>

\* Both start from an empty hub.
MCInit == part \in Parts /\ FedInit /\ J!Init

MCNext == Pulling(FedNext) \/ Joining(J!Next)

\* Only the pull loop is fair: what the tokens must do is safety.
MCSpec ==
  /\ MCInit /\ [][MCNext]_all
  /\ \A u \in Pullers : WF_all(Pulling(PullStep(u)))

\* JoinTokens: a token that a rotation has replaced never opens the hub again.
RevokedStaysOut == J!RevokedStaysOut
\* JoinTokens: the token the hub calls a peer back with is the one the peer is known by,
\* from every rotation that runs alone to the next that does not.
SealedIsCurrent == J!SealedIsCurrent
\* JoinTokens: a peer disabled while nobody held an earlier status to write stays disabled.
DisabledStaysOut == J!DisabledStaysOut
=============================================================================
