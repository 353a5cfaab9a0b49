---------------------------- MODULE MCConfiguration ----------------------------
(* What administrators configure: the tables of one organization (ConfigStore), or *)
(* one region with the organizations bound to it and their overlays (Regions). The *)
(* commands of the two write different tables: a behaviour is one of the two.      *)
EXTENDS Regions, TLC

CONSTANTS
  a1, a2, Parts,
  Handlers, Providers, Foreign, Routes, Models, Policies, WasmHooks, MCPBackends, A2AAgents,
  Aliases, Priorities, Orders, Credentials, SigningKeys, APIKeys, None, Seeds,
  MaxStoreCommands

VARIABLES
  part, providers, routes, items, creds, slots, signing, keys, quotas, born, storePc, cmd,
  asked, stale, filled, lost, storeCommands, storeFaults

C == INSTANCE ConfigStore WITH MaxCommands <- MaxStoreCommands, pc <- storePc,
       commands <- storeCommands, faults <- storeFaults

inStore == <<providers, routes, items, creds, slots, signing, keys, quotas, born, storePc, cmd,
             asked, stale, filled, lost, storeCommands, storeFaults>>

\* No row is not a credential, and the tables to start from have a row or none for each
\* item and a slot for each scope.
ASSUME SeedsAssumption ==
  /\ None \notin Credentials
  /\ \A s \in Seeds : DOMAIN s.items = C!Items /\ DOMAIN s.slots = C!Scopes

\* A part that does not run stays at one of its initial states.
MCInit ==
  /\ part \in Parts
  /\ Init /\ (part # "region" => base = CHOOSE b \in Bases : TRUE)
  /\ C!Init

MCNext ==
  \/ part = "region" /\ Next /\ UNCHANGED <<part, inStore>>
  \/ part = "store" /\ C!Next /\ UNCHANGED <<part, vars>>

MCSpec == MCInit /\ [][MCNext]_<<part, vars, inStore>>

\* ConfigStore: what patches were answered is what the rows hold, unless one was
\* overwritten with a row read before it.
AsAsked == C!AsAsked
\* ConfigStore: an assignment once made stays until it is taken back or replaced.
SlotsKept == C!SlotsKept

-----------------------------------------------------------------------------
(* One region *)

route(o, m, p, f) == [org |-> o, model |-> m, provider |-> p, fallbacks |-> f]
row(o, v) == [org |-> o, val |-> v]
cred(o, id) == [org |-> o, id |-> id]

\* Two organizations on the same provider, with a credential each; org 0 rows are skipped.
MCBase1 ==
  [keys |-> {row(0, "k0"), row(1, "k1"), row(2, "k2")},
   routes |-> {route(1, "m", "p1", {"p2"}), route(2, "m", "p1", {})},
   creds |-> {cred(1, "c1"), cred(2, "c2")},
   binds |-> {[cred |-> "c1", scope |-> 1], [cred |-> "c2", scope |-> 2], [cred |-> "c9", scope |-> 1]},
   rest |-> {row(1, "q")},
   providers |-> [p1 |-> "hub", p2 |-> "hub"]]

\* The second one has dropped its fallback and its credential.
MCBase2 ==
  [MCBase1 EXCEPT !.routes = {route(1, "m", "p1", {}), route(2, "m", "p1", {})}, !.creds = {cred(2, "c2")}]

\* A provider and a route of its own; and one that redefines a provider of the hub and
\* names a credential.
MCPayloads ==
  {[routes |-> {route(0, "eu", "p3", {"p2"})}, creds |-> {}, binds |-> {}, rest |-> {row(0, "z"), row(0, "y")},
    providers |-> [p3 |-> "own"]],
   [routes |-> {route(0, "m", "p1", {"p4"})}, creds |-> {cred(0, "c1")}, binds |-> {[cred |-> "c1", scope |-> 1]},
    rest |-> {}, providers |-> [p1 |-> "own"]]}

MCBases == {MCBase1, MCBase2}

-----------------------------------------------------------------------------
(* One organization *)

\* Two policies and two backends; a route with a fallback; an assigned credential and a free one.
MCSeed ==
  [providers |-> {"p1", "p2"},
   routes    |-> [r \in Routes |-> IF r = "r1" THEN [model |-> "m", provider |-> "p1", fallbacks |-> {"p2"}] ELSE None],
   items     |-> [i \in Policies \cup WasmHooks \cup MCPBackends \cup A2AAgents |->
                    CASE i = "a" \/ i = "b" -> [enabled |-> FALSE, priority |-> 1]
                      [] i = "b1" -> [alias |-> "x", enabled |-> FALSE]
                      [] OTHER -> None],
   creds     |-> [c \in Credentials |-> IF c = "c3" THEN None ELSE "active"],
   slots     |-> [s \in {"organization"} \cup APIKeys |-> IF s = "organization" THEN "c1" ELSE None],
   signing   |-> [k \in SigningKeys |-> "disabled"],
   keys      |-> {"k1"},
   quotas    |-> {"organization"}]

\* Both policies in either order, one alone, and one that may be gone first or last.
At(id, priority) == [id |-> id, priority |-> priority]
MCOrders == {<<At("a", 2), At("b", 1)>>, <<At("b", 2), At("a", 2)>>, <<At("a", 2)>>,
             <<At("a", 2), At("c", 1)>>, <<At("c", 2), At("b", 2)>>}

MCSeeds == {MCSeed}

\* The administrators are interchangeable, and the handlers are named like them.
MCSymmetry == Permutations(Admins)
=============================================================================
