----------------------------- MODULE VersionedFeed -----------------------------
(***************************************************************************)
(* What snapshot distribution promises, whatever the publishers do: each   *)
(* feed (the Postgres table, the global mirror, the mirror of a region) is *)
(* a write-once log of versions.  Versions may be published out of order,  *)
(* but each of them at most once.  A consumer of a feed starts with        *)
(* nothing and only replaces what it views by a greater version of its own *)
(* feed; only stopping makes it forget.                                    *)
(***************************************************************************)
EXTENDS Integers

CONSTANTS
  Consumers,
  FeedOf,    \* FeedOf[c]: the feed consumer c reads
  Nowhere    \* what a consumer views before its first read (its version is 0)

VARIABLES
  log,       \* published entries, [feed, snap] with snap.version
  view,      \* view[c]: the snapshot consumer c uses
  online     \* online[c]: consumer c runs

feedVars == <<log, view, online>>

Init ==
  /\ log = {}
  /\ view = [c \in Consumers |-> Nowhere]
  /\ online = [c \in Consumers |-> FALSE]

\* One new entry, under a version its feed does not have yet.
Publish ==
  /\ \E e \in log' \ log :
       /\ log' = log \cup {e}
       /\ \A o \in log : o.feed = e.feed => o.snap.version # e.snap.version
  /\ UNCHANGED <<view, online>>

Advance(c) ==
  /\ online[c]
  /\ \E e \in log :
       /\ e.feed = FeedOf[c]
       /\ e.snap.version > view[c].version
       /\ view' = [view EXCEPT ![c] = e.snap]
  /\ UNCHANGED <<log, online>>

Boot(c) ==
  /\ ~online[c]
  /\ online' = [online EXCEPT ![c] = TRUE]
  /\ UNCHANGED <<log, view>>

Stop(c) ==
  /\ online[c]
  /\ online' = [online EXCEPT ![c] = FALSE]
  /\ view' = [view EXCEPT ![c] = Nowhere]
  /\ UNCHANGED log

Next ==
  \/ Publish
  \/ \E c \in Consumers : Advance(c) \/ Boot(c) \/ Stop(c)

Spec == Init /\ [][Next]_feedVars
=============================================================================
