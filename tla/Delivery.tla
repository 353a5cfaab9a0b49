-------------------------------- MODULE Delivery --------------------------------
(***************************************************************************)
(* What an outbox promises: what has been accepted may be delivered, any   *)
(* number of times, and is settled only after it has been delivered.       *)
(***************************************************************************)
CONSTANT Ids

VARIABLES accepted, delivered, settled

dvars == <<accepted, delivered, settled>>

Init == accepted = {} /\ delivered = {} /\ settled = {}

Accept(i) ==
  /\ accepted' = accepted \cup {i}
  /\ UNCHANGED <<delivered, settled>>

Deliver(i) ==
  /\ i \in accepted
  /\ delivered' = delivered \cup {i}
  /\ UNCHANGED <<accepted, settled>>

Settle(i) ==
  /\ i \in delivered
  /\ settled' = settled \cup {i}
  /\ UNCHANGED <<accepted, delivered>>

Next == \E i \in Ids : Accept(i) \/ Deliver(i) \/ Settle(i)

Spec == Init /\ [][Next]_dvars
=============================================================================
