------------------------------ MODULE MCOutboxDrain ------------------------------
(* A usage event on its way: through an outbox into usage_events (OutboxDrain), and *)
(* from usage_events of the hub and the regions onto the usage page (UsageReports). *)
EXTENDS OutboxDrain, Integers

CONSTANTS e1, e2, w1, w2,
          Parts, Peers, Models, ListMax, ListDefault, ReportMax, Window, Limits, MaxEvents

\* A region is not the hub, and a page without a limit is not the longest.
ASSUME UsageAssumption ==
  /\ "hub" \notin Peers
  /\ Limits \subseteq Int /\ ListMax \in Nat /\ ListDefault \in 0..ListMax /\ ReportMax \in Nat

VARIABLES part, events, query

R == INSTANCE UsageReports

page == <<events, query>>

MCInit == part \in Parts /\ Init /\ R!Init
MCNext == \/ part = "outbox" /\ Next /\ UNCHANGED <<part, page>>
          \/ part = "page" /\ R!Next /\ UNCHANGED <<part, vars>>
MCSpec == /\ MCInit /\ [][MCNext]_<<part, vars, page>>
          /\ \A e \in Emitters : WF_vars(Settle(e))
          /\ \A w \in Workers : WF_vars(ProcessOnce(w))

\* UsageReports: a list holds the newest events there were when it was asked for.
ListNewest == R!ListNewest
=============================================================================
