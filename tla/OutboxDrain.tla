------------------------------ MODULE OutboxDrain ------------------------------
(***************************************************************************)
(* The outboxes: the gateways append usage events and the control plane    *)
(* platform events to a table, and workers drain it into usage_events or a *)
(* broker.  Both outboxes have the same table, the same claim and the same *)
(* loop; they differ in what delivering a row is.                          *)
(*                                                                         *)
(* A claim is a plain SELECT of the lowest unprocessed rows: it takes no   *)
(* lock and writes nothing.  The batch is then delivered and marked row by *)
(* row, and given up at the first error.                                   *)
(***************************************************************************)
EXTENDS Naturals, FiniteSets

CONSTANTS
  Emitters,   \* requests and commands that enqueue at once
  Workers,    \* worker processes
  MaxRows,    \* bound: rows
  BatchSize,  \* limit of ClaimBatch
  Poison,     \* rows whose payload never decodes
  MaxFaults   \* bound: faults of one worker

Ids == 1..MaxRows

ASSUME OutboxAssumption ==
  /\ MaxRows \in Nat /\ MaxFaults \in Nat /\ BatchSize \in Nat \ {0}
  /\ Poison \subseteq Ids

VARIABLES
  next,    \* the last id the table's sequence has given out
  open,    \* open[e]: the id of the insert e has not yet committed, 0 for none
  rows,    \* ids of committed rows
  done,    \* ids with processed_at set
  batch,   \* batch[w]: claimed rows worker w has not yet marked
  stage,   \* stage[w]: "idle", "send" the lowest row of the batch, "mark" it
  sent,    \* history: sent[w][i], deliveries of row i by w
  seen,    \* history: seen[w], rows committed when w claimed
  faults   \* faults[w] (bounded by MaxFaults)

workerVars == <<batch, stage, sent, seen, faults>>
vars == <<next, open, rows, done, workerVars>>

Init ==
  /\ next = 0
  /\ open = [e \in Emitters |-> 0]
  /\ rows = {}
  /\ done = {}
  /\ batch = [w \in Workers |-> {}]
  /\ stage = [w \in Workers |-> "idle"]
  /\ sent = [w \in Workers |-> [i \in Ids |-> 0]]
  /\ seen = [w \in Workers |-> {}]
  /\ faults = [w \in Workers |-> 0]

-----------------------------------------------------------------------------
(* Enqueue *)

\* The insert takes its id: ids are given out in an order, and commit in any.
Insert(e) ==
  /\ open[e] = 0
  /\ next < MaxRows
  /\ next' = next + 1
  /\ open' = [open EXCEPT ![e] = next + 1]
  /\ UNCHANGED <<rows, done, workerVars>>

Commit(e) ==
  /\ open[e] # 0
  /\ rows' = rows \cup {open[e]}
  /\ open' = [open EXCEPT ![e] = 0]
  /\ UNCHANGED <<next, done, workerVars>>

\* The insert fails: the event is logged and lost.
EnqueueFails(e) ==
  /\ open[e] # 0
  /\ open' = [open EXCEPT ![e] = 0]
  /\ UNCHANGED <<next, rows, done, workerVars>>

-----------------------------------------------------------------------------
(* Drain *)

Unprocessed == rows \ done

\* Mutation: less than a full batch is not claimed.
FullBatch ==
  {B \in SUBSET Unprocessed :
     /\ \A i \in B : \A j \in Unprocessed : j < i => j \in B
     /\ Cardinality(B) = BatchSize}

\* The lowest BatchSize unprocessed rows.
LowestBatch ==
  {B \in SUBSET Unprocessed :
     /\ \A i \in B : \A j \in Unprocessed : j < i => j \in B
     /\ Cardinality(B) = BatchSize \/ (B = Unprocessed /\ Cardinality(B) < BatchSize)}

ClaimBatch(w) ==
  /\ stage[w] = "idle"
  /\ Unprocessed # {}
  /\ \E B \in LowestBatch : batch' = [batch EXCEPT ![w] = B]
  /\ stage' = [stage EXCEPT ![w] = "send"]
  /\ seen' = [seen EXCEPT ![w] = rows]
  /\ UNCHANGED <<next, open, rows, done, sent, faults>>

\* Row i is the one worker w is at.
At(w, i) == i \in batch[w] /\ \A j \in batch[w] : i <= j

\* Mutation: the row is marked before it is delivered.
DeliverUnmarked(w) ==
  /\ stage[w] = "send"
  /\ \E i \in Ids \ Poison : At(w, i) /\ done' = done \cup {i}
  /\ stage' = [stage EXCEPT ![w] = "mark"]
  /\ UNCHANGED <<next, open, rows, batch, sent, seen, faults>>

\* InsertUsage or Publish.
Deliver(w) ==
  /\ stage[w] = "send"
  /\ \E i \in Ids \ Poison :
       /\ At(w, i)
       /\ sent' = [sent EXCEPT ![w] = [sent[w] EXCEPT ![i] = @ + 1]]
  /\ stage' = [stage EXCEPT ![w] = "mark"]
  /\ UNCHANGED <<next, open, rows, done, batch, seen, faults>>

\* Mutation: a row that was delivered is not marked.
MarkForgotten(w) ==
  /\ stage[w] = "mark"
  /\ \E i \in Ids :
       /\ At(w, i)
       /\ batch' = [batch EXCEPT ![w] = @ \ {i}]
       /\ stage' = [stage EXCEPT ![w] = IF batch[w] = {i} THEN "idle" ELSE "send"]
  /\ UNCHANGED <<next, open, rows, done, sent, seen, faults>>

MarkProcessed(w) ==
  /\ stage[w] = "mark"
  /\ \E i \in Ids :
       /\ At(w, i)
       /\ done' = done \cup {i}
       /\ batch' = [batch EXCEPT ![w] = @ \ {i}]
       /\ stage' = [stage EXCEPT ![w] = IF batch[w] = {i} THEN "idle" ELSE "send"]
  /\ UNCHANGED <<next, open, rows, sent, seen, faults>>

\* The rest of the batch is given up; the next tick claims again.
GiveUp(w) ==
  /\ batch' = [batch EXCEPT ![w] = {}]
  /\ stage' = [stage EXCEPT ![w] = "idle"]
  /\ UNCHANGED <<next, open, rows, done, sent, seen>>

\* The row does not decode, and stays where it is.
DecodeFails(w) ==
  /\ stage[w] = "send"
  /\ \E i \in Poison : At(w, i)
  /\ GiveUp(w)
  /\ UNCHANGED faults

\* A price lookup, delivery or mark returns an error, with or without effect, or the
\* worker dies and is restarted.
Fault(w) ==
  /\ stage[w] # "idle"
  /\ faults[w] < MaxFaults
  /\ faults' = [faults EXCEPT ![w] = @ + 1]
  /\ GiveUp(w)

-----------------------------------------------------------------------------
Settle(e) == Commit(e) \/ EnqueueFails(e)

ProcessOnce(w) ==
  \/ ClaimBatch(w)
  \/ Deliver(w)
  \/ MarkProcessed(w)
  \/ DecodeFails(w)

Next ==
  \/ \E e \in Emitters : Insert(e) \/ Settle(e)
  \/ \E w \in Workers : ProcessOnce(w) \/ Fault(w)

Spec == Init /\ [][Next]_vars

\* Inserts end, and a worker ticks every two seconds; events and faults come as they may.
FairSpec ==
  /\ Spec
  /\ \A e \in Emitters : WF_vars(Settle(e))
  /\ \A w \in Workers : WF_vars(ProcessOnce(w))

-----------------------------------------------------------------------------
(* Properties *)

Stages == {"idle", "send", "mark"}

\* Every variable has its type, and a worker is idle when it has no rows.
TypeOK ==
  /\ next \in 0..MaxRows
  /\ open \in [Emitters -> 0..MaxRows]
  /\ rows \in SUBSET Ids
  /\ done \in SUBSET rows
  /\ batch \in [Workers -> SUBSET rows]
  /\ stage \in [Workers -> Stages]
  /\ sent \in [Workers -> [Ids -> Nat]]
  /\ seen \in [Workers -> SUBSET rows]
  /\ faults \in [Workers -> Nat]
  /\ \A w \in Workers : stage[w] = "idle" <=> batch[w] = {}

Delivered == {i \in Ids : \E w \in Workers : sent[w][i] > 0}

\* The outbox keeps its promise: a row is processed only when it has been delivered.
Promise == INSTANCE Delivery WITH accepted <- rows, delivered <- Delivered, settled <- done
KeepsPromise == Promise!Spec

\* Every delivery of a row beyond a worker's first was preceded by a fault of that worker:
\* nothing but an error or a crash makes a worker deliver again.
RedeliveredByFaults ==
  \A w \in Workers : \A i \in Ids : sent[w][i] <= 1 + faults[w]

\* A worker comes to a row only when all rows before it that it could see are processed:
\* events are not overtaken, at the price of waiting behind one that cannot be delivered.
InOrder ==
  \A w \in Workers : \A i \in batch[w] : At(w, i) =>
    \A j \in seen[w] : j < i => j \in done

\* A row behind no undecodable one is processed in the end.
EventuallyProcessed ==
  \A i \in Ids : (i \in rows /\ \A p \in Poison : p > i) ~> i \in done

\* Workers that claim cooperatively deliver a row once when nothing fails.
DeliveredOnce ==
  \A i \in Ids : Cardinality({w \in Workers : sent[w][i] > 0}) <= 1
=============================================================================
