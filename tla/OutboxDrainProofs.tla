--------------------------- MODULE OutboxDrainProofs ---------------------------
(***************************************************************************)
(* Proofs about OutboxDrain, for any number of workers, emitters and rows, *)
(* any batch size and any set of undecodable rows.                         *)
(***************************************************************************)
EXTENDS MCOutboxDrain, Sequences, FiniteSetTheorems, TLAPS

\* Worker w has delivered row i in the batch it holds and has not yet marked it.
Unmarked(w, i) == stage[w] = "mark" /\ At(w, i)

\* A worker has delivered a row no more often than it has failed, until the row is
\* processed, but for the delivery it is about to mark; and so for the rows ahead of it
\* in its batch, even when another worker has processed them.
DeliveriesInv ==
  \A w \in Workers : \A i \in Ids :
    /\ sent[w][i] <= 1 + faults[w]
    /\ i \notin done /\ ~Unmarked(w, i) => sent[w][i] <= faults[w]
    /\ i \in batch[w] /\ ~Unmarked(w, i) => sent[w][i] <= faults[w]

\* What is processed, and what is about to be, has been delivered.
DeliveredInv ==
  /\ done \subseteq Delivered
  /\ \A w \in Workers : \A i \in Ids : Unmarked(w, i) => sent[w][i] > 0

\* A batch has every row the worker saw and nobody has processed, up to its last.
BatchInv ==
  \A w \in Workers : \A i \in batch[w] : \A j \in seen[w] : j < i => j \in batch[w] \cup done

IInv == TypeOK /\ DeliveriesInv /\ DeliveredInv /\ BatchInv

LEMMA InitInv == Init => IInv
<1> SUFFICES ASSUME Init PROVE IInv
  OBVIOUS
<1>1. TypeOK
  BY OutboxAssumption DEF Init, TypeOK, Stages, Ids
<1>2. DeliveriesInv /\ DeliveredInv /\ BatchInv
  BY DEF Init, DeliveriesInv, DeliveredInv, BatchInv, Unmarked, Delivered
<1> QED
  BY <1>1, <1>2 DEF IInv

\* What a claim takes: some unprocessed rows, and all those below them.
LEMMA Claimed ==
  ASSUME NEW w \in Workers, TypeOK, ClaimBatch(w)
  PROVE  \E B \in SUBSET Unprocessed :
           /\ batch' = [batch EXCEPT ![w] = B]
           /\ B # {}
           /\ \A i \in B : \A j \in Unprocessed : j < i => j \in B
<1>1. PICK B \in LowestBatch : batch' = [batch EXCEPT ![w] = B]
  BY DEF ClaimBatch
<1>2. B # {}
  BY <1>1, OutboxAssumption, FS_EmptySet DEF LowestBatch, ClaimBatch
<1> QED
  BY <1>1, <1>2 DEF LowestBatch

\* Types are preserved.
LEMMA TypeStep == TypeOK /\ [Next]_vars => TypeOK'
<1> SUFFICES ASSUME TypeOK, [Next]_vars PROVE TypeOK'
  OBVIOUS
<1>0. MaxRows \in Nat /\ Poison \subseteq Ids
  BY OutboxAssumption
<1>1. ASSUME NEW e \in Emitters, Insert(e) \/ Settle(e) PROVE TypeOK'
  <2>1. CASE Insert(e)
    <3>1. next + 1 \in 0..MaxRows
      BY <1>0, <2>1 DEF Insert, TypeOK
    <3> QED
      BY <2>1, <3>1 DEF Insert, workerVars, TypeOK
  <2>2. CASE Commit(e)
    <3>1. open[e] \in Ids
      BY <1>0, <2>2 DEF Commit, TypeOK, Ids
    <3>2. rows' \in SUBSET Ids /\ rows \subseteq rows' /\ open' \in [Emitters -> 0..MaxRows]
      BY <1>0, <2>2, <3>1 DEF Commit, TypeOK
    <3> QED
      BY <2>2, <3>2 DEF Commit, workerVars, TypeOK
  <2>3. CASE EnqueueFails(e)
    BY <1>0, <2>3 DEF EnqueueFails, workerVars, TypeOK
  <2> QED
    BY <1>1, <2>1, <2>2, <2>3 DEF Settle
<1>2. ASSUME NEW w \in Workers, ClaimBatch(w) PROVE TypeOK'
  <2>1. PICK B \in SUBSET Unprocessed : batch' = [batch EXCEPT ![w] = B] /\ B # {}
    BY <1>2, Claimed
  <2> QED
    BY <1>2, <2>1 DEF ClaimBatch, TypeOK, Stages, Unprocessed
<1>3. ASSUME NEW w \in Workers, Deliver(w) PROVE TypeOK'
  <2>1. PICK i \in Ids : sent' = [sent EXCEPT ![w] = [sent[w] EXCEPT ![i] = @ + 1]]
    BY <1>3 DEF Deliver
  <2>2. sent' \in [Workers -> [Ids -> Nat]]
    BY <2>1 DEF TypeOK
  <2>3. stage' \in [Workers -> Stages] /\ \A x \in Workers : stage'[x] = "idle" <=> stage[x] = "idle"
    BY <1>3 DEF Deliver, TypeOK, Stages
  <2> QED
    BY <1>3, <2>2, <2>3 DEF Deliver, TypeOK
<1>4. ASSUME NEW w \in Workers, MarkProcessed(w) PROVE TypeOK'
  <2>1. PICK i \in batch[w] :
          /\ done' = done \cup {i}
          /\ batch' = [batch EXCEPT ![w] = @ \ {i}]
          /\ stage' = [stage EXCEPT ![w] = IF batch[w] = {i} THEN "idle" ELSE "send"]
    BY <1>4 DEF MarkProcessed, At
  <2>2. UNCHANGED <<next, open, rows, sent, seen, faults>>
    BY <1>4 DEF MarkProcessed
  <2> QED
    BY <2>1, <2>2 DEF TypeOK, Stages
<1>5. ASSUME NEW w \in Workers, DecodeFails(w) \/ Fault(w) PROVE TypeOK'
  <2>1. /\ UNCHANGED <<next, open, rows, done, sent, seen>>
        /\ batch' = [batch EXCEPT ![w] = {}] /\ stage' = [stage EXCEPT ![w] = "idle"]
    BY <1>5 DEF DecodeFails, Fault, GiveUp
  <2>2. faults' \in [Workers -> Nat]
    BY <1>5 DEF DecodeFails, Fault, TypeOK
  <2> QED
    BY <2>1, <2>2 DEF TypeOK, Stages
<1>6. CASE UNCHANGED vars
  BY <1>6 DEF vars, workerVars, TypeOK
<1> QED
  BY <1>1, <1>2, <1>3, <1>4, <1>5, <1>6 DEF Next, ProcessOnce

\* Enqueueing touches neither deliveries nor batches.
LEMMA EnqueueStep ==
  ASSUME IInv, NEW e \in Emitters, Insert(e) \/ Settle(e)
  PROVE  DeliveriesInv' /\ DeliveredInv' /\ BatchInv'
<1>1. UNCHANGED <<done, batch, stage, sent, seen, faults>>
  BY DEF Insert, Settle, Commit, EnqueueFails, workerVars
<1> QED
  BY <1>1 DEF IInv, DeliveriesInv, DeliveredInv, BatchInv, Unmarked, At, Delivered

LEMMA ClaimStep ==
  ASSUME IInv, NEW w \in Workers, ClaimBatch(w)
  PROVE  DeliveriesInv' /\ DeliveredInv' /\ BatchInv'
<1>1. PICK B \in SUBSET Unprocessed :
        /\ batch' = [batch EXCEPT ![w] = B]
        /\ \A i \in B : \A j \in Unprocessed : j < i => j \in B
  BY Claimed DEF IInv
<1>2. /\ stage[w] = "idle" /\ stage' = [stage EXCEPT ![w] = "send"]
      /\ seen' = [seen EXCEPT ![w] = rows]
      /\ UNCHANGED <<rows, done, sent, faults>>
  BY DEF ClaimBatch
<1>3. \A x \in Workers : \A i \in Ids : Unmarked(x, i)' <=> Unmarked(x, i)
  BY <1>1, <1>2 DEF IInv, TypeOK, Unmarked, At
<1>4. DeliveriesInv'
  <2>1. ASSUME NEW x \in Workers, NEW i \in Ids, i \in batch'[x], ~Unmarked(x, i)
        PROVE  sent[x][i] <= faults[x]
    <3>1. CASE x = w
      BY <1>1, <2>1, <3>1 DEF IInv, TypeOK, DeliveriesInv, Unprocessed
    <3>2. CASE x # w
      BY <1>1, <2>1, <3>2 DEF IInv, TypeOK, DeliveriesInv
    <3> QED
      BY <3>1, <3>2
  <2> QED
    BY <1>2, <1>3, <2>1 DEF IInv, DeliveriesInv
<1>5. DeliveredInv'
  BY <1>2, <1>3 DEF IInv, DeliveredInv, Delivered
<1>6. BatchInv'
  BY <1>1, <1>2 DEF IInv, TypeOK, BatchInv, Unprocessed
<1> QED
  BY <1>4, <1>5, <1>6

LEMMA DeliverStep ==
  ASSUME IInv, NEW w \in Workers, Deliver(w)
  PROVE  DeliveriesInv' /\ DeliveredInv' /\ BatchInv'
<1>1. PICK i \in Ids :
        At(w, i) /\ sent' = [sent EXCEPT ![w] = [sent[w] EXCEPT ![i] = @ + 1]]
  BY DEF Deliver
<1>2. /\ stage[w] = "send" /\ stage' = [stage EXCEPT ![w] = "mark"]
      /\ UNCHANGED <<rows, done, batch, seen, faults>>
  BY DEF Deliver
<1>3. \A j \in Ids : At(w, j) => j = i
  BY <1>1, OutboxAssumption DEF At, Ids
<1>4. \A x \in Workers : \A j \in Ids : Unmarked(x, j)' <=> Unmarked(x, j) \/ (x = w /\ j = i)
  BY <1>1, <1>2, <1>3 DEF IInv, TypeOK, Unmarked, At
<1>5. sent[w][i] <= faults[w] /\ sent[w][i] \in Nat /\ faults[w] \in Nat
  BY <1>1, <1>2 DEF IInv, TypeOK, DeliveriesInv, Unmarked, At
<1>6. /\ sent'[w][i] = sent[w][i] + 1
      /\ \A x \in Workers : \A j \in Ids : x # w \/ j # i => sent'[x][j] = sent[x][j]
  BY <1>1 DEF IInv, TypeOK
<1>7. DeliveriesInv'
  BY <1>2, <1>4, <1>5, <1>6 DEF IInv, DeliveriesInv
<1>8. DeliveredInv'
  <2>1. \A j \in Ids : j \in Delivered => j \in Delivered'
    BY <1>5, <1>6 DEF Delivered
  <2>2. \A x \in Workers : \A j \in Ids : Unmarked(x, j)' => sent'[x][j] > 0
    BY <1>4, <1>5, <1>6 DEF IInv, DeliveredInv
  <2> QED
    BY <1>2, <2>1, <2>2 DEF IInv, DeliveredInv, Delivered
<1>9. BatchInv'
  BY <1>2 DEF IInv, BatchInv
<1> QED
  BY <1>7, <1>8, <1>9

LEMMA MarkStep ==
  ASSUME IInv, NEW w \in Workers, MarkProcessed(w)
  PROVE  DeliveriesInv' /\ DeliveredInv' /\ BatchInv'
<1>1. PICK i \in Ids :
        /\ At(w, i)
        /\ done' = done \cup {i}
        /\ batch' = [batch EXCEPT ![w] = @ \ {i}]
        /\ stage' = [stage EXCEPT ![w] = IF batch[w] = {i} THEN "idle" ELSE "send"]
  BY DEF MarkProcessed
<1>2. stage[w] = "mark" /\ UNCHANGED <<rows, sent, seen, faults>>
  BY DEF MarkProcessed
<1>3. \A j \in Ids : At(w, j) => j = i
  BY <1>1, OutboxAssumption DEF At, Ids
<1>4. \A x \in Workers : \A j \in Ids : Unmarked(x, j)' <=> Unmarked(x, j) /\ x # w
  BY <1>1 DEF IInv, TypeOK, Unmarked, At
<1>5. \A j \in Ids : Unmarked(w, j) => j = i
  BY <1>3 DEF Unmarked
<1>6. DeliveriesInv'
  <2>1. ASSUME NEW x \in Workers, NEW j \in Ids, j \notin done', ~Unmarked(x, j)'
        PROVE  sent[x][j] <= faults[x]
    BY <1>1, <1>4, <1>5, <2>1 DEF IInv, DeliveriesInv
  <2>2. ASSUME NEW x \in Workers, NEW j \in Ids, j \in batch'[x], ~Unmarked(x, j)'
        PROVE  sent[x][j] <= faults[x]
    <3>1. j \in batch[x] /\ ~Unmarked(x, j)
      BY <1>1, <1>4, <1>5, <2>2 DEF IInv, TypeOK
    <3> QED
      BY <3>1 DEF IInv, DeliveriesInv
  <2> QED
    BY <1>2, <2>1, <2>2 DEF IInv, DeliveriesInv
<1>7. DeliveredInv'
  <2>1. i \in Delivered
    BY <1>1, <1>2 DEF IInv, DeliveredInv, Unmarked, Delivered
  <2> QED
    BY <1>1, <1>2, <1>4, <2>1 DEF IInv, DeliveredInv, Delivered
<1>8. BatchInv'
  BY <1>1, <1>2 DEF IInv, TypeOK, BatchInv
<1> QED
  BY <1>6, <1>7, <1>8

LEMMA GiveUpStep ==
  ASSUME IInv, TypeOK', NEW w \in Workers, DecodeFails(w) \/ Fault(w)
  PROVE  DeliveriesInv' /\ DeliveredInv' /\ BatchInv'
<1>1. /\ batch' = [batch EXCEPT ![w] = {}] /\ stage' = [stage EXCEPT ![w] = "idle"]
      /\ UNCHANGED <<rows, done, sent, seen>>
  BY DEF DecodeFails, Fault, GiveUp
<1>2. /\ \A x \in Workers : faults'[x] >= faults[x]
      /\ stage[w] = "mark" => faults'[w] = faults[w] + 1
  <2>1. faults \in [Workers -> Nat]
    BY DEF IInv, TypeOK
  <2>2. CASE DecodeFails(w)
    <3>1. stage[w] = "send" /\ faults' = faults
      BY <2>2 DEF DecodeFails
    <3> QED
      BY <2>1, <3>1
  <2>3. CASE Fault(w)
    <3>1. faults' = [faults EXCEPT ![w] = faults[w] + 1]
      BY <2>3 DEF Fault
    <3>2. faults'[w] = faults[w] + 1 /\ \A x \in Workers : x # w => faults'[x] = faults[x]
      BY <2>1, <3>1
    <3> QED
      BY <2>1, <3>2
  <2> QED
    BY <2>2, <2>3
<1>3. \A x \in Workers : \A j \in Ids : Unmarked(x, j)' <=> Unmarked(x, j) /\ x # w
  BY <1>1 DEF IInv, TypeOK, Unmarked, At
<1>4. \A x \in Workers : faults[x] \in Nat /\ faults'[x] \in Nat /\ \A j \in Ids : sent[x][j] \in Nat
  BY DEF IInv, TypeOK
<1>5. DeliveriesInv'
  <2>1. ASSUME NEW x \in Workers, NEW j \in Ids PROVE sent[x][j] <= 1 + faults'[x]
    BY <1>2, <1>4 DEF IInv, DeliveriesInv
  <2>2. ASSUME NEW x \in Workers, NEW j \in Ids, j \notin done \/ j \in batch'[x], ~Unmarked(x, j)'
        PROVE  sent[x][j] <= faults'[x]
    <3>1. CASE Unmarked(x, j)
      <4>1. x = w /\ stage[w] = "mark"
        BY <1>3, <2>2, <3>1 DEF Unmarked
      <4> QED
        BY <1>2, <1>4, <4>1 DEF IInv, DeliveriesInv
    <3>2. CASE ~Unmarked(x, j)
      <4>1. j \notin done \/ j \in batch[x]
        BY <1>1, <2>2 DEF IInv, TypeOK
      <4>2. sent[x][j] <= faults[x]
        BY <3>2, <4>1 DEF IInv, DeliveriesInv
      <4> QED
        BY <1>2, <1>4, <4>2
    <3> QED
      BY <3>1, <3>2
  <2> QED
    BY <1>1, <2>1, <2>2 DEF DeliveriesInv
<1>6. DeliveredInv'
  BY <1>1, <1>3 DEF IInv, DeliveredInv, Delivered
<1>7. BatchInv'
  BY <1>1 DEF IInv, TypeOK, BatchInv
<1> QED
  BY <1>5, <1>6, <1>7

\* The invariant is inductive.
LEMMA NextInv == IInv /\ [Next]_vars => IInv'
<1> SUFFICES ASSUME IInv, [Next]_vars PROVE IInv'
  OBVIOUS
<1>1. TypeOK'
  BY TypeStep DEF IInv
<1>2. CASE UNCHANGED vars
  BY <1>1, <1>2 DEF vars, workerVars, IInv, DeliveriesInv, DeliveredInv, BatchInv, Unmarked, At,
                    Delivered
<1> QED
  BY <1>1, <1>2, EnqueueStep, ClaimStep, DeliverStep, MarkStep, GiveUpStep
     DEF Next, ProcessOnce, IInv

\* The inductive invariant holds in every reachable state.
THEOREM Invariant == Spec => []IInv
  BY InitInv, NextInv, PTL DEF Spec

\* The types of the tables and of ProcessOnce's locals.
THEOREM TypeCorrect == Spec => []TypeOK
<1>1. IInv => TypeOK
  BY DEF IInv
<1> QED
  BY <1>1, Invariant, PTL

\* A worker delivers a row again only after it has failed: with any number of workers the
\* deliveries of one of them exceed its faults by at most one.
THEOREM Redelivery == Spec => []RedeliveredByFaults
<1>1. IInv => RedeliveredByFaults
  BY DEF IInv, DeliveriesInv, RedeliveredByFaults
<1> QED
  BY <1>1, Invariant, PTL

\* Rows are delivered in the order of their ids, as far as the claim could see them.
THEOREM Order == Spec => []InOrder
<1>1. IInv => InOrder
  BY OutboxAssumption DEF IInv, TypeOK, BatchInv, InOrder, At, Ids
<1> QED
  BY <1>1, Invariant, PTL

\* The drain implements Delivery.
THEOREM Refinement == Spec => KeepsPromise
<1>1. Init => Promise!Init
  BY DEF Init, Promise!Init, Delivered
<1>2. IInv /\ IInv' /\ [Next]_vars => [Promise!Next]_Promise!dvars
  <2> SUFFICES ASSUME IInv, IInv', [Next]_vars PROVE Promise!Next \/ UNCHANGED Promise!dvars
    OBVIOUS
  <2>1. ASSUME NEW e \in Emitters, Insert(e) \/ EnqueueFails(e)
        PROVE  UNCHANGED Promise!dvars
    BY <2>1 DEF Insert, EnqueueFails, workerVars, Promise!dvars, Delivered
  <2>2. ASSUME NEW e \in Emitters, Commit(e) PROVE Promise!Next
    <3>1. open[e] \in Ids
      BY <2>2, OutboxAssumption DEF Commit, IInv, TypeOK, Ids
    <3>2. Promise!Accept(open[e])
      BY <2>2 DEF Commit, workerVars, Promise!Accept, Delivered
    <3> QED
      BY <3>1, <3>2 DEF Promise!Next
  <2>3. ASSUME NEW w \in Workers, ClaimBatch(w) \/ DecodeFails(w) \/ Fault(w)
        PROVE  UNCHANGED Promise!dvars
    BY <2>3 DEF ClaimBatch, DecodeFails, Fault, GiveUp, Promise!dvars, Delivered
  <2>4. ASSUME NEW w \in Workers, Deliver(w) PROVE Promise!Next
    <3>1. PICK i \in Ids : i \in batch[w] /\ sent' = [sent EXCEPT ![w] = [sent[w] EXCEPT ![i] = @ + 1]]
      BY <2>4 DEF Deliver, At
    <3>2. i \in rows
      BY <3>1 DEF IInv, TypeOK
    <3>3. /\ sent'[w][i] > 0
          /\ \A x \in Workers : \A j \in Ids : x # w \/ j # i => sent'[x][j] = sent[x][j]
      BY <3>1 DEF IInv, TypeOK
    <3>4. Delivered' = Delivered \cup {i}
      BY <3>3 DEF Delivered
    <3>5. rows' = rows /\ done' = done
      BY <2>4 DEF Deliver
    <3> QED
      BY <3>2, <3>4, <3>5 DEF Promise!Next, Promise!Deliver
  <2>5. ASSUME NEW w \in Workers, MarkProcessed(w) PROVE Promise!Next
    <3>1. PICK i \in Ids : At(w, i) /\ done' = done \cup {i}
      BY <2>5 DEF MarkProcessed
    <3>2. i \in Delivered
      BY <2>5, <3>1 DEF MarkProcessed, IInv, DeliveredInv, Unmarked, Delivered
    <3>3. rows' = rows /\ Delivered' = Delivered
      BY <2>5 DEF MarkProcessed, Delivered
    <3> QED
      BY <3>1, <3>2, <3>3 DEF Promise!Next, Promise!Settle
  <2>6. CASE UNCHANGED vars
    BY <2>6 DEF vars, workerVars, Promise!dvars, Delivered
  <2> QED
    BY <2>1, <2>2, <2>3, <2>4, <2>5, <2>6 DEF Next, Settle, ProcessOnce
<1> QED
  BY <1>1, <1>2, Invariant, PTL DEF Spec, KeepsPromise, Promise!Spec

-----------------------------------------------------------------------------
(* The usage page: what is sorted and cut *)

Of(s) == {s[i] : i \in DOMAIN s}
Falling(s) == \A i, j \in DOMAIN s : i < j => s[i] > s[j]
Injective(s) == \A i, j \in DOMAIN s : s[i] = s[j] => i = j

\* What is below each element in a strict total order, and how many are.
Ordered(I, below) ==
  /\ below \in [I -> SUBSET I]
  /\ \A x \in I : x \notin below[x]
  /\ \A x, y \in I : x # y => x \in below[y] \/ y \in below[x]
  /\ \A x, y \in I : x \in below[y] => below[x] \subseteq below[y]
Rank(below, x) == Cardinality(below[x]) + 1

\* Every element has a rank of its own and every rank is that of an element.
Ranked(I, below) ==
  /\ Cardinality(I) \in Nat
  /\ \A x \in I : Rank(below, x) \in 1..Cardinality(I)
  /\ \A x, y \in I : x \in below[y] => Rank(below, x) < Rank(below, y)
  /\ \A k \in 1..Cardinality(I) : \E x \in I : Rank(below, x) = k

LEMMA Ranks ==
  ASSUME NEW I, NEW below, IsFiniteSet(I), Ordered(I, below)
  PROVE  Ranked(I, below)
<1> DEFINE N == Cardinality(I)
           rank == [x \in I |-> Rank(below, x)]
<1> USE DEF Ordered
<1>1. N \in Nat
  BY FS_CardinalityType
<1>2. \A x \in I : IsFiniteSet(below[x]) /\ Cardinality(below[x]) \in Nat
  BY FS_Subset, FS_CardinalityType
<1>3. ASSUME NEW x \in I
      PROVE  Rank(below, x) \in 1..N
  <2>1. IsFiniteSet(I \ {x}) /\ Cardinality(I \ {x}) = N - 1
    BY FS_RemoveElement
  <2>2. below[x] \in SUBSET (I \ {x})
    OBVIOUS
  <2>3. Cardinality(below[x]) <= N - 1
    BY <2>1, <2>2, FS_Subset
  <2> QED
    BY <1>1, <1>2, <2>3 DEF Rank
<1>4. ASSUME NEW x \in I, NEW y \in I, x \in below[y]
      PROVE  Rank(below, x) < Rank(below, y)
  <2>1. below[x] \in SUBSET below[y] /\ below[x] # below[y]
    BY <1>4
  <2>2. Cardinality(below[x]) <= Cardinality(below[y]) /\ Cardinality(below[x]) # Cardinality(below[y])
    BY <1>2, <2>1, FS_Subset
  <2> QED
    BY <1>2, <2>2 DEF Rank
<1>5. \A x, y \in I : rank[x] = rank[y] => x = y
  BY <1>1, <1>3, <1>4
<1>6. rank \in Injection(I, 1..N)
  <2>1. rank \in [I -> 1..N]
    BY <1>3
  <2> QED
    BY <1>5, <2>1, Zenon DEF Injection, IsInjective
<1>7. IsFiniteSet(1..N) /\ Cardinality(1..N) = N
  <2>1. 1 \in Int /\ N \in Int
    BY <1>1
  <2>2. IsFiniteSet(1..N) /\ Cardinality(1..N) = IF 1 > N THEN 0 ELSE N - 1 + 1
    BY <2>1, FS_Interval, Zenon
  <2> QED
    BY <1>1, <2>2
<1>8. \A k \in 1..N : \E x \in I : rank[x] = k
  <2>1. rank \in Surjection(I, 1..N)
    BY <1>6, <1>7, FS_Injection
  <2> QED
    BY <2>1, Zenon DEF Surjection
<1> QED
  BY <1>1, <1>3, <1>4, <1>8 DEF Ranked

\* The elements of a finite set of numbers, from the greatest.
LEMMA Newest ==
  ASSUME NEW S \in SUBSET Int, IsFiniteSet(S)
  PROVE  LET s == R!NewestFirst(S) IN
           /\ DOMAIN s = 1..Cardinality(S) /\ Cardinality(S) \in Nat
           /\ s \in Seq(S) /\ Falling(s) /\ Of(s) = S
<1> DEFINE s == R!NewestFirst(S)
           below == [x \in S |-> {u \in S : u > x}]
           N == Cardinality(S)
<1>1. s = [k \in 1..N |-> CHOOSE t \in S : Cardinality({u \in S : u > t}) = k - 1]
  BY DEF R!NewestFirst, R!Cardinality, Cardinality
<1>2. below \in [S -> SUBSET S] /\ \A x \in S : below[x] = {u \in S : u > x}
  OBVIOUS
<1>3. \A x \in S : x \in Int
  OBVIOUS
<1> HIDE DEF s, below
<1>4. \A x, y \in S : x \in below[y] <=> x > y
  BY <1>2
<1>5. Ordered(S, below)
  <2>1. ASSUME NEW x \in S, NEW y \in S, x \in below[y]
        PROVE  below[x] \subseteq below[y]
    <3>1. \A z \in S : z > x => z > y
      BY <1>3, <1>4, <2>1
    <3> QED
      BY <1>2, <3>1
  <2>2. /\ \A x \in S : x \notin below[x]
        /\ \A x, y \in S : x # y => x \in below[y] \/ y \in below[x]
    BY <1>3, <1>4
  <2> QED
    BY <1>2, <2>1, <2>2 DEF Ordered
<1>6. Ranked(S, below)
  BY <1>5, Ranks
<1>7. N \in Nat /\ \A x \in S : Rank(below, x) \in 1..N
  BY <1>6 DEF Ranked
<1>8. \A x, y \in S : x > y => Rank(below, x) < Rank(below, y)
  BY <1>4, <1>6 DEF Ranked
<1> HIDE DEF N
<1>9. ASSUME NEW k \in 1..N
      PROVE  s[k] \in S /\ Rank(below, s[k]) = k
  <2> DEFINE Here(t) == Cardinality({u \in S : u > t}) = k - 1
  <2>1. s[k] = CHOOSE t \in S : Here(t)
    BY <1>1
  <2>2. \A t \in S : Here(t) <=> Rank(below, t) = k
    <3> SUFFICES ASSUME NEW t \in S PROVE Here(t) <=> Rank(below, t) = k
      OBVIOUS
    <3> DEFINE c == Cardinality({u \in S : u > t})
    <3>1. c = Cardinality(below[t])
      BY <1>2
    <3>2. below[t] \in SUBSET S
      BY <1>2
    <3>3. Cardinality(below[t]) \in Nat
      BY <3>2, FS_Subset, FS_CardinalityType
    <3> HIDE DEF c
    <3>4. Rank(below, t) = c + 1 /\ c \in Nat
      BY <3>1, <3>3 DEF Rank
    <3>5. c = k - 1 <=> Rank(below, t) = k
      BY <1>7, <3>4
    <3> QED
      BY <3>5 DEF c
  <2>3. \E t \in S : Rank(below, t) = k
    BY <1>6 DEF Ranked, N
  <2> HIDE DEF Here
  <2>4. s[k] \in S /\ Here(s[k])
    BY <2>1, <2>2, <2>3
  <2> QED
    BY <2>2, <2>4
<1>10. DOMAIN s = 1..N /\ s \in Seq(S)
  <2>1. s \in [1..N -> S]
    BY <1>1, <1>9 DEF N
  <2> QED
    BY <1>7, <2>1
<1>11. ASSUME NEW i \in 1..N, NEW j \in 1..N, i < j
       PROVE  s[i] > s[j]
  <2>1. s[i] \in S /\ s[j] \in S /\ Rank(below, s[i]) = i /\ Rank(below, s[j]) = j
    BY <1>9
  <2>2. s[i] \in Int /\ s[j] \in Int
    BY <1>3, <2>1
  <2>3. N \in Nat
    BY <1>7
  <2>4. i \in Int /\ j \in Int
    BY <2>3
  <2>5. s[j] > s[i] => j < i
    BY <1>8, <2>1
  <2>6. s[i] # s[j]
    BY <1>11, <2>1, <2>4
  <2> QED
    BY <1>11, <2>2, <2>4, <2>5, <2>6
<1>12. ASSUME NEW x \in S
       PROVE  \E k \in 1..N : s[k] = x
  <2> DEFINE k == Rank(below, x)
  <2>1. k \in 1..N /\ k \in Int
    BY <1>7
  <2> HIDE DEF k
  <2>2. s[k] \in S /\ Rank(below, s[k]) = k
    BY <1>9, <2>1
  <2>3. s[k] \in Int /\ x \in Int
    BY <1>3, <2>2
  <2>4. (s[k] > x => k < k) /\ (x > s[k] => k < k)
    BY <1>8, <2>2 DEF k
  <2>5. s[k] = x
    BY <2>1, <2>3, <2>4
  <2> QED
    BY <2>1, <2>5
<1>13. Of(s) = S
  BY <1>9, <1>10, <1>12 DEF Of
<1> QED
  BY <1>7, <1>10, <1>11, <1>13 DEF s, Falling, N

\* A sequence without duplicates, sorted: the same elements, from the greatest.
LEMMA Sorted ==
  ASSUME NEW s \in Seq(Int), Injective(s)
  PROVE  LET d == R!Descending(s) IN d \in Seq(Int) /\ Falling(d) /\ Of(d) = Of(s)
<1> DEFINE d == R!Descending(s)
           N == Len(s)
           I == 1..N
           below == [x \in I |-> {y \in I : s[y] > s[x]}]
<1>1. N \in Nat /\ DOMAIN s = I /\ \A x \in I : s[x] \in Int
  OBVIOUS
<1>2. \A x, y \in I : s[x] = s[y] => x = y
  BY <1>1 DEF Injective
<1>3. IsFiniteSet(I) /\ Cardinality(I) = N
  <2>1. 1 \in Int /\ N \in Int
    BY <1>1
  <2>2. IsFiniteSet(I) /\ Cardinality(I) = IF 1 > N THEN 0 ELSE N - 1 + 1
    BY <2>1, FS_Interval, Zenon
  <2> QED
    BY <1>1, <2>2
<1>4. below \in [I -> SUBSET I] /\ \A x, y \in I : x \in below[y] <=> s[x] > s[y]
  OBVIOUS
<1> HIDE DEF below, I, N
<1>5. Ordered(I, below)
  <2>1. ASSUME NEW x \in I, NEW y \in I, x \in below[y]
        PROVE  below[x] \subseteq below[y]
    <3>1. \A z \in I : z \in below[x] => z \in below[y]
      BY <1>1, <1>4, <2>1
    <3> QED
      BY <1>4, <3>1
  <2>2. \A x \in I : x \notin below[x]
    BY <1>1, <1>4
  <2>3. \A x, y \in I : x # y => x \in below[y] \/ y \in below[x]
    BY <1>1, <1>2, <1>4
  <2> QED
    BY <1>4, <2>1, <2>2, <2>3 DEF Ordered
<1>6. Ranked(I, below)
  BY <1>3, <1>5, Ranks
<1>7. \A x \in I : Rank(below, x) \in 1..N
  BY <1>3, <1>6 DEF Ranked
<1>8. \A x, y \in I : s[x] > s[y] => Rank(below, x) < Rank(below, y)
  BY <1>4, <1>6 DEF Ranked
<1> DEFINE Chosen(k) == CHOOSE x \in I : Rank(below, x) = k
<1>9. ASSUME NEW k \in I
      PROVE  d[k] = s[Chosen(k)]
  <2> DEFINE Here(x) == Cardinality({j \in I : s[j] > s[x] \/ (s[j] = s[x] /\ j < x)}) = k - 1
  <2>1. d[k] = s[CHOOSE x \in I : Here(x)]
    BY <1>1 DEF R!Descending, R!Cardinality, Cardinality
  <2>2. \A x \in I : Here(x) <=> Rank(below, x) = k
    <3> SUFFICES ASSUME NEW x \in I PROVE Here(x) <=> Rank(below, x) = k
      OBVIOUS
    <3> DEFINE B == {j \in I : s[j] > s[x] \/ (s[j] = s[x] /\ j < x)}
               c == Cardinality(B)
    <3>0. \A j \in I : ~(s[j] = s[x] /\ j < x)
      BY <1>1, <1>2 DEF I
    <3>1. B = below[x]
      BY <1>4, <3>0
    <3>2. below[x] \in SUBSET I
      BY <1>4
    <3>3. Cardinality(below[x]) \in Nat
      BY <1>3, <3>2, FS_Subset, FS_CardinalityType
    <3>4. c = Cardinality(below[x])
      BY <3>1
    <3> HIDE DEF c, B
    <3>5. Rank(below, x) = c + 1 /\ c \in Nat
      BY <3>3, <3>4 DEF Rank
    <3>6. k \in Int
      BY <1>1 DEF I
    <3>7. c = k - 1 <=> Rank(below, x) = k
      BY <3>5, <3>6
    <3> QED
      BY <3>7 DEF c, B
  <2> HIDE DEF Here
  <2>3. (CHOOSE x \in I : Here(x)) = Chosen(k)
    BY <2>2
  <2> QED
    BY <2>1, <2>3
<1>10. \A k \in I : Chosen(k) \in I /\ Rank(below, Chosen(k)) = k
  <2>1. \A k \in I : \E x \in I : Rank(below, x) = k
    BY <1>3, <1>6 DEF Ranked, I
  <2> QED
    BY <2>1
<1>11. DOMAIN d = I /\ d \in Seq(Int)
  <2>1. DOMAIN d = I /\ d = [k \in I |-> d[k]]
    BY <1>1 DEF R!Descending
  <2>2. \A k \in I : d[k] \in Int
    BY <1>1, <1>9, <1>10
  <2> HIDE DEF d
  <2>3. d \in [I -> Int]
    BY <2>1, <2>2
  <2> QED
    BY <1>1, <2>1, <2>3 DEF I
<1> HIDE DEF d, Chosen
<1>12. ASSUME NEW i \in I, NEW j \in I, i < j
       PROVE  d[i] > d[j]
  <2>1. Chosen(i) \in I /\ Chosen(j) \in I /\ Rank(below, Chosen(i)) = i /\ Rank(below, Chosen(j)) = j
    BY <1>10
  <2>2. i \in Int /\ j \in Int
    BY <1>1 DEF I
  <2>3. s[Chosen(j)] > s[Chosen(i)] => j < i
    BY <1>8, <2>1
  <2>4. s[Chosen(i)] # s[Chosen(j)]
    <3>1. Chosen(i) # Chosen(j)
      BY <1>12, <2>1, <2>2
    <3> QED
      BY <1>2, <2>1, <3>1
  <2>5. s[Chosen(i)] \in Int /\ s[Chosen(j)] \in Int
    BY <1>1, <2>1
  <2> QED
    BY <1>9, <1>12, <2>2, <2>3, <2>4, <2>5
<1>13. ASSUME NEW x \in I
       PROVE  \E k \in I : d[k] = s[x]
  <2> DEFINE k == Rank(below, x)
  <2>1. k \in I
    BY <1>7 DEF I
  <2> HIDE DEF k
  <2>2. Chosen(k) \in I /\ Rank(below, Chosen(k)) = k
    BY <1>10, <2>1
  <2>3. (s[Chosen(k)] > s[x] => k < k) /\ (s[x] > s[Chosen(k)] => k < k)
    BY <1>8, <2>2 DEF k
  <2>4. s[Chosen(k)] \in Int /\ s[x] \in Int /\ k \in Int
    BY <1>1, <2>1, <2>2 DEF I
  <2>5. s[Chosen(k)] = s[x]
    BY <2>3, <2>4
  <2> QED
    BY <1>9, <2>1, <2>5
<1>14. Of(d) = Of(s)
  <2>1. \A k \in I : d[k] \in Of(s)
    BY <1>1, <1>9, <1>10 DEF Of
  <2>2. \A x \in I : s[x] \in Of(d)
    BY <1>11, <1>13 DEF Of
  <2> QED
    BY <1>1, <1>11, <2>1, <2>2 DEF Of
<1> QED
  BY <1>11, <1>12, <1>14 DEF d, Falling

\* C has the k greatest of S, or all of S.
Top(C, S, k) ==
  /\ C \subseteq S
  /\ C = S \/ Cardinality(C) = k
  /\ \A c \in C : \A u \in S \ C : c > u

\* What is left of a falling sequence when it is cut.
LEMMA Cutting ==
  ASSUME NEW s \in Seq(Int), Falling(s), NEW k \in Nat
  PROVE  LET c == R!Cut(s, k) IN c \in Seq(Int) /\ Falling(c) /\ Top(Of(c), Of(s), k)
<1> DEFINE c == R!Cut(s, k)
<1>1. CASE k < Len(s)
  <2>1. c \in Seq(Int) /\ Len(c) = k /\ DOMAIN c = 1..k /\ \A i \in 1..k : c[i] = s[i]
    BY <1>1 DEF R!Cut
  <2> HIDE DEF c
  <2>2. Falling(c)
    BY <1>1, <2>1 DEF Falling
  <2>3. Of(c) \subseteq Of(s)
    BY <1>1, <2>1 DEF Of
  <2>4. ASSUME NEW a \in Of(c), NEW u \in Of(s) \ Of(c)
        PROVE  a > u
    <3>1. PICK i \in 1..k : a = s[i]
      BY <2>1 DEF Of
    <3>2. PICK j \in 1..Len(s) : u = s[j]
      BY DEF Of
    <3>3. j \notin 1..k
      BY <2>1, <3>2 DEF Of
    <3>4. i < j /\ i \in 1..Len(s)
      BY <1>1, <3>3
    <3> QED
      BY <3>1, <3>2, <3>4 DEF Falling
  <2>5. Cardinality(Of(c)) = k
    <3>1. c \in [1..k -> Of(c)] /\ \A x \in Of(c) : \E i \in 1..k : c[i] = x
      BY <2>1 DEF Of
    <3>2. ASSUME NEW i \in 1..k, NEW j \in 1..k, c[i] = c[j]
          PROVE  i = j
      <4>1. c[i] \in Int /\ c[j] \in Int /\ i \in Int /\ j \in Int
        BY <2>1
      <4>2. (i < j => c[i] > c[j]) /\ (j < i => c[j] > c[i])
        BY <2>1, <2>2 DEF Falling
      <4> QED
        BY <3>2, <4>1, <4>2
    <3>3. c \in Bijection(1..k, Of(c))
      BY <3>1, <3>2, Zenon DEF Bijection, Injection, Surjection, IsInjective
    <3>4. IsFiniteSet(1..k) /\ Cardinality(1..k) = k
      <4>1. 1 \in Int /\ k \in Int
        OBVIOUS
      <4>2. IsFiniteSet(1..k) /\ Cardinality(1..k) = IF 1 > k THEN 0 ELSE k - 1 + 1
        BY <4>1, FS_Interval, Zenon
      <4> QED
        BY <4>2
    <3>5. ExistsBijection(1..k, Of(c))
      BY <3>3, Zenon DEF ExistsBijection
    <3> QED
      BY <3>4, <3>5, FS_Bijection
  <2> QED
    BY <2>1, <2>2, <2>3, <2>4, <2>5 DEF Top, c
<1>2. CASE ~(k < Len(s))
  <2>1. c = s
    BY <1>2 DEF R!Cut
  <2> QED
    BY <2>1 DEF Top
<1> QED
  BY <1>1, <1>2

\* No more is lost by a cut than what comes after a whole page.
LEMMA Counting ==
  ASSUME NEW S \in SUBSET Int, IsFiniteSet(S), NEW C, NEW k \in Nat, Top(C, S, k),
         NEW p \in Nat, p <= k, NEW t \in Int,
         t \in S \ C \/ Cardinality({u \in S : u > t}) >= p
  PROVE  Cardinality({u \in C : u > t}) >= p
<1>1. C \in SUBSET S /\ \A x \in S : x \in Int
  BY DEF Top
<1>2. CASE C = S
  BY <1>2
<1>3. CASE C # S /\ \E v \in S \ C : v >= t
  <2>1. PICK v \in S \ C : v >= t
    BY <1>3
  <2>2. \A c \in C : c > t
    BY <1>1, <2>1 DEF Top
  <2>3. {u \in C : u > t} = C
    BY <2>2
  <2> QED
    BY <1>3, <2>3 DEF Top
<1>4. CASE C # S /\ \A v \in S \ C : ~(v >= t)
  <2>1. \A v \in S \ C : v \in Int /\ ~(v > t) /\ v # t
    BY <1>1, <1>4
  <2>2. \A u \in S : u > t => u \in C
    BY <2>1
  <2>3. {u \in S : u > t} = {u \in C : u > t} /\ t \notin S \ C
    BY <1>1, <2>1, <2>2
  <2> QED
    BY <2>3
<1> QED
  BY <1>2, <1>3, <1>4

LEMMA NewestCut ==
  ASSUME NEW S \in SUBSET Int, IsFiniteSet(S), NEW k \in Nat
  PROVE  LET c == R!Cut(R!NewestFirst(S), k) IN c \in Seq(Int) /\ Falling(c) /\ Top(Of(c), S, k)
<1> DEFINE s == R!NewestFirst(S)
<1>1. s \in Seq(S) /\ Falling(s) /\ Of(s) = S
  BY Newest
<1> HIDE DEF s
<1>2. s \in Seq(Int)
  <2>1. Len(s) \in Nat /\ DOMAIN s = 1..Len(s) /\ s \in [1..Len(s) -> S]
    BY <1>1
  <2>2. \A x \in S : x \in Int
    OBVIOUS
  <2>3. s \in [1..Len(s) -> Int]
    BY <2>1, <2>2
  <2> QED
    BY <2>1, <2>3
<1>3. R!Cut(s, k) \in Seq(Int) /\ Falling(R!Cut(s, k)) /\ Top(Of(R!Cut(s, k)), Of(s), k)
  BY <1>1, <1>2, Cutting
<1> QED
  BY <1>1, <1>3 DEF s

-----------------------------------------------------------------------------
(* The usage page: what a list holds at each step of its request *)

Fields == {"step", "op", "byDay", "limit", "model", "from", "left", "rows", "buckets", "remote",
           "answered", "began"}

PageSize == IF query.limit \in 1..ListMax THEN query.limit ELSE ListDefault

\* As many events after t as a page has are shown.
Crowded(shown, t) == Cardinality({u \in shown : u > t}) >= PageSize

AskedOK ==
  /\ DOMAIN query = Fields
  /\ query.step \in {"local", "peers", "pull", "done"}
  /\ query.limit \in Int /\ query.began \in 0..R!Now
  /\ query.left \subseteq Peers /\ query.answered \subseteq Peers /\ query.left \cap query.answered = {}
  /\ query.step \in {"local", "peers"} => query.answered = {}

\* The rows of the hub, none before they are read, and the newest there were afterwards.
RowsInv ==
  /\ query.rows \in Seq(Int) /\ Falling(query.rows)
  /\ query.step # "done" => \A r \in Of(query.rows) : r \in R!At("hub")
  /\ query.step \in {"peers", "pull"} =>
       \A t \in R!Due : events[t].source = "hub" => t \in Of(query.rows) \/ Crowded(Of(query.rows), t)

\* The rows of the regions that have answered: each row once, and all but what a region
\* does not report.
RemoteInv ==
  /\ query.remote \in Seq(Int) /\ Injective(query.remote)
  /\ \A r \in Of(query.remote) : r \in 1..R!Now /\ events[r].source \in query.answered
  /\ \A t \in R!Due : events[t].source \in query.answered => t \in Of(query.remote) \/ ~R!Reported(t)

\* The answer, whose rows are sorted and cut once more when regions have sent any.
DoneInv ==
  query.step = "done" =>
    \A t \in R!Due : t \in Of(query.rows) \/ ~R!Reported(t) \/ Crowded(Of(query.rows), t)

EventsOK == events \in Seq([source : {"hub"} \cup Peers, model : Models])
PageInv ==
  /\ EventsOK
  /\ query = R!NoQuery \/ (AskedOK /\ (query.op = "list" => RowsInv /\ RemoteInv /\ DoneInv))

\* The events there are.
LEMMA Stored ==
  ASSUME EventsOK
  PROVE  /\ R!Now \in Nat /\ IsFiniteSet(1..R!Now) /\ 1..R!Now \in SUBSET Int
         /\ \A t \in 1..R!Now : events[t].source \in {"hub"} \cup Peers
<1>1. R!Now \in Nat
  BY DEF EventsOK, R!Now
<1>2. 1 \in Int /\ R!Now \in Int
  BY <1>1
<1>3. IsFiniteSet(1..R!Now)
  BY <1>2, FS_Interval, Zenon
<1>4. \A t \in 1..R!Now : events[t] \in [source : {"hub"} \cup Peers, model : Models]
  <2> DEFINE T == [source : {"hub"} \cup Peers, model : Models]
  <2>1. events \in Seq(T) /\ R!Now = Len(events)
    BY DEF EventsOK, R!Now
  <2> HIDE DEF T
  <2>2. \A t \in 1..R!Now : events[t] \in T
    BY <2>1
  <2> QED
    BY <2>2 DEF T
<1> QED
  BY <1>1, <1>3, <1>4

LEMMA Joining ==
  ASSUME NEW s \in Seq(Int), NEW u \in Seq(Int), Injective(s), Injective(u), Of(s) \cap Of(u) = {}
  PROVE  s \o u \in Seq(Int) /\ Injective(s \o u) /\ Of(s \o u) = Of(s) \cup Of(u)
<1> DEFINE j == s \o u
           m == Len(s)
           n == Len(u)
<1>1. m \in Nat /\ n \in Nat /\ DOMAIN s = 1..m /\ DOMAIN u = 1..n
  OBVIOUS
<1>2. j \in Seq(Int) /\ DOMAIN j = 1..m + n
  OBVIOUS
<1>3. (\A i \in 1..m : j[i] = s[i]) /\ (\A i \in 1..n : j[m + i] = u[i])
  OBVIOUS
<1>4. \A i \in DOMAIN j : i \in 1..m \/ (i - m \in 1..n /\ m + (i - m) = i)
  BY <1>1, <1>2
<1> HIDE DEF j, m, n
<1>5. \A i \in DOMAIN j : (i \in 1..m /\ j[i] = s[i]) \/ (i - m \in 1..n /\ j[i] = u[i - m])
  BY <1>3, <1>4
<1>6. (\A i \in 1..m : s[i] \in Of(s)) /\ (\A i \in 1..n : u[i] \in Of(u))
  BY <1>1 DEF Of
<1>7. Of(j) = Of(s) \cup Of(u)
  <2>1. \A i \in DOMAIN j : j[i] \in Of(s) \cup Of(u)
    BY <1>5, <1>6
  <2>2. ASSUME NEW x \in Of(s) PROVE x \in Of(j)
    <3>1. PICK i \in 1..m : x = s[i]
      BY <1>1 DEF Of
    <3>2. i \in DOMAIN j
      BY <1>1, <1>2
    <3> QED
      BY <1>3, <3>1, <3>2 DEF Of
  <2>3. ASSUME NEW x \in Of(u) PROVE x \in Of(j)
    <3>1. PICK i \in 1..n : x = u[i]
      BY <1>1 DEF Of
    <3>2. m + i \in DOMAIN j
      BY <1>1, <1>2
    <3> QED
      BY <1>3, <3>1, <3>2 DEF Of
  <2> QED
    BY <2>1, <2>2, <2>3 DEF Of
<1>8. ASSUME NEW i \in DOMAIN j, NEW k \in DOMAIN j, j[i] = j[k]
      PROVE  i = k
  <2>1. CASE i \in 1..m /\ j[i] = s[i]
    <3>1. j[k] \in Of(s)
      BY <1>6, <1>8, <2>1
    <3>2. k \in 1..m /\ j[k] = s[k]
      BY <1>5, <1>6, <3>1
    <3> QED
      BY <1>1, <1>8, <2>1, <3>2 DEF Injective
  <2>2. CASE i - m \in 1..n /\ j[i] = u[i - m]
    <3>1. j[k] \in Of(u)
      BY <1>6, <1>8, <2>2
    <3>2. k - m \in 1..n /\ j[k] = u[k - m]
      BY <1>5, <1>6, <3>1
    <3>3. i - m = k - m
      BY <1>1, <1>8, <2>2, <3>2 DEF Injective
    <3> QED
      BY <1>1, <1>2, <3>3
  <2> QED
    BY <1>5, <2>1, <2>2
<1> QED
  BY <1>2, <1>7, <1>8 DEF j, Injective

LEMMA FallingInjective ==
  ASSUME NEW s \in Seq(Int), Falling(s)
  PROVE  Injective(s)
<1> SUFFICES ASSUME NEW i \in DOMAIN s, NEW j \in DOMAIN s, s[i] = s[j] PROVE i = j
  BY DEF Injective
<1>1. s[i] \in Int /\ s[j] \in Int /\ i \in Int /\ j \in Int
  OBVIOUS
<1>2. (i < j => s[i] > s[j]) /\ (j < i => s[j] > s[i])
  BY DEF Falling
<1> QED
  BY <1>1, <1>2

LEMMA PageInit == R!Init => PageInv
<1>1. R!Init => EventsOK /\ query = R!NoQuery
  BY DEF R!Init, EventsOK
<1> QED
  BY <1>1 DEF PageInv

\* An event more: what was due is due, and what was not reported is not.
LEMMA InsertStep == PageInv /\ R!InsertRecord => PageInv'
<1> SUFFICES ASSUME PageInv, R!InsertRecord PROVE PageInv'
  OBVIOUS
<1>1. EventsOK /\ query' = query
  BY DEF PageInv, R!InsertRecord
<1>2. PICK e \in [source : {"hub"} \cup Peers, model : Models] : events' = Append(events, e)
  BY DEF R!InsertRecord, R!Hub
<1>3. EventsOK' /\ Len(events) \in Nat /\ Len(events') = Len(events) + 1 /\ \A t \in 1..Len(events) : events'[t] = events[t]
  BY <1>1, <1>2 DEF EventsOK
<1>4. R!Now \in Nat /\ R!Now' = R!Now + 1 /\ \A t \in 1..R!Now : t \in 1..R!Now' /\ events'[t] = events[t]
  BY <1>3 DEF R!Now
<1>5. CASE query = R!NoQuery
  BY <1>1, <1>3, <1>5 DEF PageInv, R!NoQuery
<1>6. CASE AskedOK
  <2>1. AskedOK'
    BY <1>1, <1>4, <1>6 DEF AskedOK
  <2>2. R!Due' = R!Due /\ \A t \in R!Due : t \in 1..R!Now
    <3>1. \A t \in 1..query.began : t \in 1..R!Now
      BY <1>4, <1>6 DEF AskedOK
    <3>2. \A t \in 1..query.began : R!Wanted(t) <=> R!Wanted(t)'
      BY <1>1, <1>4, <3>1 DEF R!Wanted, R!AnyModel
    <3>3. R!Due \subseteq 1..query.began /\ R!Due' \subseteq 1..query.began
      BY <1>1 DEF R!Due
    <3>4. \A t \in 1..query.began : t \in R!Due <=> t \in R!Due'
      BY <1>1, <1>4, <3>1, <3>2 DEF R!Due, R!Hub
    <3> QED
      BY <3>1, <3>3, <3>4
  <2>3. ASSUME NEW t \in 1..R!Now, R!Reported(t)' PROVE R!Reported(t)
    <3> DEFINE src == events[t].source
               old == {u \in R!At(src) : u > t}
               new == {u \in (R!At(src))' : u > t}
    <3>1. events'[t] = events[t]
      BY <1>4
    <3>2. old \subseteq new
      BY <1>4 DEF R!At
    <3>3. IsFiniteSet(new)
      <4>1. IsFiniteSet((1..R!Now)')
        BY <1>3, Stored, <1>4, FS_Interval
      <4>2. new \in SUBSET ((1..R!Now)')
        BY DEF R!At
      <4> QED
        BY <4>1, <4>2, FS_Subset
    <3>4. Cardinality(old) \in Nat /\ Cardinality(new) \in Nat /\ Cardinality(old) <= Cardinality(new)
      BY <3>2, <3>3, FS_Subset, FS_CardinalityType
    <3>5. R!Reported(t) <=> src = "hub" \/ Cardinality(old) < ReportMax
      BY DEF R!Reported, R!Cardinality, Cardinality, R!Hub
    <3>6. R!Reported(t)' <=> src = "hub" \/ Cardinality(new) < ReportMax
      BY <3>1 DEF R!Reported, R!Cardinality, Cardinality, R!Hub
    <3>7. ReportMax \in Nat
      BY UsageAssumption
    <3> HIDE DEF old, new
    <3> QED
      BY <2>3, <3>4, <3>5, <3>6, <3>7
  <2>4. \A r \in R!At("hub") : r \in (R!At("hub"))'
    BY <1>4 DEF R!At
  <2>5. ASSUME RowsInv PROVE RowsInv'
    BY <1>1, <1>4, <2>2, <2>4, <2>5 DEF RowsInv, Crowded, PageSize
  <2>6. ASSUME RemoteInv PROVE RemoteInv'
    BY <1>1, <1>4, <2>2, <2>3, <2>6 DEF RemoteInv
  <2>7. ASSUME DoneInv PROVE DoneInv'
    BY <1>1, <2>2, <2>3, <2>7 DEF DoneInv, Crowded, PageSize
  <2> QED
    BY <1>1, <1>3, <1>5, <2>1, <2>5, <2>6, <2>7 DEF PageInv
<1> QED
  BY <1>5, <1>6 DEF PageInv

LEMMA AskStep == PageInv /\ R!Ask => PageInv'
<1> SUFFICES ASSUME PageInv, R!Ask PROVE PageInv'
  OBVIOUS
<1>1. EventsOK /\ events' = events /\ R!Now \in Nat
  BY Stored DEF PageInv, R!Ask
<1>2. PICK op, byDay, limit, model, from :
        query' = R!parseUsageFilter(op, byDay, limit, model, from) /\ (limit \in Limits \/ limit = 0)
  BY DEF R!Ask
<1>3. \A l \in Limits : l \in Int
  BY UsageAssumption
<1>4. limit \in Int
  BY <1>2, <1>3
<1>5. /\ DOMAIN query' = Fields /\ query'.step = "local" /\ query'.limit = limit /\ query'.began = R!Now
      /\ query'.left = {} /\ query'.answered = {} /\ query'.rows = <<>> /\ query'.remote = <<>>
  BY <1>2 DEF Fields, R!parseUsageFilter
<1>6. EventsOK' /\ R!Now' = R!Now
  BY <1>1 DEF EventsOK, R!Now
<1>7. AskedOK'
  BY <1>1, <1>4, <1>5, <1>6 DEF AskedOK
<1>8. Of(<<>>) = {} /\ Falling(<<>>) /\ Injective(<<>>) /\ <<>> \in Seq(Int)
  BY DEF Of, Falling, Injective
<1>9. RowsInv' /\ RemoteInv' /\ DoneInv'
  BY <1>5, <1>8 DEF RowsInv, RemoteInv, DoneInv
<1> QED
  BY <1>6, <1>7, <1>9 DEF PageInv

\* A page's list, as the hub has it: no event of the hub is left out but for a whole page
\* of newer ones.
LEMMA LocalList ==
  ASSUME EventsOK, AskedOK
  PROVE  /\ R!List \in Seq(Int) /\ Falling(R!List)
         /\ \A r \in Of(R!List) : r \in R!At("hub")
         /\ \A t \in R!Due : events[t].source = "hub" => t \in Of(R!List) \/ Crowded(Of(R!List), t)
<1> DEFINE S == {t \in R!At("hub") : R!usageWhere(t)}
           k == PageSize
<1>1. R!List = R!Cut(R!NewestFirst(S), k)
  BY DEF R!List, PageSize, R!Hub
<1>2. k \in Nat
  BY UsageAssumption DEF AskedOK, PageSize
<1>3. S \in SUBSET (1..R!Now)
  BY DEF R!At
<1>4. IsFiniteSet(S) /\ S \in SUBSET Int
  BY <1>3, Stored, FS_Subset
<1>5. \A t \in R!Due : t \in Int /\ (events[t].source = "hub" => t \in S)
  <2> SUFFICES ASSUME NEW t \in R!Due PROVE t \in Int /\ (events[t].source = "hub" => t \in S)
    OBVIOUS
  <2>1. t \in 1..query.began /\ R!Wanted(t)
    BY DEF R!Due
  <2>2. t \in 1..R!Now /\ t \in Int
    BY <2>1, Stored DEF AskedOK
  <2>3. R!usageWhere(t)
    BY <2>1 DEF R!Wanted, R!usageWhere
  <2> QED
    BY <2>2, <2>3 DEF R!At
<1>6. \A r \in S : r \in R!At("hub")
  OBVIOUS
<1> HIDE DEF S, k
<1> DEFINE c == R!Cut(R!NewestFirst(S), k)
<1>7. c \in Seq(Int) /\ Falling(c) /\ Top(Of(c), S, k)
  BY <1>2, <1>4, NewestCut
<1> HIDE DEF c
<1>8. ASSUME NEW t \in R!Due, events[t].source = "hub", t \notin Of(c)
      PROVE  Crowded(Of(c), t)
  <2>1. t \in S \ Of(c) /\ t \in Int
    BY <1>5, <1>8
  <2> DEFINE C == Of(c)
  <2>2. Top(C, S, k) /\ k <= k /\ (t \in S \ C \/ Cardinality({u \in S : u > t}) >= k)
    BY <1>2, <1>7, <2>1
  <2> HIDE DEF C
  <2>3. Cardinality({u \in C : u > t}) >= k
    BY <1>2, <1>4, <2>1, <2>2, Counting
  <2> QED
    BY <2>3 DEF Crowded, k, C
<1>9. \A r \in Of(c) : r \in R!At("hub")
  BY <1>6, <1>7 DEF Top
<1> QED
  BY <1>1, <1>7, <1>8, <1>9 DEF c

LEMMA ReadLocalStep == PageInv /\ R!ReadLocal => PageInv'
<1> SUFFICES ASSUME PageInv, R!ReadLocal PROVE PageInv'
  OBVIOUS
<1>1. EventsOK /\ events' = events /\ query.step = "local"
  BY DEF PageInv, R!ReadLocal
<1>2. query # R!NoQuery
  BY <1>1 DEF R!NoQuery
<1>3. AskedOK /\ (query.op = "list" => RowsInv /\ RemoteInv /\ DoneInv)
  BY <1>2 DEF PageInv
<1>4. EventsOK' /\ R!Now' = R!Now
  BY <1>1 DEF EventsOK, R!Now
<1>5. CASE query' = R!NoQuery
  BY <1>4, <1>5 DEF PageInv, R!NoQuery
<1>6. CASE query.op = "list" /\ query' = [query EXCEPT !.step = "peers", !.rows = R!List]
  <2>1. /\ DOMAIN query' = Fields /\ query'.step = "peers" /\ query'.rows = R!List
        /\ query'.limit = query.limit /\ query'.began = query.began /\ query'.left = query.left
        /\ query'.answered = query.answered /\ query'.remote = query.remote
        /\ query'.model = query.model /\ query'.from = query.from
    BY <1>3, <1>6 DEF AskedOK, Fields
  <2>2. AskedOK'
    BY <1>1, <1>3, <1>4, <2>1 DEF AskedOK
  <2>3. R!Due' = R!Due /\ (\A r : R!Reported(r)' <=> R!Reported(r)) /\ PageSize' = PageSize
    BY <1>1, <2>1 DEF R!Due, R!Wanted, R!Reported, R!At, R!Now, PageSize
  <2>4. R!List \in Seq(Int) /\ Falling(R!List)
    BY <1>1, <1>3, LocalList
  <2>5. \A r \in Of(R!List) : r \in R!At("hub")
    BY <1>1, <1>3, LocalList
  <2>6. \A t \in R!Due : events[t].source = "hub" => t \in Of(R!List) \/ Crowded(Of(R!List), t)
    BY <1>1, <1>3, LocalList
  <2>7. R!At("hub")' = R!At("hub")
    BY <1>1 DEF R!At, R!Now
  <2>8. RowsInv'
    BY <1>1, <2>1, <2>3, <2>4, <2>5, <2>6, <2>7 DEF RowsInv, Crowded
  <2>9. RemoteInv'
    BY <1>1, <1>3, <1>4, <1>6, <2>1, <2>3 DEF RemoteInv
  <2>10. DoneInv'
    BY <2>1 DEF DoneInv
  <2> QED
    BY <1>4, <2>2, <2>8, <2>9, <2>10 DEF PageInv
<1>7. CASE query.op = "summary" /\ query' = [query EXCEPT !.step = "peers", !.buckets = R!Summarize]
  <2>1. /\ DOMAIN query' = Fields /\ query'.step = "peers" /\ query'.op = "summary"
        /\ query'.limit = query.limit /\ query'.began = query.began /\ query'.left = query.left
        /\ query'.answered = query.answered
    BY <1>3, <1>7 DEF AskedOK, Fields
  <2>2. AskedOK'
    BY <1>1, <1>3, <1>4, <2>1 DEF AskedOK
  <2> QED
    BY <1>4, <2>1, <2>2 DEF PageInv
<1> QED
  BY <1>5, <1>6, <1>7 DEF R!ReadLocal

\* What the request was for is what it is for, and so what is due of the hub.
LEMMA ListPeersStep == PageInv /\ R!ListPeers => PageInv'
<1> SUFFICES ASSUME PageInv, R!ListPeers PROVE PageInv'
  OBVIOUS
<1>1. EventsOK /\ events' = events /\ query.step = "peers"
  BY DEF PageInv, R!ListPeers
<1>2. query # R!NoQuery
  BY <1>1 DEF R!NoQuery
<1>3. AskedOK /\ (query.op = "list" => RowsInv /\ RemoteInv /\ DoneInv)
  BY <1>2 DEF PageInv
<1>4. EventsOK' /\ R!Now' = R!Now
  BY <1>1 DEF EventsOK, R!Now
<1>5. PICK S \in SUBSET Peers : query' = [query EXCEPT !.step = "pull", !.left = S]
  BY DEF R!ListPeers
<1>6. /\ DOMAIN query' = Fields /\ query'.step = "pull" /\ query'.left = S /\ query'.op = query.op
      /\ query'.limit = query.limit /\ query'.began = query.began /\ query'.rows = query.rows
      /\ query'.answered = query.answered /\ query'.remote = query.remote
      /\ query'.model = query.model /\ query'.from = query.from
  BY <1>3, <1>5 DEF AskedOK, Fields
<1>7. AskedOK'
  BY <1>1, <1>3, <1>4, <1>6 DEF AskedOK
<1>8. R!Due' = R!Due /\ (\A r : R!Reported(r)' <=> R!Reported(r)) /\ PageSize' = PageSize
  BY <1>1, <1>6 DEF R!Due, R!Wanted, R!Reported, R!At, R!Now, PageSize
<1>9. R!At("hub")' = R!At("hub")
  BY <1>1 DEF R!At, R!Now
<1>10. query.op = "list" => RowsInv' /\ RemoteInv' /\ DoneInv'
  <2> SUFFICES ASSUME query.op = "list" PROVE RowsInv' /\ RemoteInv' /\ DoneInv'
    OBVIOUS
  <2>1. RowsInv'
    BY <1>1, <1>3, <1>6, <1>8, <1>9 DEF RowsInv, Crowded
  <2>2. RemoteInv'
    BY <1>1, <1>3, <1>4, <1>6, <1>8 DEF RemoteInv
  <2> QED
    BY <1>6, <2>1, <2>2 DEF DoneInv
<1> QED
  BY <1>4, <1>6, <1>7, <1>10 DEF PageInv

\* What a region sends: each of its events once, and all that match but those it has
\* ReportMax newer ones than.
LEMMA Report ==
  ASSUME EventsOK, AskedOK, NEW p \in Peers
  PROVE  LET new == R!NewestFirst({t \in R!ToSet(R!ListReportsSince(p)) : R!usageMatchesFilter(t)}) IN
           /\ new \in Seq(Int) /\ Injective(new)
           /\ \A r \in Of(new) : r \in R!At(p)
           /\ \A t \in 1..query.began : events[t].source = p /\ R!Wanted(t) => t \in Of(new) \/ ~R!Reported(t)
<1> DEFINE S == {t \in R!At(p) : t >= query.from}
           c == R!Cut(R!NewestFirst(S), ReportMax)
           C == Of(c)
           T == {t \in C : R!usageMatchesFilter(t)}
           new == R!NewestFirst(T)
<1>1. {t \in R!ToSet(R!ListReportsSince(p)) : R!usageMatchesFilter(t)} = T
  BY DEF R!ListReportsSince, R!ToSet, Of
<1>2. S \in SUBSET (1..R!Now) /\ S \subseteq R!At(p)
  BY DEF R!At
<1>3. IsFiniteSet(S) /\ S \in SUBSET Int
  BY <1>2, Stored, FS_Subset
<1>4. \A t \in 1..query.began : events[t].source = p /\ R!Wanted(t) =>
        t \in Int /\ t \in S /\ R!usageMatchesFilter(t)
  <2> SUFFICES ASSUME NEW t \in 1..query.began, events[t].source = p, R!Wanted(t)
               PROVE  t \in Int /\ t \in S /\ R!usageMatchesFilter(t)
    OBVIOUS
  <2>1. t \in 1..R!Now /\ t \in Int
    BY Stored DEF AskedOK
  <2>2. query.from <= t
    BY DEF R!Wanted
  <2>3. R!usageMatchesFilter(t)
    BY <2>2 DEF R!Wanted, R!usageMatchesFilter
  <2> QED
    BY <2>1, <2>2, <2>3 DEF R!At
<1>5. ReportMax \in Nat
  BY UsageAssumption
<1> HIDE DEF S
<1>6. c \in Seq(Int) /\ Top(C, S, ReportMax)
  BY <1>3, <1>5, NewestCut
<1> HIDE DEF c, C
<1>7. T \subseteq S /\ \A t \in C : t \in T <=> R!usageMatchesFilter(t)
  BY <1>6 DEF Top
<1> HIDE DEF T
<1>8. IsFiniteSet(T) /\ T \in SUBSET Int
  BY <1>3, <1>7, FS_Subset
<1>9. new \in Seq(T) /\ Falling(new) /\ Of(new) = T
  BY <1>8, Newest
<1> HIDE DEF new
<1>10. new \in Seq(Int)
  <2>1. Len(new) \in Nat /\ DOMAIN new = 1..Len(new) /\ new \in [1..Len(new) -> T]
    BY <1>9
  <2>2. \A x \in T : x \in Int
    BY <1>8
  <2>3. new \in [1..Len(new) -> Int]
    BY <2>1, <2>2
  <2> QED
    BY <2>1, <2>3
<1>11. Injective(new)
  BY <1>9, <1>10, FallingInjective
<1>12. ASSUME NEW t \in 1..query.began, events[t].source = p, R!Wanted(t), t \notin T
       PROVE  ~R!Reported(t)
  <2>1. /\ t \in Int /\ ReportMax <= ReportMax
        /\ t \in S \ C \/ Cardinality({u \in S : u > t}) >= ReportMax
    BY <1>4, <1>5, <1>7, <1>12
  <2>2. Cardinality({u \in C : u > t}) >= ReportMax
    BY <1>3, <1>5, <1>6, <2>1, Counting
  <2> DEFINE few == {u \in C : u > t}
             many == {u \in R!At(p) : u > t}
  <2>3. few \subseteq many /\ many \in SUBSET (1..R!Now)
    BY <1>2, <1>6 DEF Top, R!At
  <2>4. IsFiniteSet(many)
    BY <2>3, Stored, FS_Subset
  <2>5. Cardinality(few) \in Nat /\ Cardinality(many) \in Nat /\ Cardinality(few) <= Cardinality(many)
    BY <2>3, <2>4, FS_Subset, FS_CardinalityType
  <2>6. R!Reported(t) <=> p = "hub" \/ Cardinality(many) < ReportMax
    BY <1>12 DEF R!Reported, R!Cardinality, Cardinality, R!Hub
  <2>7. p # "hub" /\ Cardinality(few) >= ReportMax
    BY <2>2, UsageAssumption
  <2> HIDE DEF few, many
  <2> QED
    BY <1>5, <2>5, <2>6, <2>7
<1>13. \A r \in Of(new) : r \in R!At(p)
  BY <1>2, <1>7, <1>9
<1> QED
  BY <1>1, <1>9, <1>10, <1>11, <1>12, <1>13 DEF new

LEMMA PullStep == ASSUME NEW p \in Peers, PageInv, R!Pull(p) PROVE PageInv'
<1> DEFINE new == R!NewestFirst({t \in R!ToSet(R!ListReportsSince(p)) : R!usageMatchesFilter(t)})
<1>1. EventsOK /\ events' = events /\ query.step = "pull" /\ p \in query.left
  BY DEF PageInv, R!Pull
<1>2. query # R!NoQuery
  BY <1>1 DEF R!NoQuery
<1>3. AskedOK /\ (query.op = "list" => RowsInv /\ RemoteInv /\ DoneInv)
  BY <1>2 DEF PageInv
<1>4. EventsOK' /\ R!Now' = R!Now
  BY <1>1 DEF EventsOK, R!Now
<1>5. \/ query' = [query EXCEPT !.left = @ \ {p}]
      \/ query' = [query EXCEPT !.left = @ \ {p}, !.answered = @ \cup {p}, !.remote = @ \o new]
  BY DEF R!Pull
<1> HIDE DEF new
<1>6. /\ DOMAIN query' = Fields /\ query'.step = "pull" /\ query'.left = query.left \ {p}
      /\ query'.op = query.op /\ query'.limit = query.limit /\ query'.began = query.began
      /\ query'.rows = query.rows /\ query'.model = query.model /\ query'.from = query.from
      /\ \/ query'.answered = query.answered /\ query'.remote = query.remote
         \/ query'.answered = query.answered \cup {p} /\ query'.remote = query.remote \o new
  BY <1>1, <1>3, <1>5 DEF AskedOK, Fields
<1>7. AskedOK'
  BY <1>1, <1>3, <1>4, <1>6 DEF AskedOK
<1>8. (\A r : R!Reported(r)' <=> R!Reported(r)) /\ (\A r : R!Wanted(r)' <=> R!Wanted(r)) /\ PageSize' = PageSize
  BY <1>1, <1>6 DEF R!Wanted, R!Reported, R!At, R!Now, PageSize
<1>9. R!At("hub")' = R!At("hub")
  BY <1>1 DEF R!At, R!Now
<1>10. \A t \in R!Due' : /\ t \in 1..query.began /\ R!Wanted(t)
                        /\ (events[t].source \in {"hub"} \cup query.answered => t \in R!Due)
  BY <1>1, <1>6, <1>8 DEF R!Due, R!Hub
<1>11. ASSUME RowsInv PROVE RowsInv'
  BY <1>1, <1>6, <1>8, <1>9, <1>10, <1>11 DEF RowsInv, Crowded
<1>12. ASSUME RemoteInv, query'.answered = query.answered, query'.remote = query.remote
       PROVE  RemoteInv'
  BY <1>1, <1>4, <1>6, <1>8, <1>10, <1>12 DEF RemoteInv
<1>13. ASSUME RemoteInv, query'.answered = query.answered \cup {p}, query'.remote = query.remote \o new
       PROVE  RemoteInv'
  <2>1. new \in Seq(Int) /\ Injective(new)
    BY <1>1, <1>3, Report DEF new
  <2>2. \A r \in Of(new) : r \in R!At(p)
    BY <1>1, <1>3, Report DEF new
  <2>3. \A t \in 1..query.began : events[t].source = p /\ R!Wanted(t) => t \in Of(new) \/ ~R!Reported(t)
    BY <1>1, <1>3, Report DEF new
  <2>4. p \notin query.answered
    BY <1>1, <1>3 DEF AskedOK
  <2>5. query.remote \in Seq(Int) /\ Injective(query.remote)
    BY <1>13 DEF RemoteInv
  <2>6. \A r \in Of(query.remote) : r \in 1..R!Now /\ events[r].source \in query.answered
    BY <1>13 DEF RemoteInv
  <2>7. Of(query.remote) \cap Of(new) = {}
    BY <2>2, <2>4, <2>6 DEF R!At
  <2>8. /\ query'.remote \in Seq(Int) /\ Injective(query'.remote)
        /\ Of(query'.remote) = Of(query.remote) \cup Of(new)
    BY <1>13, <2>1, <2>5, <2>7, Joining
  <2>9. \A r \in Of(query'.remote) : r \in 1..R!Now /\ events[r].source \in query'.answered
    BY <1>13, <2>2, <2>6, <2>8 DEF R!At
  <2>10. \A t \in R!Due' : events[t].source \in query'.answered => t \in Of(query'.remote) \/ ~R!Reported(t)
    BY <1>10, <1>13, <2>3, <2>8 DEF RemoteInv
  <2> QED
    BY <1>1, <1>4, <1>8, <2>8, <2>9, <2>10 DEF RemoteInv
<1>14. DoneInv'
  BY <1>6 DEF DoneInv
<1> QED
  BY <1>3, <1>4, <1>6, <1>7, <1>11, <1>12, <1>13, <1>14 DEF PageInv

\* The answer's rows, of the hub and of the regions that have answered.
LEMMA Merged ==
  ASSUME EventsOK, AskedOK, query.step = "pull", RowsInv, RemoteInv
  PROVE  LET c == R!mergeUsageEvents(query.rows, query.remote) IN
           /\ c \in Seq(Int) /\ Falling(c)
           /\ \A t \in R!Due : t \in Of(c) \/ ~R!Reported(t) \/ Crowded(Of(c), t)
<1> DEFINE j == query.rows \o query.remote
           k == IF query.limit <= 0 THEN ListDefault ELSE query.limit
           c == R!Cut(R!Descending(j), k)
           S == Of(query.rows) \cup Of(query.remote)
           C == Of(c)
<1>1. R!mergeUsageEvents(query.rows, query.remote) = c
  BY DEF R!mergeUsageEvents
<1>2. k \in Nat /\ PageSize \in Nat /\ PageSize <= k
  BY UsageAssumption DEF AskedOK, PageSize
<1>3. query.rows \in Seq(Int) /\ Falling(query.rows) /\ query.remote \in Seq(Int) /\ Injective(query.remote)
  BY DEF RowsInv, RemoteInv
<1>4. \A r \in Of(query.rows) : r \in 1..R!Now /\ events[r].source = "hub"
  BY DEF RowsInv, R!At
<1>5. \A r \in Of(query.remote) : r \in 1..R!Now /\ events[r].source \in Peers
  BY DEF RemoteInv, AskedOK
<1>6. Of(query.rows) \cap Of(query.remote) = {}
  BY <1>4, <1>5, UsageAssumption
<1>7. j \in Seq(Int) /\ Injective(j) /\ Of(j) = S
  BY <1>3, <1>6, Joining, FallingInjective
<1>8. IsFiniteSet(S) /\ S \in SUBSET Int
  <2>1. S \in SUBSET (1..R!Now)
    BY <1>4, <1>5
  <2> QED
    BY <2>1, Stored, FS_Subset
<1> HIDE DEF j, k, S
<1> DEFINE d == R!Descending(j)
<1>9. d \in Seq(Int) /\ Falling(d) /\ Of(d) = S
  BY <1>7, Sorted
<1> HIDE DEF d
<1>10. c \in Seq(Int) /\ Falling(c) /\ Top(C, S, k)
  <2>1. R!Cut(d, k) \in Seq(Int) /\ Falling(R!Cut(d, k)) /\ Top(Of(R!Cut(d, k)), Of(d), k)
    BY <1>2, <1>9, Cutting
  <2> QED
    BY <1>9, <2>1 DEF d
<1> HIDE DEF c, C
<1>11. ASSUME NEW t \in R!Due, t \notin C, R!Reported(t)
       PROVE  Crowded(C, t)
  <2>1. t \in Int /\ events[t].source \in {"hub"} \cup query.answered
    BY Stored DEF R!Due, AskedOK, R!Hub
  <2>2. t \in S \/ Crowded(Of(query.rows), t)
    BY <1>11, <2>1 DEF RowsInv, RemoteInv, S
  <2>3. Crowded(Of(query.rows), t) => Cardinality({u \in S : u > t}) >= PageSize
    <3> DEFINE few == {u \in Of(query.rows) : u > t}
               many == {u \in S : u > t}
    <3>1. few \subseteq many /\ many \in SUBSET S
      BY DEF S
    <3>2. IsFiniteSet(many)
      BY <1>8, <3>1, FS_Subset
    <3>3. Cardinality(few) \in Nat /\ Cardinality(many) \in Nat /\ Cardinality(few) <= Cardinality(many)
      BY <3>1, <3>2, FS_Subset, FS_CardinalityType
    <3>4. Crowded(Of(query.rows), t) <=> Cardinality(few) >= PageSize
      BY DEF Crowded
    <3> HIDE DEF few
    <3> QED
      BY <1>2, <3>3, <3>4
  <2>4. t \in S \ C \/ Cardinality({u \in S : u > t}) >= PageSize
    BY <1>11, <2>2, <2>3
  <2>5. Cardinality({u \in C : u > t}) >= PageSize
    BY <1>2, <1>8, <1>10, <2>1, <2>4, Counting
  <2> QED
    BY <2>5 DEF Crowded
<1> QED
  BY <1>1, <1>10, <1>11 DEF c, C

LEMMA AnswerStep == PageInv /\ R!Answer => PageInv'
<1> SUFFICES ASSUME PageInv, R!Answer PROVE PageInv'
  OBVIOUS
<1>1. EventsOK /\ events' = events /\ query.step = "pull"
  BY DEF PageInv, R!Answer
<1>2. query # R!NoQuery
  BY <1>1 DEF R!NoQuery
<1>3. AskedOK /\ (query.op = "list" => RowsInv /\ RemoteInv)
  BY <1>2 DEF PageInv
<1>4. EventsOK' /\ R!Now' = R!Now
  BY <1>1 DEF EventsOK, R!Now
<1>5. /\ DOMAIN query' = Fields /\ query'.step = "done" /\ query'.left = query.left
      /\ query'.op = query.op /\ query'.limit = query.limit /\ query'.began = query.began
      /\ query'.model = query.model /\ query'.from = query.from
      /\ query'.answered = query.answered /\ query'.remote = query.remote
      /\ query'.rows = IF query.op = "list" /\ query.remote # <<>>
                       THEN R!mergeUsageEvents(query.rows, query.remote) ELSE query.rows
  BY <1>3 DEF R!Answer, AskedOK, Fields
<1>6. AskedOK'
  BY <1>1, <1>3, <1>4, <1>5 DEF AskedOK
<1>7. R!Due' = R!Due /\ (\A r : R!Reported(r)' <=> R!Reported(r)) /\ PageSize' = PageSize
  BY <1>1, <1>5 DEF R!Due, R!Wanted, R!Reported, R!At, R!Now, PageSize
<1>8. ASSUME query.op = "list" PROVE RowsInv' /\ RemoteInv' /\ DoneInv'
  <2>1. RowsInv /\ RemoteInv
    BY <1>3, <1>8
  <2>2. /\ query'.rows \in Seq(Int) /\ Falling(query'.rows)
        /\ \A t \in R!Due : t \in Of(query'.rows) \/ ~R!Reported(t) \/ Crowded(Of(query'.rows), t)
    <3>1. CASE query.remote # <<>>
      BY <1>1, <1>3, <1>5, <1>8, <2>1, <3>1, Merged
    <3>2. CASE query.remote = <<>>
      <4>1. query'.rows = query.rows
        BY <1>5, <3>2
      <4>2. Of(query.remote) = {}
        BY <3>2 DEF Of
      <4>3. \A t \in R!Due : events[t].source \in {"hub"} \cup query.answered
        BY DEF R!Due, R!Hub
      <4> QED
        BY <1>1, <2>1, <4>1, <4>2, <4>3 DEF RowsInv, RemoteInv
    <3> QED
      BY <3>1, <3>2
  <2>3. RemoteInv'
    BY <1>1, <1>4, <1>5, <1>7, <2>1 DEF RemoteInv
  <2>4. RowsInv' /\ DoneInv'
    BY <1>5, <1>7, <2>2 DEF RowsInv, DoneInv, Crowded
  <2> QED
    BY <2>3, <2>4
<1> QED
  BY <1>4, <1>5, <1>6, <1>8 DEF PageInv

LEMMA PageStep == PageInv /\ R!Next => PageInv'
  BY InsertStep, AskStep, ReadLocalStep, ListPeersStep, PullStep, AnswerStep DEF R!Next

LEMMA PageIdle == PageInv /\ UNCHANGED page => PageInv'
<1> SUFFICES ASSUME PageInv, UNCHANGED page PROVE PageInv'
  OBVIOUS
<1>1. events' = events /\ query' = query
  BY DEF page
<1>2. /\ R!Now' = R!Now /\ R!At("hub")' = R!At("hub") /\ R!Due' = R!Due /\ PageSize' = PageSize
      /\ \A r : R!Reported(r)' <=> R!Reported(r)
  BY <1>1 DEF R!Now, R!At, R!Due, R!Wanted, R!Reported, PageSize
<1>3. (EventsOK => EventsOK') /\ (AskedOK => AskedOK')
  BY <1>1, <1>2 DEF EventsOK, AskedOK
<1>4. (RowsInv => RowsInv') /\ (RemoteInv => RemoteInv') /\ (DoneInv => DoneInv')
  BY <1>1, <1>2 DEF RowsInv, RemoteInv, DoneInv, Crowded
<1> QED
  BY <1>1, <1>3, <1>4 DEF PageInv, R!NoQuery

\* A list that is done is in order and, with DoneInv, has all it was to have.
LEMMA ListDone == PageInv => ListNewest
<1> SUFFICES ASSUME PageInv, query.step = "done", query.op = "list" PROVE ListNewest
  BY DEF ListNewest, R!ListNewest
<1>1. query # R!NoQuery
  <2>1. R!NoQuery.step = "idle"
    BY DEF R!NoQuery
  <2> QED
    BY <2>1
<1>2. query.rows \in Seq(Int) /\ Falling(query.rows)
  BY <1>1 DEF PageInv, RowsInv
<1>3. \A i \in 1..Len(query.rows) - 1 : query.rows[i] > query.rows[i + 1]
  BY <1>2 DEF Falling
<1>4. \A t \in R!Due : t \in Of(query.rows) \/ ~R!Reported(t) \/ Crowded(Of(query.rows), t)
  BY <1>1 DEF PageInv, DoneInv
<1>5. R!ToSet(query.rows) = Of(query.rows)
  BY DEF R!ToSet, Of
<1> QED
  BY <1>3, <1>4, <1>5 DEF ListNewest, R!ListNewest, Crowded, PageSize, R!Cardinality, Cardinality

\* However usage arrives on the hub and in its regions while a list is made, the page has
\* its rows in order and none twice, and what it leaves out of the hub, and of what the
\* regions that answered report, is older than a whole page of what it shows
\* (handleListUsage, mergeUsageEvents): for any regions, limits and number of events.
THEOREM NewestListed == MCSpec => []ListNewest
<1>1. MCInit => PageInv
  BY PageInit DEF MCInit
<1>2. PageInv /\ [MCNext]_<<part, vars, page>> => PageInv'
  BY PageStep, PageIdle DEF MCNext
<1> QED
  BY <1>1, <1>2, ListDone, PTL DEF MCSpec
=============================================================================
