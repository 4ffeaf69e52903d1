---------------------------- MODULE WorkersProofs ----------------------------
(***************************************************************************)
(* The safety of the two workers the server's parts queue their work on:   *)
(* KeyedCoalescingWorker, for every set of keys, every number of drainers  *)
(* and every bound on the enqueues, and DrainableWorker, for every number  *)
(* of items and drainers.                                                  *)
(***************************************************************************)
EXTENDS KeyedCoalescingWorker, TLAPS

\* A drainable worker, its queue, fiber and drainers beside the keyed worker's.
CONSTANTS Waiters, MaxItems
VARIABLES fifo, outstanding, phase, item, next, done, waitsFor

DW == INSTANCE DrainableWorker WITH Drainers <- Waiters, queue <- fifo, pc <- phase

-----------------------------------------------------------------------------
(* KeyedCoalescingWorker *)

\* What the worker fiber holds in each of its phases.
PhaseOK ==
  /\ pc = "take" => wkey = NoKey
  /\ pc # "take" => wkey \in Keys
  /\ pc = "processing" => wvalue \in Gens
  /\ pc = "requeue" => latestByKey[wkey] # NoValue /\ wkey \notin activeKeys

\* Generations only grow from the settled one over the one in process and the
\* pending one to the issued one, and a drainer waits for an issued one.
Ordered ==
  /\ \A k \in Keys : settled[k] <= issued[k] /\ latestByKey[k] <= issued[k]
  /\ \A k \in Keys : latestByKey[k] # NoValue => settled[k] <= latestByKey[k]
  /\ pc = "processing" =>
       /\ settled[wkey] <= wvalue /\ wvalue <= issued[wkey]
       /\ latestByKey[wkey] # NoValue => wvalue <= latestByKey[wkey]
  /\ \A d \in Drainers : drain[d] # NotDraining =>
       drain[d].key \in Keys /\ drain[d].upTo <= issued[drain[d].key]

IInv ==
  /\ TypeOK
  /\ PhaseOK
  /\ QueueIsBookkeeping
  /\ ActiveIsWorker
  /\ NoOrphanedValue
  /\ LatestNeverLost
  /\ Ordered

-----------------------------------------------------------------------------
\* Appending an element a duplicate-free sequence does not hold, and taking the
\* head of one, keep it duplicate-free and change its elements as expected.
Elems(q) == {q[i] : i \in 1 .. Len(q)}
NoDup(q) == \A i, j \in 1 .. Len(q) : q[i] = q[j] => i = j

LEMMA AppendNoDup ==
  ASSUME NEW S, NEW q \in Seq(S), NEW k \in S, NoDup(q), k \notin Elems(q)
  PROVE  /\ Append(q, k) \in Seq(S)
         /\ NoDup(Append(q, k))
         /\ Elems(Append(q, k)) = Elems(q) \cup {k}
<1> DEFINE r == Append(q, k)
<1>1. /\ r \in Seq(S) /\ Len(r) = Len(q) + 1 /\ Len(q) \in Nat
      /\ \A i \in 1 .. Len(q) : r[i] = q[i]
      /\ r[Len(q) + 1] = k
  OBVIOUS
<1> HIDE DEF r
<1>2. NoDup(r)
  BY <1>1 DEF NoDup, Elems
<1>3. Elems(r) = Elems(q) \cup {k}
  BY <1>1 DEF Elems
<1> QED
  BY <1>1, <1>2, <1>3 DEF r

LEMMA TailNoDup ==
  ASSUME NEW S, NEW q \in Seq(S), q # <<>>, NoDup(q)
  PROVE  /\ Tail(q) \in Seq(S)
         /\ Head(q) \in S
         /\ NoDup(Tail(q))
         /\ Elems(q) = Elems(Tail(q)) \cup {Head(q)}
         /\ Head(q) \notin Elems(Tail(q))
<1> DEFINE r == Tail(q)
<1>1. /\ r \in Seq(S) /\ Head(q) \in S /\ Head(q) = q[1]
      /\ Len(q) \in Nat \ {0} /\ Len(r) = Len(q) - 1
      /\ \A i \in 1 .. Len(r) : r[i] = q[i + 1]
  OBVIOUS
<1> HIDE DEF r
<1>2. NoDup(r)
  BY <1>1 DEF NoDup
<1>3. Head(q) \notin Elems(r)
  BY <1>1 DEF NoDup, Elems
<1>4. \A x : x \in Elems(q) <=> x \in Elems(r) \cup {q[1]}
  <2> SUFFICES ASSUME NEW x PROVE x \in Elems(q) <=> x \in Elems(r) \cup {q[1]}
    OBVIOUS
  <2>1. ASSUME x \in Elems(q) PROVE x \in Elems(r) \cup {q[1]}
    <3> PICK i \in 1 .. Len(q) : x = q[i]
      BY <2>1 DEF Elems
    <3>1. CASE i = 1
      BY <3>1
    <3>2. CASE i # 1
      <4>1. i - 1 \in 1 .. Len(r) /\ r[i - 1] = q[(i - 1) + 1] /\ (i - 1) + 1 = i
        BY <1>1, <3>2
      <4> QED
        BY <4>1 DEF Elems
    <3> QED
      BY <3>1, <3>2
  <2>2. ASSUME x \in Elems(r) \cup {q[1]} PROVE x \in Elems(q)
    <3>1. CASE x = q[1]
      BY <1>1, <3>1 DEF Elems
    <3>2. CASE x \in Elems(r)
      <4> PICK i \in 1 .. Len(r) : x = r[i]
        BY <3>2 DEF Elems
      <4>1. i + 1 \in 1 .. Len(q) /\ x = q[i + 1]
        BY <1>1
      <4> QED
        BY <4>1 DEF Elems
    <3> QED
      BY <2>2, <3>1, <3>2
  <2> QED
    BY <2>1, <2>2
<1> QED
  BY <1>1, <1>2, <1>3, <1>4 DEF r

\* QueueIsBookkeeping in terms of the two operators above.
LEMMA QueueFacts ==
  ASSUME TypeOK
  PROVE  QueueIsBookkeeping <=> /\ NoDup(queue)
                                /\ queuedKeys = Elems(queue) \cup InTransit
                                /\ Elems(queue) \cap InTransit = {}
BY DEF QueueIsBookkeeping, NoDup, Elems

-----------------------------------------------------------------------------
LEMMA InitIInv == Init => IInv
<1> SUFFICES ASSUME Init PROVE IInv
  OBVIOUS
<1>1. TypeOK
  BY BoundAssumption DEF Init, TypeOK, PCs, NotDraining, NoValue, Gens
<1>2. QueueIsBookkeeping
  BY DEF Init, QueueIsBookkeeping, InTransit
<1>3. PhaseOK /\ ActiveIsWorker /\ NoOrphanedValue /\ LatestNeverLost /\ Ordered
  BY DEF Init, PhaseOK, ActiveIsWorker, NoOrphanedValue, LatestNeverLost, Ordered, NotDraining, NoValue
<1> QED
  BY <1>1, <1>2, <1>3 DEF IInv

LEMMA EnqueueIInv ==
  ASSUME IInv, NEW k \in Keys, Enqueue(k)
  PROVE  IInv'
<1> USE KeysAssumption, BoundAssumption DEF NoValue, Gens
<1> TypeOK
  BY DEF IInv
<1>0. TypeOK'
  <2>1. Append(queue, k) \in Seq(Keys)
    BY DEF TypeOK
  <2>2. issued[k] + 1 \in Gens /\ issued[k] + 1 \in 0 .. MaxEnqueues
    BY DEF TypeOK, Enqueue
  <2> QED
    BY <2>1, <2>2 DEF TypeOK, Enqueue, worker
<1>1. QueueIsBookkeeping'
  <2>1. CASE Claimed(k)
    BY <2>1 DEF IInv, QueueIsBookkeeping, InTransit, Enqueue, worker
  <2>2. CASE ~Claimed(k)
    <3>1. /\ NoDup(queue) /\ queuedKeys = Elems(queue) \cup InTransit
          /\ Elems(queue) \cap InTransit = {} /\ k \notin Elems(queue) /\ k \notin InTransit
      BY <2>2, QueueFacts DEF IInv, Claimed
    <3>2. queue' = Append(queue, k) /\ queuedKeys' = queuedKeys \cup {k} /\ InTransit' = InTransit
      BY <2>2 DEF Enqueue, InTransit, worker
    <3>3. NoDup(queue') /\ Elems(queue') = Elems(queue) \cup {k}
      BY <3>1, <3>2, AppendNoDup DEF TypeOK
    <3> QED
      BY <3>1, <3>2, <3>3 DEF QueueIsBookkeeping, NoDup, Elems
  <2> QED
    BY <2>1, <2>2
<1>2. PhaseOK' /\ ActiveIsWorker'
  BY DEF IInv, TypeOK, PhaseOK, ActiveIsWorker, Enqueue, worker
<1>3. NoOrphanedValue' /\ LatestNeverLost'
  BY DEF IInv, TypeOK, NoOrphanedValue, LatestNeverLost, Claimed, Enqueue, worker
<1>4. Ordered'
  BY DEF IInv, TypeOK, Ordered, PhaseOK, Enqueue, worker, NotDraining
<1> QED
  BY <1>0, <1>1, <1>2, <1>3, <1>4 DEF IInv

LEMMA TakeIInv ==
  ASSUME IInv, Take
  PROVE  IInv'
<1> USE KeysAssumption, BoundAssumption DEF NoValue, Gens
<1>0. /\ NoDup(queue) /\ queuedKeys = Elems(queue)
      /\ InTransit' = {Head(queue)} /\ queue' = Tail(queue)
      /\ queue \in Seq(Keys) /\ queue # <<>>
  BY QueueFacts DEF IInv, Take, InTransit, TypeOK
<1>1. /\ queue' \in Seq(Keys) /\ Head(queue) \in Keys /\ NoDup(queue')
      /\ Elems(queue) = Elems(queue') \cup {Head(queue)}
      /\ Head(queue) \notin Elems(queue')
  BY <1>0, TailNoDup
<1> TypeOK /\ TypeOK'
  BY <1>1 DEF IInv, TypeOK, Take, PCs
<1>2. QueueIsBookkeeping'
  BY <1>0, <1>1 DEF QueueIsBookkeeping, NoDup, Elems, Take
<1>3. PhaseOK' /\ ActiveIsWorker'
  BY <1>1 DEF IInv, PhaseOK, ActiveIsWorker, Take
<1>4. NoOrphanedValue' /\ LatestNeverLost' /\ Ordered'
  BY DEF IInv, NoOrphanedValue, LatestNeverLost, Claimed, Ordered, Take, NotDraining
<1> QED
  BY <1>2, <1>3, <1>4 DEF IInv

\* Claim: the key in transit leaves queuedKeys, and only
\* the queue's own elements stay queued.
LEMMA ClaimIInv ==
  ASSUME IInv, Claim
  PROVE  IInv'
<1> USE KeysAssumption, BoundAssumption DEF NoValue, Gens
<1> TypeOK /\ wkey \in Keys
  BY DEF IInv, PhaseOK, Claim
<1>0. TypeOK'
  <2>1. CASE latestByKey[wkey] = NoValue
    BY <2>1 DEF TypeOK, Claim, PCs
  <2>2. CASE latestByKey[wkey] # NoValue
    BY <2>2 DEF TypeOK, Claim, PCs
  <2> QED
    BY <2>1, <2>2
<1>1. QueueIsBookkeeping'
  BY DEF IInv, QueueIsBookkeeping, InTransit, Claim
<1>2. PhaseOK' /\ ActiveIsWorker'
  BY DEF IInv, TypeOK, PhaseOK, ActiveIsWorker, Claim
<1>3. NoOrphanedValue'
  BY DEF IInv, TypeOK, NoOrphanedValue, Claimed, Claim
<1>4. LatestNeverLost'
  BY DEF IInv, TypeOK, LatestNeverLost, Claim
<1>5. Ordered'
  <2>1. \A d \in Drainers : drain[d] # NotDraining =>
          drain[d].key \in Keys /\ drain[d].upTo <= issued[drain[d].key]
    BY DEF IInv, Ordered
  <2>2. CASE latestByKey[wkey] = NoValue
    BY <2>1, <2>2 DEF IInv, Ordered, Claim
  <2>3. CASE latestByKey[wkey] # NoValue
    <3>1. /\ pc = "taken" /\ pc' = "processing"
          /\ wvalue' = latestByKey[wkey]
          /\ latestByKey' = [latestByKey EXCEPT ![wkey] = NoValue]
          /\ UNCHANGED <<wkey, issued, settled, drain>>
      BY <2>3 DEF Claim
    <3> QED
      BY <2>1, <2>3, <3>1 DEF IInv, TypeOK, Ordered
  <2> QED
    BY <2>2, <2>3
<1> QED
  BY <1>0, <1>1, <1>2, <1>3, <1>4, <1>5 DEF IInv

LEMMA ProcessIInv ==
  ASSUME IInv, NEW outcome \in {"processed", "failed"}, ProcessEnds(outcome)
  PROVE  IInv'
<1> USE KeysAssumption, BoundAssumption DEF NoValue, Gens
<1> TypeOK /\ wkey \in Keys /\ wvalue \in Gens /\ wvalue \in 0 .. MaxEnqueues
  BY DEF IInv, PhaseOK, ProcessEnds
<1>0. TypeOK'
  BY DEF TypeOK, ProcessEnds, PCs
<1>1. QueueIsBookkeeping' /\ PhaseOK' /\ ActiveIsWorker'
  BY DEF IInv, QueueIsBookkeeping, InTransit, PhaseOK, ActiveIsWorker, ProcessEnds
<1>2. NoOrphanedValue' /\ LatestNeverLost'
  BY DEF IInv, TypeOK, NoOrphanedValue, LatestNeverLost, Ordered, Claimed, ProcessEnds
<1>3. Ordered'
  <2>1. \A d \in Drainers : drain[d] # NotDraining =>
          drain[d].key \in Keys /\ drain[d].upTo <= issued[drain[d].key]
    BY DEF IInv, Ordered
  <2> QED
    BY <2>1 DEF IInv, TypeOK, Ordered, ProcessEnds
<1> QED
  BY <1>0, <1>1, <1>2, <1>3 DEF IInv

LEMMA AfterProcessIInv ==
  ASSUME IInv, Continue \/ Release
  PROVE  IInv'
<1> USE KeysAssumption, BoundAssumption DEF NoValue, Gens
<1> TypeOK /\ wkey \in Keys
  BY DEF IInv, PhaseOK, Continue, Release
<1>0. TypeOK'
  <2>1. CASE Continue
    BY <2>1 DEF TypeOK, Continue, PCs
  <2>2. CASE Release
    BY <2>2 DEF TypeOK, Release, PCs
  <2> QED
    BY <2>1, <2>2
<1>1. QueueIsBookkeeping'
  BY DEF IInv, QueueIsBookkeeping, InTransit, Continue, Release
<1>2. PhaseOK' /\ ActiveIsWorker'
  <2>1. CASE Continue
    BY <2>1 DEF IInv, TypeOK, PhaseOK, ActiveIsWorker, Continue
  <2>2. CASE Release
    BY <2>2 DEF IInv, PhaseOK, ActiveIsWorker, Release
  <2> QED
    BY <2>1, <2>2
<1>3. NoOrphanedValue' /\ LatestNeverLost'
  BY DEF IInv, TypeOK, NoOrphanedValue, LatestNeverLost, Claimed, Continue, Release
<1>4. Ordered'
  <2>1. \A d \in Drainers : drain[d] # NotDraining =>
          drain[d].key \in Keys /\ drain[d].upTo <= issued[drain[d].key]
    BY DEF IInv, Ordered
  <2>2. CASE Continue
    BY <2>1, <2>2 DEF IInv, TypeOK, Ordered, Continue
  <2>3. CASE Release
    BY <2>1, <2>3 DEF IInv, Ordered, Release
  <2> QED
    BY <2>2, <2>3
<1> QED
  BY <1>0, <1>1, <1>2, <1>3, <1>4 DEF IInv

LEMMA CleanupIInv ==
  ASSUME IInv, Cleanup
  PROVE  IInv'
<1> USE KeysAssumption, BoundAssumption DEF NoValue, Gens
<1> TypeOK /\ wkey \in Keys
  BY DEF IInv, PhaseOK, Cleanup
<1>0. TypeOK'
  BY DEF TypeOK, Cleanup, PCs
<1>1. QueueIsBookkeeping' /\ PhaseOK' /\ ActiveIsWorker'
  BY DEF IInv, TypeOK, QueueIsBookkeeping, InTransit, PhaseOK, ActiveIsWorker, Cleanup
<1>2. NoOrphanedValue' /\ LatestNeverLost'
  BY DEF IInv, TypeOK, NoOrphanedValue, LatestNeverLost, PhaseOK, Claimed, Cleanup
<1>3. Ordered'
  BY DEF IInv, TypeOK, Ordered, PhaseOK, Cleanup, NotDraining
<1> QED
  BY <1>0, <1>1, <1>2, <1>3 DEF IInv

LEMMA RequeueIInv ==
  ASSUME IInv, Requeue
  PROVE  IInv'
<1> USE KeysAssumption, BoundAssumption DEF NoValue, Gens
<1>0. /\ NoDup(queue) /\ queuedKeys = Elems(queue) \cup {wkey} /\ wkey \notin Elems(queue)
      /\ InTransit' = {} /\ queue' = Append(queue, wkey) /\ queue \in Seq(Keys) /\ wkey \in Keys
  BY QueueFacts DEF IInv, Requeue, InTransit, TypeOK, PhaseOK
<1>1. queue' \in Seq(Keys) /\ NoDup(queue') /\ Elems(queue') = Elems(queue) \cup {wkey}
  BY <1>0, AppendNoDup
<1> TypeOK /\ TypeOK'
  BY <1>1 DEF IInv, TypeOK, Requeue, PCs
<1>2. QueueIsBookkeeping'
  BY <1>0, <1>1 DEF QueueIsBookkeeping, NoDup, Elems, Requeue
<1>3. PhaseOK' /\ ActiveIsWorker'
  BY DEF IInv, PhaseOK, ActiveIsWorker, Requeue
<1>4. NoOrphanedValue' /\ LatestNeverLost' /\ Ordered'
  BY DEF IInv, NoOrphanedValue, LatestNeverLost, Claimed, Ordered, Requeue, NotDraining
<1> QED
  BY <1>2, <1>3, <1>4 DEF IInv

LEMMA DrainIInv ==
  ASSUME IInv, NEW d \in Drainers,
         (\E k \in Keys : DrainCall(d, k)) \/ DrainReturn(d)
  PROVE  IInv'
<1> USE KeysAssumption, BoundAssumption
<1> TypeOK
  BY DEF IInv
<1>1. UNCHANGED <<queue, latestByKey, queuedKeys, activeKeys, pc, wkey, wvalue, issued, settled>>
  BY DEF DrainCall, DrainReturn, worker
<1>2. PICK w \in {NotDraining} \cup {[key |-> k, upTo |-> issued[k]] : k \in Keys} :
        drain' = [drain EXCEPT ![d] = w]
  BY DEF DrainCall, DrainReturn
<1>3. TypeOK'
  <2>1. w \in [key : Keys \cup {NoKey}, upTo : 0 .. MaxEnqueues]
    BY <1>2 DEF TypeOK, NotDraining
  <2> QED
    BY <1>1, <1>2, <2>1 DEF TypeOK
<1>4. QueueIsBookkeeping' /\ PhaseOK' /\ ActiveIsWorker' /\ NoOrphanedValue' /\ LatestNeverLost'
  BY <1>1 DEF IInv, QueueIsBookkeeping, InTransit, PhaseOK, ActiveIsWorker, NoOrphanedValue,
         LatestNeverLost, Claimed
<1>5. Ordered'
  <2>1. \A e \in Drainers : drain'[e] # NotDraining =>
          drain'[e].key \in Keys /\ drain'[e].upTo <= issued[drain'[e].key]
    BY <1>2 DEF IInv, TypeOK, Ordered, NotDraining
  <2> QED
    BY <1>1, <2>1 DEF IInv, Ordered
<1> QED
  BY <1>3, <1>4, <1>5 DEF IInv

LEMMA StepIInv == IInv /\ [Next]_vars => IInv'
<1> SUFFICES ASSUME IInv, [Next]_vars PROVE IInv'
  OBVIOUS
<1>1. CASE WorkerStep
  BY <1>1, TakeIInv, ClaimIInv, ProcessIInv, AfterProcessIInv, CleanupIInv, RequeueIInv
     DEF WorkerStep, ProcessOk, ProcessFail
<1>2. CASE \E k \in Keys : Enqueue(k)
  BY <1>2, EnqueueIInv
<1>3. CASE \E d \in Drainers : (\E k \in Keys : DrainCall(d, k)) \/ DrainReturn(d)
  BY <1>3, DrainIInv
<1>4. CASE UNCHANGED vars
  <2>1. TypeOK' /\ PhaseOK'
    BY <1>4 DEF vars, worker, IInv, TypeOK, PhaseOK
  <2>2. QueueIsBookkeeping' /\ ActiveIsWorker' /\ NoOrphanedValue' /\ LatestNeverLost'
    BY <1>4 DEF vars, worker, IInv, QueueIsBookkeeping, InTransit, ActiveIsWorker,
       NoOrphanedValue, LatestNeverLost, Claimed
  <2>3. Ordered'
    BY <1>4 DEF vars, worker, IInv, Ordered
  <2> QED
    BY <2>1, <2>2, <2>3 DEF IInv
<1> QED
  BY <1>1, <1>2, <1>3, <1>4 DEF Next

-----------------------------------------------------------------------------
\* The inductive invariant holds throughout: the typing, the bookkeeping of the
\* queue (QueueIsBookkeeping, ActiveIsWorker) and the order of generations.
THEOREM SpecIInv == Spec => []IInv
BY InitIInv, StepIInv, PTL DEF Spec

\* The state the code keeps has its type and its queue is its bookkeeping.
THEOREM Bookkeeping == Spec => [](TypeOK /\ QueueIsBookkeeping /\ ActiveIsWorker)
<1>1. IInv => TypeOK /\ QueueIsBookkeeping /\ ActiveIsWorker
  BY DEF IInv
<1> QED
  BY <1>1, SpecIInv, PTL

\* enqueue never loses the last value of a key, whatever fails meanwhile.
THEOREM NothingLost == Spec => [](NoOrphanedValue /\ LatestNeverLost)
<1>1. IInv => NoOrphanedValue /\ LatestNeverLost
  BY DEF IInv
<1> QED
  BY <1>1, SpecIInv, PTL

\* drainKey returns only when everything enqueued before the call is processed.
THEOREM DrainComplete == Spec => DrainKeyIsComplete
<1> USE KeysAssumption, BoundAssumption DEF NoValue, Gens
<1> DEFINE Step == \A d \in Drainers : drain[d] # NotDraining /\ drain'[d] = NotDraining
                     => settled[drain[d].key] >= drain[d].upTo
<1>1. IInv /\ [Next]_vars => [Step]_vars
  <2> SUFFICES ASSUME IInv, Next, NEW d \in Drainers,
                      drain[d] # NotDraining, drain'[d] = NotDraining
               PROVE  settled[drain[d].key] >= drain[d].upTo
    OBVIOUS
  <2>1. Drained(drain[d].key)
    BY DEF Next, WorkerStep, Enqueue, Take, Claim, ProcessOk, ProcessFail,
       ProcessEnds, Continue, Release, Cleanup, Requeue, DrainCall, DrainReturn, IInv, TypeOK,
       NotDraining
  <2>2. issued[drain[d].key] = settled[drain[d].key]
    BY <2>1 DEF Drained, Claimed, IInv, TypeOK, LatestNeverLost, ActiveIsWorker, Ordered, PhaseOK
  <2> QED
    BY <2>2 DEF IInv, TypeOK, Ordered
<1> QED
  BY <1>1, SpecIInv, PTL DEF Spec, DrainKeyIsComplete

\* The values of a key are processed in the order they were enqueued.
THEOREM OrderKept == Spec => NeverOlder
<1> USE KeysAssumption, BoundAssumption DEF NoValue, Gens
<1>1. IInv /\ [Next]_vars => [\A k \in Keys : settled'[k] >= settled[k]]_vars
  <2> SUFFICES ASSUME IInv, Next, NEW k \in Keys PROVE settled'[k] >= settled[k]
    OBVIOUS
  <2>1. CASE ProcessOk \/ ProcessFail
    <3>1. settled' = [settled EXCEPT ![wkey] = wvalue] /\ pc = "processing"
      BY <2>1 DEF ProcessOk, ProcessFail, ProcessEnds
    <3>2. settled \in [Keys -> Nat] /\ wkey \in Keys /\ settled[wkey] <= wvalue
      BY <3>1 DEF IInv, TypeOK, Ordered, PhaseOK
    <3> QED
      BY <3>1, <3>2
  <2>2. CASE settled' = settled
    BY <2>2 DEF IInv, TypeOK
  <2> QED
    BY <2>1, <2>2 DEF Next, WorkerStep, Enqueue, Take, Claim, Continue,
       Release, Cleanup, Requeue, DrainCall, DrainReturn
<1> QED
  BY <1>1, SpecIInv, PTL DEF Spec, NeverOlder

-----------------------------------------------------------------------------
(* DrainableWorker *)

\* Every item so far is done, in the queue, or in the worker's hands.
EveryItemIsSomewhere ==
  \A i \in 1 .. next - 1 : i \in done \/ i = item \/ \E k \in 1 .. Len(fifo) : fifo[k] = i

\* The worker has an item until it has counted it off, which it does once the
\* processing has ended.
ItemInHand ==
  /\ (item = DW!NoItem) <=> phase \in {"take", "dead"}
  /\ phase \in {"ended", "failed"} => item \in done

\* A drainer waits for items there are.
WaitsForItems == \A d \in Waiters : waitsFor[d].items \subseteq 1 .. next - 1

Inv ==
  /\ DW!TypeOK /\ DW!OutstandingIsBacklog
  /\ EveryItemIsSomewhere /\ ItemInHand /\ WaitsForItems

\* What is in the queue stays there, but for the item taken.
LEMMA TakenOrQueued ==
  ASSUME NEW S, NEW q \in Seq(S), q # <<>>
  PROVE  /\ Head(q) = q[1] /\ Tail(q) \in Seq(S) /\ Len(Tail(q)) = Len(q) - 1
         /\ \A k \in 1 .. Len(q) : k = 1 \/ (k - 1 \in 1 .. Len(Tail(q)) /\ Tail(q)[k - 1] = q[k])
OBVIOUS

\* The worker's bookkeeping is sound: types, the count, and where the items are.
THEOREM BookkeepingIsSound ==
  ASSUME MaxItems \in Nat
  PROVE  DW!Spec => []Inv
<1>1. DW!Init => Inv
  BY DEF DW!Init, Inv, DW!TypeOK, DW!OutstandingIsBacklog, EveryItemIsSomewhere, ItemInHand,
    WaitsForItems, DW!PCs, DW!NotWaiting, DW!NoItem
<1>2. Inv /\ [DW!Next]_(DW!vars) => Inv'
  <2> SUFFICES ASSUME Inv, [DW!Next]_(DW!vars) PROVE Inv'
    OBVIOUS
  <2> USE DEF Inv
  <2>0. /\ fifo \in Seq(1 .. MaxItems) /\ Len(fifo) \in Nat /\ outstanding \in Nat
        /\ item \in 0 .. MaxItems /\ next \in 1 .. MaxItems + 1
    BY DEF DW!TypeOK
  <2>1. CASE DW!Enqueue
    <3> DEFINE q == Append(fifo, next)
    <3>1. /\ q \in Seq(1 .. MaxItems) /\ Len(q) = Len(fifo) + 1 /\ q[Len(q)] = next
          /\ \A k \in 1 .. Len(fifo) : q[k] = fifo[k]
      BY <2>0, <2>1 DEF DW!Enqueue
    <3>2. fifo' = q /\ next' = next + 1 /\ UNCHANGED <<phase, item, done, waitsFor>>
          /\ outstanding' = outstanding + 1
      BY <2>1 DEF DW!Enqueue
    <3> HIDE DEF q
    <3>3. DW!TypeOK'
      <4>1. next' \in 1 .. MaxItems + 1 /\ outstanding' \in Nat /\ fifo' \in Seq(1 .. MaxItems)
        BY <2>0, <2>1, <3>1, <3>2 DEF DW!Enqueue
      <4>2. QED
        BY <3>2, <4>1 DEF DW!TypeOK
    <3>4. DW!OutstandingIsBacklog'
      BY <2>0, <3>1, <3>2 DEF DW!OutstandingIsBacklog, DW!NoItem
    <3>5. EveryItemIsSomewhere'
      <4> SUFFICES ASSUME NEW i \in 1 .. next
                   PROVE  i \in done \/ i = item \/ \E k \in 1 .. Len(q) : q[k] = i
        BY <2>0, <3>2 DEF EveryItemIsSomewhere
      <4>1. CASE i = next
        <5>1. Len(q) \in 1 .. Len(q)
          BY <2>0, <3>1
        <5>2. QED
          BY <3>1, <4>1, <5>1
      <4>2. CASE i \in 1 .. next - 1
        <5>1. \A k \in 1 .. Len(fifo) : k \in 1 .. Len(q) /\ q[k] = fifo[k]
          BY <2>0, <3>1
        <5>2. i \in done \/ i = item \/ \E k \in 1 .. Len(fifo) : fifo[k] = i
          BY <4>2 DEF EveryItemIsSomewhere
        <5>3. QED
          BY <5>1, <5>2
      <4>3. QED
        BY <2>0, <4>1, <4>2
    <3>6. ItemInHand' /\ WaitsForItems'
      BY <2>0, <3>2 DEF ItemInHand, WaitsForItems
    <3>7. QED
      BY <3>3, <3>4, <3>5, <3>6
  <2>2. CASE DW!Take
    <3>1. /\ phase = "take" /\ fifo # <<>> /\ item' = Head(fifo) /\ fifo' = Tail(fifo)
          /\ phase' = "busy" /\ UNCHANGED <<outstanding, next, done, waitsFor>>
      BY <2>2 DEF DW!Take
    <3>2. /\ Head(fifo) = fifo[1] /\ fifo' \in Seq(1 .. MaxItems) /\ Len(fifo') = Len(fifo) - 1
          /\ \A k \in 1 .. Len(fifo) :
               k = 1 \/ (k - 1 \in 1 .. Len(fifo') /\ fifo'[k - 1] = fifo[k])
      BY <2>0, <3>1, TakenOrQueued
    <3>3. Len(fifo) >= 1 /\ fifo[1] \in 1 .. MaxItems
      BY <2>0, <3>1
    <3>4. DW!TypeOK'
      BY <2>0, <3>1, <3>2, <3>3 DEF DW!TypeOK, DW!PCs
    <3>5. item = DW!NoItem /\ item' # DW!NoItem /\ item' = fifo[1]
      BY <3>1, <3>2, <3>3 DEF ItemInHand, DW!NoItem
    <3>6. DW!OutstandingIsBacklog'
      BY <2>0, <3>1, <3>2, <3>3, <3>5 DEF DW!OutstandingIsBacklog
    <3>7. EveryItemIsSomewhere'
      <4> SUFFICES ASSUME NEW i \in 1 .. next - 1
                   PROVE  i \in done \/ i = item' \/ \E k \in 1 .. Len(fifo') : fifo'[k] = i
        BY <2>0, <3>1 DEF EveryItemIsSomewhere
      <4>1. i # item
        BY <2>0, <3>5 DEF DW!NoItem
      <4>2. CASE i \in done
        BY <4>2
      <4>3. CASE \E k \in 1 .. Len(fifo) : fifo[k] = i
        BY <3>2, <3>5, <4>3
      <4>4. QED
        BY <4>1, <4>2, <4>3 DEF EveryItemIsSomewhere
    <3>8. ItemInHand' /\ WaitsForItems'
      BY <3>1, <3>5 DEF ItemInHand, WaitsForItems
    <3>9. QED
      BY <3>4, <3>6, <3>7, <3>8
  <2>3. ASSUME NEW outcome \in {"ended", "failed"}, DW!ProcessEnds(outcome) PROVE Inv'
    <3>1. /\ phase = "busy" /\ phase' = outcome /\ done' = done \cup {item}
          /\ UNCHANGED <<fifo, outstanding, item, next, waitsFor>>
      BY <2>3 DEF DW!ProcessEnds
    <3>2. item # DW!NoItem
      BY <3>1 DEF ItemInHand
    <3>3. DW!TypeOK'
      BY <2>0, <3>1, <3>2 DEF DW!TypeOK, DW!PCs, DW!NoItem
    <3>4. DW!OutstandingIsBacklog' /\ EveryItemIsSomewhere' /\ ItemInHand' /\ WaitsForItems'
      BY <3>1, <3>2 DEF DW!OutstandingIsBacklog, EveryItemIsSomewhere, ItemInHand, WaitsForItems
    <3>5. QED
      BY <3>3, <3>4
  <2>4. CASE DW!CountOff
    <3>1. /\ phase \in {"ended", "failed"} /\ outstanding' = outstanding - 1 /\ item' = DW!NoItem
          /\ phase' \in {"take", "dead"} /\ UNCHANGED <<fifo, next, done, waitsFor>>
      BY <2>4 DEF DW!CountOff
    <3>2. item # DW!NoItem /\ item \in done
      BY <3>1 DEF ItemInHand
    <3>3. DW!TypeOK' /\ DW!OutstandingIsBacklog'
      BY <2>0, <3>1, <3>2 DEF DW!TypeOK, DW!PCs, DW!NoItem, DW!OutstandingIsBacklog
    <3>4. EveryItemIsSomewhere' /\ ItemInHand' /\ WaitsForItems'
      BY <3>1, <3>2 DEF EveryItemIsSomewhere, ItemInHand, WaitsForItems
    <3>5. QED
      BY <3>3, <3>4
  <2>5. ASSUME NEW d \in Waiters, DW!DrainCall(d) \/ DW!DrainReturn(d) PROVE Inv'
    <3>1. /\ UNCHANGED <<fifo, outstanding, phase, item, next, done>>
          /\ \/ waitsFor' = [waitsFor EXCEPT ![d] = [waits |-> TRUE, items |-> 1 .. next - 1]]
             \/ waitsFor' = [waitsFor EXCEPT ![d] = DW!NotWaiting]
      BY <2>5 DEF DW!DrainCall, DW!DrainReturn
    <3>2. 1 .. next - 1 \in SUBSET (1 .. MaxItems)
      BY <2>0
    <3>3. DW!TypeOK'
      <4> DEFINE W == [waits : BOOLEAN, items : SUBSET (1 .. MaxItems)]
      <4>1. DW!NotWaiting \in W /\ [waits |-> TRUE, items |-> 1 .. next - 1] \in W
        BY <3>2 DEF DW!NotWaiting
      <4>2. waitsFor \in [Waiters -> W]
        BY DEF DW!TypeOK
      <4> HIDE DEF W
      <4>3. waitsFor' \in [Waiters -> W]
        BY <3>1, <4>1, <4>2
      <4>4. QED
        BY <3>1, <4>3 DEF DW!TypeOK, W
    <3>4. WaitsForItems'
      BY <3>1 DEF WaitsForItems, DW!NotWaiting, DW!TypeOK
    <3>5. DW!OutstandingIsBacklog' /\ EveryItemIsSomewhere' /\ ItemInHand'
      BY <3>1 DEF DW!OutstandingIsBacklog, EveryItemIsSomewhere, ItemInHand
    <3>6. QED
      BY <3>3, <3>4, <3>5
  <2>6. CASE UNCHANGED DW!vars
    BY <2>6 DEF DW!vars, DW!TypeOK, DW!OutstandingIsBacklog, EveryItemIsSomewhere,
      ItemInHand, WaitsForItems
  <2>7. QED
    BY <2>1, <2>2, <2>3, <2>4, <2>5, <2>6 DEF DW!Next, DW!WorkerStep, DW!ProcessOk, DW!ProcessFails
<1>3. QED
  BY <1>1, <1>2, PTL DEF DW!Spec

\* A drain that returns has seen everything enqueued before its call processed:
\* DrainIsComplete, for any number of items and drainers.
THEOREM DrainsAreComplete ==
  ASSUME MaxItems \in Nat
  PROVE  DW!Spec => DW!DrainIsComplete
<1>1. Inv /\ [DW!Next]_(DW!vars) =>
        [\A d \in Waiters : waitsFor[d].waits /\ ~waitsFor'[d].waits
           => waitsFor[d].items \subseteq done]_(DW!vars)
  <2> SUFFICES ASSUME Inv, [DW!Next]_(DW!vars), NEW d \in Waiters,
                      waitsFor[d].waits, ~waitsFor'[d].waits
               PROVE  waitsFor[d].items \subseteq done
    OBVIOUS
  <2>1. DW!DrainReturn(d)
    BY DEF DW!Next, DW!WorkerStep, DW!Enqueue, DW!Take, DW!ProcessOk, DW!ProcessFails,
      DW!ProcessEnds, DW!CountOff, DW!DrainCall, DW!DrainReturn, DW!vars, Inv, DW!TypeOK
  <2>2. outstanding = 0
    BY <2>1 DEF DW!DrainReturn, DW!Drained
  <2>3. Len(fifo) = 0 /\ item = DW!NoItem
    BY <2>2 DEF Inv, DW!TypeOK, DW!OutstandingIsBacklog
  <2>4. \A i \in 1 .. next - 1 : i \in done
    BY <2>3 DEF Inv, EveryItemIsSomewhere, DW!NoItem
  <2>5. QED
    BY <2>4 DEF Inv, WaitsForItems
<1>2. QED
  BY BookkeepingIsSound, <1>1, PTL DEF DW!Spec, DW!DrainIsComplete

==============================================================================
