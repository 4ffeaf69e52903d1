------------------------ MODULE KeyedCoalescingWorker ------------------------
(***************************************************************************)
(* packages/shared/src/KeyedCoalescingWorker.ts: one worker fiber that     *)
(* keeps at most one pending value per key.  The server's terminal manager *)
(* uses it to persist terminal histories.                                  *)
(*                                                                         *)
(* A value is abstracted to its generation: the number of enqueues its key *)
(* had seen when it was enqueued.  The terminal manager's merge keeps the  *)
(* later history, so merging two generations keeps the later one.          *)
(*                                                                         *)
(* Every Effect.tx block of the code is one action; an offer made outside  *)
(* a transaction (cleanupFailedKey) is an action of its own.               *)
(***************************************************************************)
EXTENDS Naturals, Sequences

CONSTANTS
  Keys,        \* the keys of the worker (terminal sessions)
  Drainers,    \* the fibers that call drainKey
  NoKey,       \* the worker holds no key
  MaxEnqueues  \* bound: enqueues per key

ASSUME KeysAssumption == NoKey \notin Keys
ASSUME BoundAssumption == MaxEnqueues \in Nat

NoValue == 0
Gens == 1 .. MaxEnqueues

VARIABLES
  queue,       \* the TxQueue of keys
  latestByKey, \* the pending generation of each key, NoValue when there is none
  queuedKeys,
  activeKeys,
  pc,          \* where the worker fiber is
  wkey,        \* the key the worker fiber holds
  wvalue,      \* the generation it is processing
  issued,      \* observation: generations enqueued so far, per key
  settled,     \* observation: latest generation whose processing has ended, per key
  drain        \* each drainer: the key it waits for and issued[key] at its call

worker == <<pc, wkey, wvalue>>
vars == <<queue, latestByKey, queuedKeys, activeKeys, worker, issued, settled, drain>>

PCs == {"take", "taken", "processing", "processed", "failed", "requeue"}
NotDraining == [key |-> NoKey, upTo |-> 0]

TypeOK ==
  /\ queue \in Seq(Keys)
  /\ latestByKey \in [Keys -> Gens \cup {NoValue}]
  /\ queuedKeys \subseteq Keys
  /\ activeKeys \subseteq Keys
  /\ pc \in PCs
  /\ wkey \in Keys \cup {NoKey}
  /\ wvalue \in Gens \cup {NoValue}
  /\ issued \in [Keys -> 0 .. MaxEnqueues]
  /\ settled \in [Keys -> 0 .. MaxEnqueues]
  /\ drain \in [Drainers -> [key : Keys \cup {NoKey}, upTo : 0 .. MaxEnqueues]]

Init ==
  /\ queue = <<>>
  /\ latestByKey = [k \in Keys |-> NoValue]
  /\ queuedKeys = {}
  /\ activeKeys = {}
  /\ pc = "take" /\ wkey = NoKey /\ wvalue = NoValue
  /\ issued = [k \in Keys |-> 0]
  /\ settled = [k \in Keys |-> 0]
  /\ drain = [d \in Drainers |-> NotDraining]

-----------------------------------------------------------------------------
\* (Variants named ...Bug stand for plausible mistakes; nothing here uses them.)
ClaimedBug(k) == k \in activeKeys

\* A key is somebody's business: it waits in the queue or the worker has it.
Claimed(k) == k \in queuedKeys \/ k \in activeKeys

\* enqueue(k, v): one transaction merges the value and offers an unclaimed key.
Enqueue(k) ==
  /\ issued[k] < MaxEnqueues
  /\ issued' = [issued EXCEPT ![k] = @ + 1]
  /\ latestByKey' = [latestByKey EXCEPT ![k] = issued[k] + 1]
  /\ IF Claimed(k)
       THEN UNCHANGED <<queue, queuedKeys>>
       ELSE /\ queuedKeys' = queuedKeys \cup {k}
            /\ queue' = Append(queue, k)
  /\ UNCHANGED <<activeKeys, worker, settled, drain>>

\* The worker fiber takes a key; the bookkeeping follows in a second transaction.
Take ==
  /\ pc = "take" /\ queue # <<>>
  /\ queue' = Tail(queue)
  /\ wkey' = Head(queue)
  /\ pc' = "taken"
  /\ UNCHANGED <<latestByKey, queuedKeys, activeKeys, wvalue, issued, settled, drain>>

\* The second transaction: the pending value becomes the one in process and the key
\* is active; a key with no pending value is dropped, which never happens.
Claim ==
  /\ pc = "taken"
  /\ queuedKeys' = queuedKeys \ {wkey}
  /\ IF latestByKey[wkey] = NoValue
       THEN /\ pc' = "take" /\ wkey' = NoKey
            /\ UNCHANGED <<latestByKey, activeKeys, wvalue>>
       ELSE /\ activeKeys' = activeKeys \cup {wkey}
            /\ wvalue' = latestByKey[wkey]
            /\ latestByKey' = [latestByKey EXCEPT ![wkey] = NoValue]
            /\ pc' = "processing"
            /\ UNCHANGED wkey
  /\ UNCHANGED <<queue, issued, settled, drain>>

ProcessEndsBug(outcome) ==  \* forgets what was merged meanwhile
  /\ pc = "processing"
  /\ pc' = outcome
  /\ settled' = [settled EXCEPT ![wkey] = wvalue]
  /\ latestByKey' = [latestByKey EXCEPT ![wkey] = NoValue]
  /\ wvalue' = NoValue
  /\ UNCHANGED <<queue, queuedKeys, activeKeys, wkey, issued, drain>>

\* options.process returns, or fails.
ProcessEnds(outcome) ==
  /\ pc = "processing"
  /\ pc' = outcome
  /\ settled' = [settled EXCEPT ![wkey] = wvalue]
  /\ wvalue' = NoValue
  /\ UNCHANGED <<queue, latestByKey, queuedKeys, activeKeys, wkey, issued, drain>>
ProcessOk == ProcessEnds("processed")
ProcessFail == ProcessEnds("failed")

\* processKey after a success: go on with a value merged meanwhile ...
Continue ==
  /\ pc = "processed" /\ latestByKey[wkey] # NoValue
  /\ wvalue' = latestByKey[wkey]
  /\ latestByKey' = [latestByKey EXCEPT ![wkey] = NoValue]
  /\ pc' = "processing"
  /\ UNCHANGED <<queue, queuedKeys, activeKeys, wkey, issued, settled, drain>>

\* ... or release the key.
Release ==
  /\ pc = "processed" /\ latestByKey[wkey] = NoValue
  /\ activeKeys' = activeKeys \ {wkey}
  /\ pc' = "take" /\ wkey' = NoKey
  /\ UNCHANGED <<queue, latestByKey, queuedKeys, wvalue, issued, settled, drain>>

\* cleanupFailedKey's transaction: it puts a key with a pending value back.
Cleanup ==
  /\ pc = "failed"
  /\ activeKeys' = activeKeys \ {wkey}
  /\ IF latestByKey[wkey] # NoValue /\ wkey \notin queuedKeys
       THEN /\ queuedKeys' = queuedKeys \cup {wkey}
            /\ pc' = "requeue"
            /\ UNCHANGED wkey
       ELSE /\ pc' = "take" /\ wkey' = NoKey
            /\ UNCHANGED queuedKeys
  /\ UNCHANGED <<queue, latestByKey, wvalue, issued, settled, drain>>

RequeueBug ==  \* forgets the offer
  /\ pc = "requeue"
  /\ pc' = "take" /\ wkey' = NoKey
  /\ UNCHANGED <<queue, latestByKey, queuedKeys, activeKeys, wvalue, issued, settled, drain>>

\* cleanupFailedKey's offer, outside that transaction.
Requeue ==
  /\ pc = "requeue"
  /\ queue' = Append(queue, wkey)
  /\ pc' = "take" /\ wkey' = NoKey
  /\ UNCHANGED <<latestByKey, queuedKeys, activeKeys, wvalue, issued, settled, drain>>

\* A fiber calls drainKey(k) ...
DrainCall(d, k) ==
  /\ drain[d] = NotDraining
  /\ drain' = [drain EXCEPT ![d] = [key |-> k, upTo |-> issued[k]]]
  /\ UNCHANGED <<queue, latestByKey, queuedKeys, activeKeys, worker, issued, settled>>

DrainedBug(k) == latestByKey[k] = NoValue /\ k \notin queuedKeys

\* ... whose transaction is retried until the key has no work of any kind.
Drained(k) == latestByKey[k] = NoValue /\ ~Claimed(k)
DrainReturn(d) ==
  /\ drain[d] # NotDraining
  /\ Drained(drain[d].key)
  /\ drain' = [drain EXCEPT ![d] = NotDraining]
  /\ UNCHANGED <<queue, latestByKey, queuedKeys, activeKeys, worker, issued, settled>>

WorkerStep ==
  \/ Take \/ Claim
  \/ ProcessOk \/ ProcessFail
  \/ Continue \/ Release
  \/ Cleanup \/ Requeue

Next ==
  \/ WorkerStep
  \/ \E k \in Keys : Enqueue(k)
  \/ \E d \in Drainers, k \in Keys : DrainCall(d, k)
  \/ \E d \in Drainers : DrainReturn(d)

Spec == Init /\ [][Next]_vars

\* The worker fiber and every waiting drainer are scheduled; nobody has to enqueue.
Fairness == WF_vars(WorkerStep) /\ \A d \in Drainers : WF_vars(DrainReturn(d))
FairSpec == Spec /\ Fairness

-----------------------------------------------------------------------------
\* The key between Take and its transaction, or between cleanupFailedKey's
\* transaction and its offer: queued by the bookkeeping, absent from the queue.
InTransit == IF pc \in {"taken", "requeue"} THEN {wkey} ELSE {}

\* The bookkeeping is the queue: every queued key is in the queue exactly once
\* or in transit, so no key is ever processed twice for one claim or forgotten.
QueueIsBookkeeping ==
  /\ \A i, j \in 1 .. Len(queue) : queue[i] = queue[j] => i = j
  /\ queuedKeys = {queue[i] : i \in 1 .. Len(queue)} \cup InTransit
  /\ \A i \in 1 .. Len(queue) : queue[i] \notin InTransit

\* The key being processed is the one active key.
ActiveIsWorker ==
  activeKeys = IF pc \in {"processing", "processed", "failed"} THEN {wkey} ELSE {}

\* A pending value always has a claim on its key: whatever the order of
\* enqueues, failures and requeues, some later worker step will pick it up.
NoOrphanedValue == \A k \in Keys : latestByKey[k] # NoValue => Claimed(k)

\* Every generation issued for a key is settled, in process, or covered by the
\* pending value: coalescing never drops the last value.
LatestNeverLost ==
  \A k \in Keys : \/ issued[k] = settled[k]
                  \/ issued[k] = latestByKey[k]
                  \/ wkey = k /\ pc = "processing" /\ issued[k] = wvalue

\* drainKey's promise (its header comment): it returns only when everything
\* enqueued for the key before the call has been processed.
DrainKeyIsComplete ==
  [][\A d \in Drainers : drain[d] # NotDraining /\ drain'[d] = NotDraining
       => settled[drain[d].key] >= drain[d].upTo]_vars

\* A key's values are processed in the order they were enqueued: processing
\* never goes back to an older generation.
NeverOlder == [][\A k \in Keys : settled'[k] >= settled[k]]_vars

\* Every drainKey call returns, whatever fails, once enqueues stop.
DrainReturns == \A d \in Drainers : drain[d] # NotDraining ~> drain[d] = NotDraining
=============================================================================
