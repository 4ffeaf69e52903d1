---------------------------- MODULE DrainableWorker ----------------------------
(***************************************************************************)
(* packages/shared/src/DrainableWorker.ts: one worker fiber over an        *)
(* unbounded queue, with a count of outstanding items that drain waits on. *)
(* The server's reactors (provider commands, runtime ingestion,            *)
(* checkpoints, thread deletion) handle their events through it.           *)
(*                                                                         *)
(* An item is its number in the order of enqueueing.  Each Effect.tx is    *)
(* one action; taking an item and counting it off are apart.               *)
(***************************************************************************)
EXTENDS Naturals, Sequences

CONSTANTS
  Drainers,  \* the fibers that run drain
  MaxItems   \* bound: items enqueued

ASSUME DrainableAssumption == MaxItems \in Nat

NoItem == 0

VARIABLES
  queue,        \* the TxQueue
  outstanding,  \* the TxRef that drain reads
  pc,           \* the worker fiber: taking, busy, ended with an item, dead
  item,         \* the item it has taken
  next,         \* observation: the number of the next item
  done,         \* observation: items whose processing has ended
  waitsFor      \* each drainer: the items enqueued before its call, if it waits

vars == <<queue, outstanding, pc, item, next, done, waitsFor>>

PCs == {"take", "busy", "ended", "failed", "dead"}
NotWaiting == [waits |-> FALSE, items |-> {}]

TypeOK ==
  /\ queue \in Seq(1 .. MaxItems)
  /\ outstanding \in Nat
  /\ pc \in PCs
  /\ item \in 0 .. MaxItems
  /\ next \in 1 .. MaxItems + 1
  /\ done \subseteq 1 .. MaxItems
  /\ waitsFor \in [Drainers -> [waits : BOOLEAN, items : SUBSET (1 .. MaxItems)]]

Init ==
  /\ queue = <<>> /\ outstanding = 0
  /\ pc = "take" /\ item = NoItem
  /\ next = 1 /\ done = {}
  /\ waitsFor = [d \in Drainers |-> NotWaiting]

\* (Variants named ...Bug stand for plausible mistakes; nothing here uses them.)
\* enqueue: offer the item and count it, in one transaction.
Enqueue ==
  /\ next <= MaxItems
  /\ queue' = Append(queue, next)
  /\ outstanding' = outstanding + 1
  /\ next' = next + 1
  /\ UNCHANGED <<pc, item, done, waitsFor>>

\* The worker takes the oldest item.
Take ==
  /\ pc = "take" /\ queue # <<>>
  /\ item' = Head(queue)
  /\ queue' = Tail(queue)
  /\ pc' = "busy"
  /\ UNCHANGED <<outstanding, next, done, waitsFor>>

\* process(a) ends; it fails only when the reactor is interrupted.
ProcessEnds(outcome) ==
  /\ pc = "busy"
  /\ pc' = outcome
  /\ done' = done \cup {item}
  /\ UNCHANGED <<queue, outstanding, item, next, waitsFor>>
ProcessOk == ProcessEnds("ended")
ProcessFails == ProcessEnds("failed")

CountOffNeverBug ==  \* never counts off
  /\ pc \in {"ended", "failed"}
  /\ item' = NoItem
  /\ pc' = IF pc = "ended" THEN "take" ELSE "dead"
  /\ UNCHANGED <<queue, outstanding, next, done, waitsFor>>

\* Effect.ensuring counts the item off; a failure then ends Effect.forever.
CountOff ==
  /\ pc \in {"ended", "failed"}
  /\ outstanding' = outstanding - 1
  /\ item' = NoItem
  /\ pc' = IF pc = "ended" THEN "take" ELSE "dead"
  /\ UNCHANGED <<queue, next, done, waitsFor>>

\* A fiber runs drain ...
DrainCall(d) ==
  /\ ~waitsFor[d].waits
  /\ waitsFor' = [waitsFor EXCEPT ![d] = [waits |-> TRUE, items |-> 1 .. next - 1]]
  /\ UNCHANGED <<queue, outstanding, pc, item, next, done>>

DrainedBug == queue = <<>>  \* infers the state from the queue

\* ... whose transaction is retried while anything is outstanding.
Drained == outstanding = 0
DrainReturn(d) ==
  /\ waitsFor[d].waits /\ Drained
  /\ waitsFor' = [waitsFor EXCEPT ![d] = NotWaiting]
  /\ UNCHANGED <<queue, outstanding, pc, item, next, done>>

WorkerStep == Take \/ ProcessOk \/ ProcessFails \/ CountOff
Next == Enqueue \/ WorkerStep \/ \E d \in Drainers : DrainCall(d) \/ DrainReturn(d)

Spec == Init /\ [][Next]_vars

\* The worker fiber and every waiting drainer are scheduled.
FairSpec == Spec /\ WF_vars(WorkerStep) /\ \A d \in Drainers : WF_vars(DrainReturn(d))

-----------------------------------------------------------------------------
\* outstanding counts the queue and the item in the worker's hands, at every
\* moment a drainer may look, between take and count-off too.
OutstandingIsBacklog == outstanding = Len(queue) + IF item = NoItem THEN 0 ELSE 1

\* drain resolves "when the queue is empty and the worker is idle": everything
\* enqueued before the call has been processed, whatever was enqueued since.
DrainIsComplete ==
  [][\A d \in Drainers : waitsFor[d].waits /\ ~waitsFor'[d].waits
       => waitsFor[d].items \subseteq done]_vars

\* Every drain resolves, unless the processor has failed.
DrainReturns == \A d \in Drainers : waitsFor[d].waits ~> ~waitsFor[d].waits \/ pc = "dead"

=============================================================================
