------------------------- MODULE OrchestrationEngine -------------------------
(***************************************************************************)
(* orchestration/Layers/OrchestrationEngine.ts over its SQLite store: one  *)
(* worker fiber takes commands off a queue, looks up the command's receipt,*)
(* decides the command on the in-memory read model, appends and projects   *)
(* its events and its receipt in one transaction, publishes the events and *)
(* answers the caller.  The process may crash and restart at any point.    *)
(*                                                                         *)
(* Durable: the event log, the command receipts, the SQL projection.       *)
(* Volatile: everything else.                                              *)
(*                                                                         *)
(* A transaction holds the single SQLite connection, so nothing else reads *)
(* the store inside it: its effects are staged in tx and take effect at    *)
(* Commit.  The log's sequence numbers are its indices: an aborted         *)
(* transaction also rolls back AUTOINCREMENT.                              *)
(***************************************************************************)
EXTENDS CommandModel

CONSTANTS
  Attempts,    \* calls of dispatch; several may carry the same command id
  AttemptOf,   \* the command id each attempt carries
  NoAttempt,   \* the worker handles no command
  NoTx,        \* no transaction is open
  Faults,      \* the storage faults that may happen
  MaxFaults,   \* bound: how many of them
  MaxCrashes   \* bound: crashes of the process

FaultKinds == {"lookup",    \* reading the receipt fails
               "tx",        \* a statement of the transaction fails
               "commit",    \* COMMIT reports an error although it took effect
               "reconcile", \* re-reading the log after a failure fails
               "receipt"}   \* writing a rejection's receipt fails

ASSUME AttemptsAssumption == AttemptOf \in [Attempts -> CommandIds] /\ NoAttempt \notin Attempts
ASSUME FaultsAssumption == Faults \subseteq FaultKinds /\ MaxFaults \in Nat /\ MaxCrashes \in Nat
ASSUME EmptyAssumption == NoTx \notin [base : Nat, todo : Seq(Event), log : Seq(Event), sql : View, model : View]

VARIABLES
  log,        \* durable: orchestration_events, index = sequence
  receipts,   \* durable: orchestration_command_receipts
  sql,        \* durable: the projection tables
  queue,      \* commandQueue: attempts
  pc,         \* where the worker fiber is
  cur,        \* the attempt it handles
  startSeq,   \* dispatchStartSequence
  model,      \* commandReadModel
  seq,        \* commandReadModel.snapshotSequence
  tx,         \* the open transaction
  answer,     \* what the attempt will be told
  reply,      \* what each attempt has been told
  published,  \* eventPubSub: sequences published since the last start
  bootSeq,    \* observation: Len(log) at the last start
  crashes, faults

durable == <<log, receipts, sql>>
counters == <<crashes, faults>>
vars == <<durable, queue, pc, cur, startSeq, model, seq, tx, answer, reply, published, bootSeq, counters>>

PCs == {"down", "idle", "lookup", "decide", "append", "publish", "reconcile", "catchUp", "reject", "reply"}
NoReceipt == [status |-> "none", seq |-> 0]
Receipt == [status : {"none", "accepted", "rejected"}, seq : Nat]
Answer == [status : {"none", "pending", "ok", "rejected", "previouslyRejected", "failed", "lost"},
           seq : Nat]
Told(status) == [status |-> status, seq |-> 0]

TypeOK ==
  /\ log \in Seq(Event)
  /\ receipts \in [CommandIds -> Receipt]
  /\ sql \in View
  /\ queue \in Seq(Attempts)
  /\ pc \in PCs
  /\ cur \in Attempts \cup {NoAttempt}
  /\ startSeq \in Nat /\ seq \in Nat
  /\ model \in View
  /\ tx \in [base : Nat, todo : Seq(Event), log : Seq(Event), sql : View, model : View] \cup {NoTx}
  /\ answer \in Answer
  /\ reply \in [Attempts -> Answer]
  /\ published \in Seq(Nat)
  /\ bootSeq \in Nat
  /\ crashes \in 0 .. MaxCrashes /\ faults \in 0 .. MaxFaults

\* A new installation, its server not started yet.
Init ==
  /\ log = <<>> /\ sql = EmptyView
  /\ receipts = [c \in CommandIds |-> NoReceipt]
  /\ queue = <<>> /\ pc = "down" /\ cur = NoAttempt
  /\ startSeq = 0 /\ model = EmptyView /\ seq = 0
  /\ tx = NoTx /\ answer = Told("none")
  /\ reply = [a \in Attempts |-> Told("none")]
  /\ published = <<>> /\ bootSeq = 0
  /\ crashes = 0 /\ faults = 0

cmd == AttemptOf[cur]

\* The sequence numbers after one and up to another.
Sequences(from, to) == [i \in 1 .. to - from |-> from + i]

\* A storage fault of some kind, which counts against the bound.
Fault(kind) == kind \in Faults /\ faults < MaxFaults /\ faults' = faults + 1

-----------------------------------------------------------------------------
\* dispatch: offer the envelope, then wait for its Deferred.
Dispatch(a) ==
  /\ pc # "down" /\ reply[a] = Told("none")
  /\ queue' = Append(queue, a)
  /\ reply' = [reply EXCEPT ![a] = Told("pending")]
  /\ UNCHANGED <<durable, pc, cur, startSeq, model, seq, tx, answer, published, bootSeq, counters>>

Take ==
  /\ pc = "idle" /\ queue # <<>>
  /\ cur' = Head(queue)
  /\ queue' = Tail(queue)
  /\ startSeq' = seq
  /\ pc' = "lookup"
  /\ UNCHANGED <<durable, model, seq, tx, answer, reply, published, bootSeq, counters>>

\* (Variants named ...Bug stand for plausible mistakes; nothing here uses them.)
KnownCommandBug ==  \* does not look at the receipt's status
  /\ pc = "lookup" /\ receipts[cmd].status # "none"
  /\ answer' = [status |-> "ok", seq |-> receipts[cmd].seq]
  /\ pc' = "reply"
  /\ UNCHANGED <<durable, queue, cur, startSeq, model, seq, tx, reply, published, bootSeq, counters>>

\* The receipt lookup: a known command is answered from its receipt.
KnownCommand ==
  /\ pc = "lookup" /\ receipts[cmd].status # "none"
  /\ answer' = IF receipts[cmd].status = "accepted"
                 THEN [status |-> "ok", seq |-> receipts[cmd].seq]
                 ELSE Told("previouslyRejected")
  /\ pc' = "reply"
  /\ UNCHANGED <<durable, queue, cur, startSeq, model, seq, tx, reply, published, bootSeq, counters>>

NewCommand ==
  /\ pc = "lookup" /\ receipts[cmd].status = "none"
  /\ pc' = "decide"
  /\ UNCHANGED <<durable, queue, cur, startSeq, model, seq, tx, answer, reply, published, bootSeq, counters>>

LookupFails ==
  /\ pc = "lookup" /\ Fault("lookup")
  /\ answer' = Told("failed")
  /\ pc' = "reconcile"
  /\ UNCHANGED <<durable, queue, cur, startSeq, model, seq, tx, reply, published, bootSeq, crashes>>

\* The command is decided on the in-memory model; its transaction opens ...
Decide ==
  /\ pc = "decide"
  /\ \E events \in Decisions(model, cmd) :
       tx' = [base |-> Len(log), todo |-> events, log |-> log, sql |-> sql, model |-> model]
  /\ pc' = "append"
  /\ UNCHANGED <<durable, queue, cur, startSeq, model, seq, answer, reply, published, bootSeq, counters>>

\* ... or it breaks an invariant.
Refuse ==
  /\ pc = "decide" /\ Decisions(model, cmd) = {}
  /\ answer' = Told("rejected")
  /\ pc' = "reconcile"
  /\ UNCHANGED <<durable, queue, cur, startSeq, model, seq, tx, reply, published, bootSeq, counters>>

\* One turn of the loop over the events: append, project in memory, project in SQL.
AppendEvent ==
  /\ pc = "append" /\ tx.todo # <<>>
  /\ tx' = [tx EXCEPT !.todo = Tail(@),
                      !.log = Append(@, Head(tx.todo)),
                      !.model = ProjectInMemory(@, Head(tx.todo)),
                      !.sql = ProjectInSql(@, Head(tx.todo))]
  /\ UNCHANGED <<durable, queue, pc, cur, startSeq, model, seq, answer, reply, published, bootSeq, counters>>

PersistBug ==  \* projects outside the transaction
  /\ log' = tx.log
  /\ receipts' = [receipts EXCEPT ![cmd] = [status |-> "accepted", seq |-> Len(tx.log)]]
  /\ UNCHANGED sql

\* The store takes the transaction: events, projection and receipt at once.
Persist ==
  /\ log' = tx.log
  /\ sql' = tx.sql
  /\ receipts' = [receipts EXCEPT ![cmd] = [status |-> "accepted", seq |-> Len(tx.log)]]

CommitBug ==  \* keeps the old model
  /\ pc = "append" /\ tx.todo = <<>>
  /\ Persist
  /\ seq' = Len(tx.log)
  /\ answer' = [status |-> "ok", seq |-> Len(tx.log)]
  /\ pc' = "publish"
  /\ UNCHANGED <<queue, cur, startSeq, model, tx, reply, published, bootSeq, counters>>

\* The receipt is upserted, the transaction commits, the model is replaced.
Commit ==
  /\ pc = "append" /\ tx.todo = <<>>
  /\ Persist
  /\ model' = tx.model
  /\ seq' = Len(tx.log)
  /\ answer' = [status |-> "ok", seq |-> Len(tx.log)]
  /\ pc' = "publish"
  /\ UNCHANGED <<queue, cur, startSeq, tx, reply, published, bootSeq, counters>>

TxFailsBug ==  \* every event is stored as it comes
  /\ pc = "append" /\ Fault("tx")
  /\ log' = tx.log /\ sql' = tx.sql
  /\ tx' = NoTx
  /\ answer' = Told("failed")
  /\ pc' = "reconcile"
  /\ UNCHANGED <<receipts, queue, cur, startSeq, model, seq, reply, published, bootSeq, crashes>>

\* A statement fails anywhere in the transaction: all of it is rolled back.
TxFails ==
  /\ pc = "append" /\ Fault("tx")
  /\ tx' = NoTx
  /\ answer' = Told("failed")
  /\ pc' = "reconcile"
  /\ UNCHANGED <<durable, queue, cur, startSeq, model, seq, reply, published, bootSeq, crashes>>

\* COMMIT fails for the caller, yet the transaction is in the store: the case
\* reconcileReadModelAfterDispatchFailure is there for.
CommitUncertain ==
  /\ pc = "append" /\ tx.todo = <<>> /\ Fault("commit")
  /\ Persist
  /\ tx' = NoTx
  /\ answer' = Told("failed")
  /\ pc' = "reconcile"
  /\ UNCHANGED <<queue, cur, startSeq, model, seq, reply, published, bootSeq, crashes>>

\* Every event of the command is published, in order.
Publish ==
  /\ pc = "publish"
  /\ published' = published \o Sequences(tx.base, Len(log))
  /\ tx' = NoTx
  /\ pc' = "reply"
  /\ UNCHANGED <<durable, queue, cur, startSeq, model, seq, answer, reply, bootSeq, counters>>

ReconcileBug ==  \* believes that a failure leaves nothing in the log
  /\ pc = "reconcile"
  /\ pc' = IF answer.status = "rejected" THEN "reject" ELSE "reply"
  /\ UNCHANGED <<durable, queue, cur, startSeq, model, seq, tx, answer, reply, published, bootSeq, counters>>

\* A failure other than "previously rejected": the log is read again beyond the
\* sequence the command started from ...
Reconcile ==
  /\ pc = "reconcile"
  /\ pc' = "catchUp"
  /\ UNCHANGED <<durable, queue, cur, startSeq, model, seq, tx, answer, reply, published, bootSeq, counters>>

\* ... what it holds there is projected onto the model, event by event ...
CatchUp ==
  /\ pc = "catchUp" /\ seq < Len(log)
  /\ model' = ProjectInMemory(model, log[seq + 1])
  /\ seq' = seq + 1
  /\ UNCHANGED <<durable, queue, pc, cur, startSeq, tx, answer, reply, published, bootSeq, counters>>

\* ... and then published.
AfterReconcile == IF answer.status = "rejected" THEN "reject" ELSE "reply"
PublishMissedBug ==  \* publishes the whole log again
  /\ pc = "catchUp" /\ seq = Len(log)
  /\ published' = published \o Sequences(0, Len(log))
  /\ pc' = AfterReconcile
  /\ UNCHANGED <<durable, queue, cur, startSeq, model, seq, tx, answer, reply, bootSeq, counters>>
PublishMissedNothingBug ==  \* catches up in silence
  /\ pc = "catchUp" /\ seq = Len(log)
  /\ pc' = AfterReconcile
  /\ UNCHANGED <<durable, queue, cur, startSeq, model, seq, tx, answer, reply, published, bootSeq, counters>>
PublishMissed ==
  /\ pc = "catchUp" /\ seq = Len(log)
  /\ published' = published \o Sequences(startSeq, Len(log))
  /\ pc' = AfterReconcile
  /\ UNCHANGED <<durable, queue, cur, startSeq, model, seq, tx, answer, reply, bootSeq, counters>>

\* The re-read fails: a warning is logged and the model stays as it is.
ReconcileFails ==
  /\ pc = "reconcile" /\ Fault("reconcile")
  /\ pc' = AfterReconcile
  /\ UNCHANGED <<durable, queue, cur, startSeq, model, seq, tx, answer, reply, published, bootSeq, crashes>>

\* A refused command gets a receipt of its own ...
RecordRejection ==
  /\ pc = "reject"
  /\ receipts' = [receipts EXCEPT ![cmd] = [status |-> "rejected", seq |-> seq]]
  /\ pc' = "reply"
  /\ UNCHANGED <<log, sql, queue, cur, startSeq, model, seq, tx, answer, reply, published, bootSeq, counters>>

\* ... unless writing it fails, which is ignored.
RejectionLost ==
  /\ pc = "reject" /\ Fault("receipt")
  /\ pc' = "reply"
  /\ UNCHANGED <<durable, queue, cur, startSeq, model, seq, tx, answer, reply, published, bootSeq, crashes>>

ReplyBug ==  \* does not tell of failures
  /\ pc = "reply"
  /\ reply' = IF answer.status = "failed" THEN reply ELSE [reply EXCEPT ![cur] = answer]
  /\ answer' = Told("none")
  /\ cur' = NoAttempt
  /\ pc' = "idle"
  /\ UNCHANGED <<durable, queue, startSeq, model, seq, tx, published, bootSeq, counters>>

\* The Deferred is completed.
Reply ==
  /\ pc = "reply"
  /\ reply' = [reply EXCEPT ![cur] = answer]
  /\ answer' = Told("none")
  /\ cur' = NoAttempt
  /\ pc' = "idle"
  /\ UNCHANGED <<durable, queue, startSeq, model, seq, tx, published, bootSeq, counters>>

\* The process dies: only the store survives, and every waiting caller loses
\* its connection.
Crash ==
  /\ pc # "down" /\ crashes < MaxCrashes
  /\ crashes' = crashes + 1
  /\ pc' = "down"
  /\ queue' = <<>> /\ cur' = NoAttempt /\ tx' = NoTx /\ answer' = Told("none")
  /\ reply' = [a \in Attempts |-> IF reply[a] = Told("pending") THEN Told("lost") ELSE reply[a]]
  /\ model' = EmptyView /\ seq' = 0 /\ startSeq' = 0 /\ published' = <<>>
  /\ UNCHANGED <<durable, bootSeq, faults>>

\* Startup: the projections are already at the log's end (each event is projected
\* in its own transaction), the model is loaded from them, the worker starts.
Boot ==
  /\ pc = "down"
  /\ model' = CommandReadModel(sql)
  /\ seq' = Len(log)
  /\ bootSeq' = Len(log)
  /\ pc' = "idle"
  /\ UNCHANGED <<durable, queue, cur, startSeq, tx, answer, reply, published, counters>>

WorkerStep ==
  \/ Take \/ KnownCommand \/ NewCommand \/ LookupFails
  \/ Decide \/ Refuse
  \/ AppendEvent \/ Commit \/ TxFails \/ CommitUncertain
  \/ Publish \/ Reconcile \/ CatchUp \/ PublishMissed \/ ReconcileFails
  \/ RecordRejection \/ RejectionLost \/ Reply

Next == WorkerStep \/ Boot \/ Crash \/ \E a \in Attempts : Dispatch(a)

Spec == Init /\ [][Next]_vars

\* The worker fiber runs forever and a server that is down is started again.
Fairness == WF_vars(WorkerStep) /\ WF_vars(Boot)
FairSpec == Spec /\ Fairness

-----------------------------------------------------------------------------
Positions(c) == {i \in 1 .. Len(log) : log[i].cmd = c}

\* What the first n events of the log amount to.
ViewAt(n) == ViewsAlong(EmptyView, log)[n]

\* A command is in the log completely or not at all, in one block that ends at
\* the sequence of its receipt, and never twice: whatever was retried, rolled
\* back, or cut off by a crash.
CommandsAreAtomic ==
  \A c \in CommandIds : LET here == Positions(c) IN
    /\ here # {} <=> receipts[c].status = "accepted"
    /\ here # {} => here = receipts[c].seq - Cardinality(here) + 1 .. receipts[c].seq
    /\ \A i, j \in here : log[i] = log[j] => i = j

\* The projection tables are what the log amounts to, at every moment another
\* connection or a restart may look at them.
ProjectionIsLog == sql = ViewAt(Len(log))

\* What decisions depend on, but for plans.
Decisive(v) ==
  [projects |-> v.projects,
   threads |-> [t \in Threads |-> IF HasThread(v, t)
     THEN <<v.threads[t].project, v.threads[t].archived, v.threads[t].deleted, v.threads[t].mode>>
     ELSE <<>>]]

\* Between commands the in-memory model is current: no commit, no reconciled
\* failure and no restart leaves it behind the store.
Deciding == pc \in {"idle", "lookup", "decide"}
ModelIsCurrent == Deciding => seq = Len(log) /\ Decisive(model) = Decisive(sql)

\* So are its proposed plans.
PlansAreCurrent ==
  Deciding => \A t \in Threads : HasThread(model, t) => model.threads[t].plans = sql.threads[t].plans

\* Even when reconciling fails, nothing is published twice, out of order or
\* without being in the log.
NeverPublishedTwice ==
  /\ \A i, j \in 1 .. Len(published) : i < j => published[i] < published[j]
  /\ \A i \in 1 .. Len(published) : published[i] \in bootSeq + 1 .. Len(log)

\* What a caller was told stays true: an acknowledged sequence is that of the
\* command's last event, a refused command has no event and never gets one.
RepliesAreTrue ==
  \A a \in Attempts :
    /\ reply[a].status = "ok" =>
         /\ reply[a].seq \in Positions(AttemptOf[a])
         /\ receipts[AttemptOf[a]] = [status |-> "accepted", seq |-> reply[a].seq]
    /\ reply[a].status \in {"rejected", "previouslyRejected"} => Positions(AttemptOf[a]) = {}

\* A turn starts in the mode its thread has in the log at that point.
TurnStartsInCurrentMode ==
  \A i \in 1 .. Len(log) : log[i].type = "thread.turn-start-requested" =>
    log[i].mode = ViewAt(i - 1).threads[log[i].id].mode

\* A project is deleted only when the same command has left it no active thread.
DeletedProjectIsEmpty ==
  \A i \in 1 .. Len(log) : log[i].type = "project.deleted" =>
    ActiveThreads(ViewAt(i), log[i].id) = {}

\* The log is append-only and a receipt is final, across crashes too.
HistoryIsFinal ==
  [][/\ IsPrefix(log, log')
     /\ \A c \in CommandIds : receipts[c].status # "none" => receipts'[c] = receipts[c]]_vars

\* Refusing a turn for a plan that does not exist is right about the store: no
\* such plan is in the projection tables.
RefusedPlanIsAbsent ==
  pc = "decide" /\ CommandOf[cmd].type = "thread.turn.start" /\ Accepts(sql, CommandOf[cmd])
    => Accepts(model, CommandOf[cmd])

\* The engine implements CommandLog: whatever is queued, retried, rolled back, cut
\* off or refused, each command takes effect once, at one moment, on the current state.
Promised == INSTANCE CommandLog WITH view <- sql,
                                     outcome <- [c \in CommandIds |-> receipts[c].status]
ImplementsCommandLog == Promised!Spec

\* Every call of dispatch ends: an answer, or a lost connection.
EveryCallIsAnswered ==
  \A a \in Attempts : reply[a] = Told("pending") ~> reply[a] # Told("pending")

\* What is committed is published to the subscribers of this run of the server,
\* unless it has been restarted since, or a failed reconciliation leaves the model
\* behind the log until a later commit hides the gap.
CommittedIsPublished ==
  \A c \in CommandIds : receipts[c].status = "accepted" ~>
    \/ receipts[c].seq <= bootSeq
    \/ \E i \in 1 .. Len(published) : published[i] >= receipts[c].seq
    \/ pc = "idle" /\ seq < receipts[c].seq
=============================================================================
