----------------------- MODULE OrchestrationEngineProofs -----------------------
(***************************************************************************)
(* Proofs about OrchestrationEngine, for every set of commands, attempts   *)
(* and faults and any number of crashes: the types, atomicity, finality,   *)
(* the replies and the publications first; then the views along the log,   *)
(* the currency of the model, and the refinement of CommandLog.            *)
(***************************************************************************)
EXTENDS OrchestrationEngine, FiniteSetTheorems, WellFoundedInduction, TLAPS

-----------------------------------------------------------------------------
(* What commands and events are made of.                                   *)

\* A command has the fields its type announces.
LEMMA CommandFields ==
  ASSUME NEW k \in Command
  PROVE  /\ k.type \in {"project.create", "project.meta.update", "project.delete"}
              => k.project \in Projects
         /\ k.type = "project.delete" => k.force \in BOOLEAN
         /\ k.type = "thread.create" => k.project \in Projects /\ k.mode \in Modes
         /\ k.type \notin {"project.create", "project.meta.update", "project.delete"}
              => k.thread \in Threads
         /\ k.type = "thread.runtime-mode.set" => k.mode \in Modes
         /\ k.type = "thread.proposed-plan.upsert"
              => k.plan \in Plans /\ k.turn \in Turns \cup {NoTurn}
         /\ k.type = "thread.turn.diff.complete"
              => k.turn \in Turns /\ k.count \in TurnCounts /\ k.status \in Statuses
  BY DEF Command, PlainCommands, PlainEvent

LEMMA EvTyped ==
  ASSUME NEW c \in CommandIds, NEW type \in EventTypes, NEW id \in Projects \cup Threads
  PROVE  Ev(c, type, id) \in Event /\ Ev(c, type, id).cmd = c /\ Ev(c, type, id).type = type
         /\ Ev(c, type, id).id = id
  BY DEF Ev, Event

\* An event as some decision on its command produced it.
Genuine(e) ==
  /\ e \in Event
  /\ e.type = "thread.created" => CommandOf[e.cmd].type = "thread.create"
  /\ e.type = "thread.runtime-mode-set" => CommandOf[e.cmd].type = "thread.runtime-mode.set"
  /\ e.type = "thread.proposed-plan-upserted"
       => CommandOf[e.cmd].type = "thread.proposed-plan.upsert"
  /\ e.type = "thread.turn-diff-completed"
       => CommandOf[e.cmd].type = "thread.turn.diff.complete" /\ CommandOf[e.cmd].thread = e.id
  /\ e.type = "thread.reverted" => CommandOf[e.cmd].type = "thread.revert.complete"

\* The events of one decision: some, all of the command, no two alike.
Block(events, c) ==
  /\ events \in Seq(Event) /\ Len(events) > 0
  /\ \A i \in 1 .. Len(events) : Genuine(events[i]) /\ events[i].cmd = c
  /\ \A i, j \in 1 .. Len(events) : events[i] = events[j] => i = j

LEMMA OneBlock ==
  ASSUME NEW e, Genuine(e)
  PROVE  Block(<<e>>, e.cmd)
  BY DEF Block, Genuine

\* A plain command's event is of none of the types that carry its payload.
LEMMA PlainTypes ==
  ASSUME NEW type \in PlainCommands
  PROVE  /\ PlainEvent[type] \in EventTypes
         /\ PlainEvent[type] # "thread.created"
         /\ PlainEvent[type] # "thread.runtime-mode-set"
         /\ PlainEvent[type] # "thread.proposed-plan-upserted"
         /\ PlainEvent[type] # "thread.turn-diff-completed"
         /\ PlainEvent[type] \notin {"thread.reverted", "thread.turn-start-requested",
                                     "project.deleted"}
<1>1. PlainEvent[type] \in EventTypes
  BY DEF EventTypes
<1>2. PlainEvent[type] # "thread.created"
  BY DEF PlainCommands, PlainEvent
<1>3. PlainEvent[type] # "thread.runtime-mode-set"
  BY DEF PlainCommands, PlainEvent
<1>4. PlainEvent[type] # "thread.proposed-plan-upserted"
  BY DEF PlainCommands, PlainEvent
<1>5. PlainEvent[type] # "thread.turn-diff-completed"
  BY DEF PlainCommands, PlainEvent
<1>6. PlainEvent[type] \notin {"thread.reverted", "thread.turn-start-requested", "project.deleted"}
  BY DEF PlainCommands, PlainEvent
<1> QED
  BY <1>1, <1>2, <1>3, <1>4, <1>5, <1>6

LEMMA EventTypesAre ==
  {"project.created", "project.meta-updated", "project.deleted", "thread.created",
   "thread.deleted", "thread.archived", "thread.unarchived", "thread.runtime-mode-set",
   "thread.turn-start-requested", "thread.proposed-plan-upserted",
   "thread.turn-diff-completed", "thread.reverted", "thread.message-sent"} \subseteq EventTypes
<1>1. "thread.message.assistant.delta" \in PlainCommands
  BY DEF PlainCommands, PlainEvent
<1>2. PlainEvent["thread.message.assistant.delta"] = "thread.message-sent"
  BY DEF PlainEvent
<1>3. "thread.message-sent" \in EventTypes
  BY <1>1, <1>2 DEF EventTypes
<1> QED
  BY <1>3 DEF EventTypes

\* The two events of a turn start are a block.
LEMMA TurnStartBlock ==
  ASSUME NEW v \in View, NEW c \in CommandIds, NEW t \in Threads, HasThread(v, t)
  PROVE  Block(TurnStart(v, c, t), c)
<1>1. v.threads[t] \in Thread
  BY DEF View, HasThread
<1>2. v.threads[t].mode \in Modes
  BY <1>1 DEF Thread
<1> DEFINE a == Ev(c, "thread.message-sent", t)
           b == [cmd |-> c, type |-> "thread.turn-start-requested", id |-> t,
                 mode |-> v.threads[t].mode]
<1>3. a \in Event /\ a.cmd = c /\ a.type = "thread.message-sent"
  BY EvTyped, EventTypesAre
<1>4. b \in Event /\ b.cmd = c /\ b.type = "thread.turn-start-requested"
  BY <1>2, EventTypesAre DEF Event
<1>5. TurnStart(v, c, t) = <<a, b>>
  BY DEF TurnStart
<1> HIDE DEF a, b
<1>6. Genuine(a) /\ Genuine(b) /\ a # b
  BY <1>3, <1>4 DEF Genuine
<1> QED
  BY <1>3, <1>4, <1>5, <1>6 DEF Block

\* So is a project's deletion, however many threads go with it.
LEMMA ProjectDeletionBlock ==
  ASSUME NEW v, NEW c \in CommandIds, NEW p \in Projects,
         NEW events \in ProjectDeletion(v, c, p)
  PROVE  Block(events, c)
<1> DEFINE active == ActiveThreads(v, p)
           n == Cardinality(active)
<1>1. active \subseteq Threads
  BY DEF ActiveThreads
<1>2. n \in Nat
  BY <1>1, ThreadsAssumption, FS_Subset, FS_CardinalityType
<1>0. PICK order \in SetToSeqs(active) :
        events = [i \in 1 .. Len(order) |-> Ev(c, "thread.deleted", order[i])]
                    \o <<Ev(c, "project.deleted", p)>>
  BY DEF ProjectDeletion
<1>3. order \in [1 .. n -> active] /\ \A i, j \in 1 .. n : i # j => order[i] # order[j]
  BY DEF SetToSeqs
<1> HIDE DEF active, n
<1>4. order \in Seq(Threads) /\ Len(order) = n
  <2>1. order \in [1 .. n -> Threads]
    BY <1>1, <1>3
  <2> QED
    BY <1>2, <2>1
<1> DEFINE gone == [i \in 1 .. n |-> Ev(c, "thread.deleted", order[i])]
           last == Ev(c, "project.deleted", p)
<1>5. \A i \in 1 .. n : /\ gone[i] \in Event /\ gone[i].cmd = c
                        /\ gone[i].type = "thread.deleted" /\ gone[i].id = order[i]
  BY <1>1, <1>3, EvTyped, EventTypesAre
<1>6. last \in Event /\ last.cmd = c /\ last.type = "project.deleted"
  BY EvTyped, EventTypesAre
<1>7. gone \in Seq(Event) /\ Len(gone) = n
  BY <1>2, <1>5
<1>8. events = gone \o <<last>>
  BY <1>0, <1>4
<1> HIDE DEF gone, last
<1>9. /\ events \in Seq(Event) /\ Len(events) = n + 1 /\ events[n + 1] = last
      /\ \A i \in 1 .. n : events[i] = gone[i]
  BY <1>2, <1>6, <1>7, <1>8
<1>10. \A i \in 1 .. n + 1 : Genuine(events[i]) /\ events[i].cmd = c
  BY <1>2, <1>5, <1>6, <1>9 DEF Genuine
<1>11. \A i, j \in 1 .. n + 1 : events[i] = events[j] => i = j
  BY <1>2, <1>3, <1>5, <1>6, <1>9
<1> QED
  BY <1>2, <1>9, <1>10, <1>11 DEF Block

\* Deciding a command yields a block of its events.
LEMMA DecisionBlock ==
  ASSUME NEW v \in View, NEW c \in CommandIds,
         NEW events \in Decisions(v, c)
  PROVE  Block(events, c)
<1> DEFINE k == CommandOf[c]
<1>1. k \in Command
  BY CommandsAssumption
<1>2. Accepts(v, k) /\ events \in EventsOf(v, c)
  BY DEF Decisions
<1>3. ASSUME NEW type \in EventTypes, NEW id \in Projects \cup Threads,
             Genuine(Ev(c, type, id)), events = <<Ev(c, type, id)>>
      PROVE  Block(events, c)
  BY <1>3, OneBlock, EvTyped
<1>4. CASE k.type = "project.create"
  <2>1. events = <<Ev(c, "project.created", k.project)>>
    BY <1>2, <1>4 DEF EventsOf
  <2>2. Genuine(Ev(c, "project.created", k.project))
    BY <1>1, <1>4, CommandFields, EvTyped, EventTypesAre DEF Genuine
  <2> QED
    BY <1>1, <1>3, <1>4, <2>1, <2>2, CommandFields, EventTypesAre
<1>5. CASE k.type = "project.meta.update"
  <2>1. events = <<Ev(c, "project.meta-updated", k.project)>>
    BY <1>2, <1>5 DEF EventsOf
  <2>2. Genuine(Ev(c, "project.meta-updated", k.project))
    BY <1>1, <1>5, CommandFields, EvTyped, EventTypesAre DEF Genuine
  <2> QED
    BY <1>1, <1>3, <1>5, <2>1, <2>2, CommandFields, EventTypesAre
<1>6. CASE k.type = "project.delete"
  <2>1. events \in ProjectDeletion(v, c, k.project) /\ k.project \in Projects
    BY <1>1, <1>2, <1>6, CommandFields DEF EventsOf
  <2> QED
    BY <2>1, ProjectDeletionBlock
<1>7. CASE k.type = "thread.turn.start"
  <2>1. events = TurnStart(v, c, k.thread) /\ k.thread \in Threads
    BY <1>1, <1>2, <1>7, CommandFields DEF EventsOf
  <2>2. HasThread(v, k.thread)
    BY <1>2, <1>7 DEF Accepts
  <2> QED
    BY <2>1, <2>2, TurnStartBlock
<1>8. CASE k.type \in PlainCommands
  <2>1. events = <<Ev(c, PlainEvent[k.type], k.thread)>>
    BY <1>2, <1>8 DEF EventsOf, PlainCommands, PlainEvent
  <2>2. k.thread \in Threads
    BY <1>1, <1>8, CommandFields DEF PlainCommands, PlainEvent
  <2>3. Genuine(Ev(c, PlainEvent[k.type], k.thread))
    BY <1>8, <2>2, PlainTypes, EvTyped DEF Genuine
  <2> QED
    BY <1>3, <1>8, <2>1, <2>2, <2>3, PlainTypes
\* The single events of the other thread commands.
<1>9. CASE k.type \in {"thread.create", "thread.delete", "thread.archive", "thread.unarchive",
                       "thread.runtime-mode.set", "thread.proposed-plan.upsert",
                       "thread.turn.diff.complete", "thread.revert.complete"}
  <2>1. k.thread \in Threads
    BY <1>1, <1>9, CommandFields
  <2>2. \E type \in {"thread.created", "thread.deleted", "thread.archived", "thread.unarchived",
                     "thread.runtime-mode-set", "thread.proposed-plan-upserted",
                     "thread.turn-diff-completed", "thread.reverted"} :
          /\ events = <<Ev(c, type, k.thread)>>
          /\ type = "thread.created" => k.type = "thread.create"
          /\ type = "thread.runtime-mode-set" => k.type = "thread.runtime-mode.set"
          /\ type = "thread.proposed-plan-upserted" => k.type = "thread.proposed-plan.upsert"
          /\ type = "thread.turn-diff-completed" => k.type = "thread.turn.diff.complete"
          /\ type = "thread.reverted" => k.type = "thread.revert.complete"
    BY <1>2, <1>9 DEF EventsOf
  <2> QED
    BY <1>3, <2>1, <2>2, EvTyped, EventTypesAre DEF Genuine
<1>10. k.type \in {"project.create", "project.meta.update", "project.delete", "thread.turn.start",
                   "thread.create", "thread.delete", "thread.archive", "thread.unarchive",
                   "thread.runtime-mode.set", "thread.proposed-plan.upsert",
                   "thread.turn.diff.complete", "thread.revert.complete"} \cup PlainCommands
  BY <1>1 DEF Command
<1> QED
  BY <1>4, <1>5, <1>6, <1>7, <1>8, <1>9, <1>10

-----------------------------------------------------------------------------
(* What the projections do to a view.                                      *)

LEMMA ThreadAfterTyped ==
  ASSUME NEW th \in Thread, NEW e, Genuine(e)
  PROVE  ThreadAfter(th, e) \in Thread
<1> DEFINE k == CommandOf[e.cmd]
<1>1. k \in Command
  BY CommandsAssumption DEF Genuine, Event
<1>2. CASE e.type = "thread.proposed-plan-upserted"
  <2>1. [id |-> k.plan, turn |-> k.turn] \in Plan
    BY <1>1, <1>2, CommandFields DEF Genuine, Plan
  <2> QED
    BY <1>2, <2>1 DEF ThreadAfter, Thread
<1>3. CASE e.type = "thread.runtime-mode-set"
  <2>1. k.mode \in Modes
    BY <1>1, <1>3, CommandFields DEF Genuine
  <2> QED
    BY <1>3, <2>1 DEF ThreadAfter, Thread
<1>4. CASE e.type = "thread.reverted"
  BY <1>4 DEF ThreadAfter, Thread, Reverted
<1>5. CASE e.type \in {"thread.deleted", "thread.archived", "thread.unarchived"}
  BY <1>5 DEF ThreadAfter, Thread
<1> QED
  BY <1>2, <1>3, <1>4, <1>5 DEF ThreadAfter

LEMMA CheckpointsTyped ==
  ASSUME NEW th \in Thread, NEW cp \in Checkpoint
  PROVE  CheckpointInMemory(th, cp) \in Thread /\ CheckpointInSql(th, cp) \in Thread
  BY DEF CheckpointInMemory, CheckpointInSql, Thread

\* Replacing one thread of a view, marking a project.
LEMMA ViewUpdate ==
  ASSUME NEW v \in View, NEW t, NEW th \in Thread
  PROVE  WithThread(v, t, th) \in View /\ (t \notin Threads => WithThread(v, t, th) = v)
<1>1. v.threads \in [Threads -> Thread \cup {Absent}] /\ v.projects \in [Projects -> {Absent, "live", "deleted"}]
  BY DEF View
<1>2. v = [projects |-> v.projects, threads |-> v.threads]
  BY DEF View
<1>3. WithThread(v, t, th) = [projects |-> v.projects, threads |-> [v.threads EXCEPT ![t] = th]]
  BY <1>2 DEF WithThread
<1>4. t \notin Threads => [v.threads EXCEPT ![t] = th] = v.threads
  BY <1>1
<1>5. [v.threads EXCEPT ![t] = th] \in [Threads -> Thread \cup {Absent}]
  BY <1>1
<1> QED
  BY <1>1, <1>2, <1>3, <1>4, <1>5 DEF View

LEMMA ProjectUpdate ==
  ASSUME NEW v \in View, NEW p, NEW mark \in {"live", "deleted"}
  PROVE  WithProject(v, p, mark) \in View
<1>1. v.threads \in [Threads -> Thread \cup {Absent}] /\ v.projects \in [Projects -> {Absent, "live", "deleted"}]
  BY DEF View
<1>2. WithProject(v, p, mark) = [projects |-> [v.projects EXCEPT ![p] = mark], threads |-> v.threads]
  BY DEF WithProject, View
<1>3. [v.projects EXCEPT ![p] = mark] \in [Projects -> {Absent, "live", "deleted"}]
  BY <1>1
<1> QED
  BY <1>1, <1>2, <1>3 DEF View

LEMMA InMemoryTyped ==
  ASSUME NEW v \in View, NEW e, Genuine(e)
  PROVE  ProjectInMemory(v, e) \in View
<1> DEFINE k == CommandOf[e.cmd]
<1>1. k \in Command /\ e.id \in Projects \cup Threads
  BY CommandsAssumption DEF Genuine, Event
<1>2. \A t \in Threads : HasThread(v, t) => v.threads[t] \in Thread
  BY DEF View, HasThread
<1>3. CASE e.type \in {"project.created", "project.deleted"}
  BY <1>3, ProjectUpdate DEF ProjectInMemory
<1>4. CASE e.type = "thread.created"
  <2>1. NewThread(k) \in Thread
    BY <1>1, <1>4, CommandFields DEF Genuine, NewThread, Thread
  <2>2. ProjectInMemory(v, e) = WithThread(v, e.id, NewThread(k))
    BY <1>4 DEF ProjectInMemory
  <2> QED
    BY <2>1, <2>2, ViewUpdate
<1>5. CASE e.type = "thread.turn-diff-completed"
  <2>1. CheckpointOf(k) \in Checkpoint
    BY <1>1, <1>5, CommandFields DEF Genuine, CheckpointOf, Checkpoint
  <2>2. CASE HasThread(v, e.id) /\ e.id \in Threads
    <3>1. ProjectInMemory(v, e)
            = WithThread(v, e.id, CheckpointInMemory(v.threads[e.id], CheckpointOf(k)))
      BY <1>5, <2>2 DEF ProjectInMemory
    <3> QED
      BY <1>2, <2>1, <2>2, <3>1, CheckpointsTyped, ViewUpdate
  <2>3. CASE HasThread(v, e.id) /\ e.id \notin Threads
    <3>1. \A th : WithThread(v, e.id, th) = v
      BY <2>3 DEF WithThread, View
    <3> QED
      BY <1>5, <2>3, <3>1 DEF ProjectInMemory
  <2>4. CASE ~HasThread(v, e.id)
    BY <1>5, <2>4 DEF ProjectInMemory
  <2> QED
    BY <2>2, <2>3, <2>4
<1>6. CASE e.type \notin {"project.created", "project.deleted", "thread.created",
                         "thread.turn-diff-completed"}
  <2>1. CASE HasThread(v, e.id) /\ e.id \in Threads
    <3>1. ProjectInMemory(v, e) = WithThread(v, e.id, ThreadAfter(v.threads[e.id], e))
      BY <1>6, <2>1 DEF ProjectInMemory
    <3> QED
      BY <1>2, <2>1, <3>1, ThreadAfterTyped, ViewUpdate
  <2>2. CASE ~(HasThread(v, e.id) /\ e.id \in Threads)
    BY <1>6, <2>2 DEF ProjectInMemory
  <2> QED
    BY <2>1, <2>2
<1> QED
  BY <1>3, <1>4, <1>5, <1>6

LEMMA InSqlTyped ==
  ASSUME NEW v \in View, NEW e, Genuine(e)
  PROVE  ProjectInSql(v, e) \in View
<1> DEFINE k == CommandOf[e.cmd]
<1>1. k \in Command
  BY CommandsAssumption DEF Genuine, Event
<1>2. \A t \in Threads : HasThread(v, t) => v.threads[t] \in Thread
  BY DEF View, HasThread
<1>3. CASE e.id \notin Threads
  <2>1. v.threads \in [Threads -> Thread \cup {Absent}]
    BY DEF View
  <2>2. \A th : WithThread(v, e.id, th) = v
    BY <1>3, <2>1 DEF WithThread, View
  <2> QED
    BY <2>2, InMemoryTyped DEF ProjectInSql
<1>4. CASE e.id \in Threads /\ HasThread(v, e.id) /\ e.type = "thread.turn-diff-completed"
  <2>1. CheckpointOf(k) \in Checkpoint
    BY <1>1, <1>4, CommandFields DEF Genuine, CheckpointOf, Checkpoint
  <2>2. ProjectInSql(v, e)
          = WithThread(v, e.id, CheckpointInSql(v.threads[e.id], CheckpointOf(k)))
    BY <1>4 DEF ProjectInSql
  <2> QED
    BY <1>2, <1>4, <2>1, <2>2, CheckpointsTyped, ViewUpdate
<1>5. CASE e.id \in Threads /\ HasThread(v, e.id) /\ e.type = "thread.created"
  <2> DEFINE th == [NewThread(k) EXCEPT !.plans = v.threads[e.id].plans,
                                        !.checkpoints = v.threads[e.id].checkpoints]
  <2>1. v.threads[e.id] \in Thread
    BY <1>2, <1>5
  <2>2. NewThread(k) \in Thread
    BY <1>1, <1>5, CommandFields DEF Genuine, NewThread, Thread
  <2>3. th \in Thread
    BY <2>1, <2>2 DEF Thread
  <2>4. ProjectInSql(v, e) = WithThread(v, e.id, th)
    BY <1>5 DEF ProjectInSql
  <2> QED
    BY <2>3, <2>4, ViewUpdate
<1>6. CASE ~(HasThread(v, e.id) /\ e.type \in {"thread.turn-diff-completed", "thread.created"})
  BY <1>6, InMemoryTyped DEF ProjectInSql
<1> QED
  BY <1>3, <1>4, <1>5, <1>6

LEMMA EmptyViewTyped == EmptyView \in View
  BY DEF EmptyView, View

LEMMA ReadModelTyped ==
  ASSUME NEW v \in View
  PROVE  CommandReadModel(v) \in View
<1> DEFINE threads == [t \in Threads |-> IF v.threads[t] = Absent THEN Absent
                                         ELSE [v.threads[t] EXCEPT !.checkpoints = {}]]
<1>1. \A t \in Threads : threads[t] \in Thread \cup {Absent}
  <2> TAKE t \in Threads
  <2>1. CASE v.threads[t] = Absent
    BY <2>1
  <2>2. CASE v.threads[t] # Absent
    <3>1. v.threads[t] \in Thread
      BY <2>2 DEF View
    <3>2. [v.threads[t] EXCEPT !.checkpoints = {}] \in Thread
      BY <3>1 DEF Thread
    <3> QED
      BY <2>2, <3>2
  <2> QED
    BY <2>1, <2>2
<1>2. CommandReadModel(v) = [projects |-> v.projects, threads |-> threads]
  BY DEF CommandReadModel
<1>3. threads \in [Threads -> Thread \cup {Absent}]
  BY <1>1
<1> QED
  BY <1>2, <1>3 DEF View

-----------------------------------------------------------------------------
(* The inductive invariant.                                                *)

TxRecord == [base : Nat, todo : Seq(Event), log : Seq(Event), sql : View, model : View]

AllGenuine(s) == \A i \in 1 .. Len(s) : Genuine(s[i])

\* Every variable has its type, and every event comes from its command's decision.
Typed == TypeOK /\ AllGenuine(log) /\ (tx # NoTx => AllGenuine(tx.log) /\ AllGenuine(tx.todo))

\* The worker has an attempt in hand; an open transaction is there when it is used.
AtWork ==
  /\ pc \notin {"down", "idle"} => cur \in Attempts
  /\ pc \in {"append", "publish"} => tx \in TxRecord

\* A staged log extends the old one by a part of a command's block, the rest is to do.
StagedFor(c, old, staged, todo) ==
  LET n == Len(old) IN
  /\ n <= Len(staged) /\ Len(staged) + Len(todo) > n
  /\ \A i \in 1 .. n : staged[i] = old[i]
  /\ \A i \in n + 1 .. Len(staged) : staged[i].cmd = c
  /\ \A i \in 1 .. Len(todo) : todo[i].cmd = c
  /\ \A i, j \in n + 1 .. Len(staged) : staged[i] = staged[j] => i = j
  /\ \A i, j \in 1 .. Len(todo) : todo[i] = todo[j] => i = j
  /\ \A i \in n + 1 .. Len(staged), j \in 1 .. Len(todo) : staged[i] # todo[j]
Staged == pc = "append" => StagedFor(cmd, log, tx.log, tx.todo)

\* A command without a receipt is decided, and only such a command.
Undecided ==
  /\ pc \in {"decide", "append"} => receipts[cmd].status = "none"
  /\ pc = "reject" => answer.status = "rejected"
  /\ pc \in {"reconcile", "catchUp", "reject"} /\ answer.status = "rejected"
       => receipts[cmd].status = "none"

IInv == Typed /\ AtWork /\ Staged /\ Undecided /\ CommandsAreAtomic

LEMMA InitIInv == ASSUME Init PROVE IInv
<1>1. Typed
  BY EmptyViewTyped, FaultsAssumption
     DEF Init, Typed, TypeOK, PCs, NoReceipt, Receipt, Answer, Told, AllGenuine
<1>2. AtWork /\ Staged /\ Undecided
  BY DEF Init, AtWork, Staged, Undecided
<1>3. CommandsAreAtomic
  BY DEF Init, CommandsAreAtomic, Positions, NoReceipt
<1> QED
  BY <1>1, <1>2, <1>3 DEF IInv

\* Steps that leave the store alone leave its part of the invariant alone.
LEMMA StoreUnchanged ==
  ASSUME CommandsAreAtomic, UNCHANGED <<log, receipts>>
  PROVE  CommandsAreAtomic'
  BY DEF CommandsAreAtomic, Positions

LEMMA SequencesTyped ==
  ASSUME NEW from \in Nat, NEW to \in Nat
  PROVE  Sequences(from, to) \in Seq(Nat)
<1>1. CASE to >= from
  BY <1>1 DEF Sequences
<1>2. CASE to < from
  <2>1. 1 .. to - from = 1 .. 0
    BY <1>2
  <2>2. Sequences(from, to) = [i \in 1 .. 0 |-> from + i]
    BY <2>1 DEF Sequences
  <2> QED
    BY <2>2
<1> QED
  BY <1>1, <1>2

LEMMA ConcatNat ==
  ASSUME NEW s \in Seq(Nat), NEW t \in Seq(Nat)
  PROVE  s \o t \in Seq(Nat)
  OBVIOUS

LEMMA AppendGenuine ==
  ASSUME NEW s \in Seq(Event), AllGenuine(s), NEW e, Genuine(e)
  PROVE  Append(s, e) \in Seq(Event) /\ AllGenuine(Append(s, e))
  BY DEF AllGenuine, Genuine

LEMMA TailGenuine ==
  ASSUME NEW s \in Seq(Event), AllGenuine(s), s # <<>>
  PROVE  Genuine(Head(s)) /\ Tail(s) \in Seq(Event) /\ AllGenuine(Tail(s))
<1>1. Len(s) > 0 /\ Head(s) = s[1] /\ Tail(s) \in Seq(Event) /\ Len(Tail(s)) = Len(s) - 1
  OBVIOUS
<1>2. \A i \in 1 .. Len(Tail(s)) : Tail(s)[i] = s[i + 1]
  OBVIOUS
<1> QED
  BY <1>1, <1>2 DEF AllGenuine

-----------------------------------------------------------------------------
(* Typing: one step per action.                                            *)

LEMMA TypedStep == ASSUME IInv, [Next]_vars PROVE Typed'
<1>0. TypeOK /\ AtWork /\ AllGenuine(log) /\ (tx # NoTx => AllGenuine(tx.log) /\ AllGenuine(tx.todo))
  BY DEF IInv, Typed
<1> USE AttemptsAssumption, FaultsAssumption
\* Steps that leave the log and the transaction alone.
<1>a. ASSUME TypeOK', UNCHANGED <<log, tx>> PROVE Typed'
  BY <1>0, <1>a DEF Typed, AllGenuine
<1>1. ASSUME NEW a \in Attempts, Dispatch(a) PROVE Typed'
  BY <1>0, <1>a, <1>1 DEF Dispatch, TypeOK, durable, counters, Answer, Told
<1>2. CASE Take
  <2>1. Head(queue) \in Attempts /\ Tail(queue) \in Seq(Attempts)
    BY <1>0, <1>2 DEF Take, TypeOK
  <2> QED
    BY <1>0, <1>a, <1>2, <2>1 DEF Take, TypeOK, durable, counters, PCs
<1>3. CASE KnownCommand
  BY <1>0, <1>a, <1>3 DEF KnownCommand, TypeOK, durable, counters, PCs, Answer, Told, Receipt, AtWork, cmd
<1>4. CASE NewCommand
  BY <1>0, <1>a, <1>4 DEF NewCommand, TypeOK, durable, counters, PCs
<1>5. CASE LookupFails
  BY <1>0, <1>a, <1>5 DEF LookupFails, Fault, TypeOK, durable, counters, PCs, Answer, Told
<1>6. CASE Decide
  <2>1. cmd \in CommandIds /\ model \in View /\ log \in Seq(Event) /\ sql \in View
    BY <1>0, <1>6 DEF Decide, AtWork, TypeOK, cmd
  <2>2. PICK events \in Decisions(model, cmd) :
          tx' = [base |-> Len(log), todo |-> events, log |-> log, sql |-> sql, model |-> model]
    BY <1>6 DEF Decide
  <2>3. Block(events, cmd)
    BY <2>1, <2>2, DecisionBlock
  <2>4. tx' \in TxRecord /\ AllGenuine(tx'.log) /\ AllGenuine(tx'.todo)
    BY <1>0, <2>1, <2>2, <2>3 DEF Block, TxRecord, AllGenuine
  <2>5. TypeOK'
    BY <1>0, <1>6, <2>4 DEF Decide, TypeOK, durable, counters, PCs, TxRecord
  <2>6. AllGenuine(log)'
    BY <1>0, <1>6 DEF Decide, durable, AllGenuine
  <2>7. AllGenuine(tx.log)' /\ AllGenuine(tx.todo)'
    BY <2>4 DEF AllGenuine
  <2> QED
    BY <2>5, <2>6, <2>7 DEF Typed
<1>7. CASE Refuse
  BY <1>0, <1>a, <1>7 DEF Refuse, TypeOK, durable, counters, PCs, Answer, Told
<1>8. CASE AppendEvent
  <2>1. /\ tx \in TxRecord /\ tx.todo # <<>> /\ tx # NoTx
        /\ AllGenuine(tx.log) /\ AllGenuine(tx.todo)
    BY <1>0, <1>8, EmptyAssumption DEF AppendEvent, AtWork, TxRecord
  <2> DEFINE e == Head(tx.todo)
  <2>2. /\ Genuine(e) /\ Tail(tx.todo) \in Seq(Event) /\ Append(tx.log, e) \in Seq(Event)
        /\ AllGenuine(Append(tx.log, e)) /\ AllGenuine(Tail(tx.todo))
    BY <2>1, TailGenuine, AppendGenuine DEF TxRecord
  <2>3. tx' = [base |-> tx.base, todo |-> Tail(tx.todo), log |-> Append(tx.log, e),
               sql |-> ProjectInSql(tx.sql, e), model |-> ProjectInMemory(tx.model, e)]
    BY <1>8, <2>1 DEF AppendEvent, TxRecord
  <2> HIDE DEF e
  <2>4. ProjectInMemory(tx.model, e) \in View /\ ProjectInSql(tx.sql, e) \in View
    BY <2>1, <2>2, InMemoryTyped, InSqlTyped DEF TxRecord
  <2>5. tx' \in TxRecord
    BY <2>1, <2>2, <2>3, <2>4 DEF TxRecord
  <2>6. AllGenuine(tx'.log) /\ AllGenuine(tx'.todo)
    BY <2>2, <2>3
  <2>7. TypeOK'
    BY <1>0, <1>8, <2>5 DEF AppendEvent, TypeOK, durable, counters, TxRecord
  <2>8. AllGenuine(log)' /\ AllGenuine(tx.log)' /\ AllGenuine(tx.todo)'
    BY <1>0, <1>8, <2>6 DEF AppendEvent, durable, AllGenuine
  <2> QED
    BY <2>7, <2>8 DEF Typed
<1>9. ASSUME Persist, pc = "append", tx' = tx \/ tx' = NoTx
      PROVE  /\ log' \in Seq(Event) /\ sql' \in View /\ receipts' \in [CommandIds -> Receipt]
             /\ AllGenuine(log)' /\ (tx # NoTx => AllGenuine(tx.log) /\ AllGenuine(tx.todo))'
             /\ tx \in TxRecord
  <2>1. tx \in TxRecord /\ tx # NoTx
    BY <1>0, <1>9, EmptyAssumption DEF AtWork, TxRecord
  <2>2. log' \in Seq(Event) /\ sql' \in View /\ Len(tx.log) \in Nat
    BY <1>9, <2>1 DEF Persist, TxRecord
  <2>3. [status |-> "accepted", seq |-> Len(tx.log)] \in Receipt
    BY <2>2 DEF Receipt
  <2>4. receipts' \in [CommandIds -> Receipt]
    BY <1>0, <1>9, <2>3 DEF Persist, TypeOK
  <2>5. AllGenuine(log)'
    BY <1>0, <1>9, <2>1 DEF Persist, AllGenuine
  <2>6. (tx # NoTx => AllGenuine(tx.log) /\ AllGenuine(tx.todo))'
    BY <1>0, <1>9, <2>1 DEF AllGenuine
  <2> QED
    BY <2>1, <2>2, <2>4, <2>5, <2>6
<1>10. CASE Commit
  <2>1. tx \in TxRecord /\ tx # NoTx
    BY <1>0, <1>10, EmptyAssumption DEF AtWork, TxRecord, Commit
  <2>2. model' \in View /\ seq' \in Nat /\ answer' \in Answer
    BY <1>10, <2>1 DEF Commit, TxRecord, Answer
  <2>3. Persist /\ pc = "append" /\ tx' = tx
    BY <1>10 DEF Commit
  <2>4. TypeOK'
    BY <1>0, <1>9, <1>10, <2>2, <2>3 DEF Commit, TypeOK, counters, PCs
  <2> QED
    BY <1>9, <2>3, <2>4 DEF Typed
<1>11. CASE TxFails
  BY <1>0, <1>11 DEF TxFails, Fault, Typed, AllGenuine, TypeOK, durable, counters, PCs, Answer, Told
<1>12. CASE CommitUncertain
  <2>1. Persist /\ pc = "append" /\ tx' = NoTx
    BY <1>12 DEF CommitUncertain
  <2>2. TypeOK'
    BY <1>0, <1>9, <1>12, <2>1 DEF CommitUncertain, Fault, TypeOK, counters, PCs, Answer, Told
  <2> QED
    BY <1>9, <2>1, <2>2 DEF Typed
<1>13. CASE Publish
  <2>1. tx.base \in Nat /\ Len(log) \in Nat /\ published \in Seq(Nat)
    BY <1>0, <1>13 DEF Publish, AtWork, TxRecord, TypeOK
  <2>2. published \o Sequences(tx.base, Len(log)) \in Seq(Nat)
    BY <2>1, SequencesTyped, ConcatNat
  <2>3. published' \in Seq(Nat)
    BY <1>13, <2>2 DEF Publish
  <2> QED
    BY <1>0, <1>13, <2>3 DEF Publish, Typed, AllGenuine, TypeOK, durable, counters, PCs
<1>14. CASE Reconcile
  BY <1>0, <1>a, <1>14 DEF Reconcile, TypeOK, durable, counters, PCs
<1>15. CASE CatchUp
  <2>1. seq + 1 \in 1 .. Len(log)
    BY <1>0, <1>15 DEF CatchUp, TypeOK
  <2>2. Genuine(log[seq + 1])
    BY <1>0, <2>1 DEF AllGenuine
  <2>3. model' \in View /\ seq' \in Nat
    BY <1>0, <1>15, <2>2, InMemoryTyped DEF CatchUp, TypeOK
  <2> QED
    BY <1>0, <1>a, <1>15, <2>3 DEF CatchUp, TypeOK, durable, counters
<1>16. CASE PublishMissed
  <2>1. startSeq \in Nat /\ Len(log) \in Nat /\ published \in Seq(Nat)
    BY <1>0 DEF TypeOK
  <2>2. published \o Sequences(startSeq, Len(log)) \in Seq(Nat)
    BY <2>1, SequencesTyped, ConcatNat
  <2>3. published' \in Seq(Nat)
    BY <1>16, <2>2 DEF PublishMissed
  <2> QED
    BY <1>0, <1>a, <1>16, <2>3 DEF PublishMissed, AfterReconcile, TypeOK, durable, counters, PCs
<1>17. CASE ReconcileFails
  BY <1>0, <1>a, <1>17 DEF ReconcileFails, AfterReconcile, Fault, TypeOK, durable, counters, PCs
<1>18. CASE RecordRejection
  <2>1. [status |-> "rejected", seq |-> seq] \in Receipt
    BY <1>0 DEF TypeOK, Receipt
  <2> QED
    BY <1>0, <1>a, <1>18, <2>1 DEF RecordRejection, TypeOK, counters, PCs
<1>19. CASE RejectionLost
  BY <1>0, <1>a, <1>19 DEF RejectionLost, Fault, TypeOK, durable, counters, PCs
<1>20. CASE Reply
  BY <1>0, <1>a, <1>20 DEF Reply, TypeOK, durable, counters, PCs, Answer, Told
<1>21. CASE Crash
  BY <1>0, <1>21, EmptyViewTyped DEF Crash, Typed, AllGenuine, TypeOK, durable, PCs, Answer, Told
<1>22. CASE Boot
  <2>1. model' \in View
    BY <1>0, <1>22, ReadModelTyped DEF Boot, TypeOK
  <2> QED
    BY <1>0, <1>a, <1>22, <2>1 DEF Boot, TypeOK, durable, counters, PCs
<1>23. CASE UNCHANGED vars
  BY <1>0, <1>a, <1>23 DEF vars, TypeOK, durable, counters
<1> QED
  BY <1>1, <1>2, <1>3, <1>4, <1>5, <1>6, <1>7, <1>8, <1>10, <1>11, <1>12, <1>13, <1>14,
     <1>15, <1>16, <1>17, <1>18, <1>19, <1>20, <1>21, <1>22, <1>23 DEF Next, WorkerStep

-----------------------------------------------------------------------------
(* Control: what the worker holds, and that it decides open commands only. *)

LEMMA ControlStep == ASSUME IInv, [Next]_vars PROVE AtWork' /\ Undecided'
<1>0. TypeOK /\ AtWork /\ Undecided
  BY DEF IInv, Typed
<1> USE <1>0, AttemptsAssumption DEF AtWork, Undecided
<1>1. ASSUME NEW a \in Attempts, Dispatch(a) PROVE AtWork' /\ Undecided'
  BY <1>1 DEF Dispatch, durable, cmd
<1>2. CASE Take
  <2>1. Head(queue) \in Attempts
    BY <1>2 DEF Take, TypeOK
  <2> QED
    BY <1>2, <2>1 DEF Take
<1>3. CASE KnownCommand
  BY <1>3 DEF KnownCommand
<1>4. CASE NewCommand
  BY <1>4 DEF NewCommand, durable, cmd
<1>5. CASE LookupFails
  BY <1>5 DEF LookupFails, Told
<1>6. CASE Decide
  <2>1. TypeOK'
    BY TypedStep, <1>6 DEF Typed, Next, WorkerStep
  <2>2. PICK events \in Decisions(model, cmd) :
          tx' = [base |-> Len(log), todo |-> events, log |-> log, sql |-> sql, model |-> model]
    BY <1>6 DEF Decide
  <2>3. cmd \in CommandIds /\ model \in View
    BY <1>6 DEF Decide, TypeOK, cmd
  <2>4. events \in Seq(Event)
    BY <2>2, <2>3, DecisionBlock DEF Block
  <2>5. tx' \in TxRecord
    BY <2>2, <2>4 DEF TxRecord, TypeOK
  <2> QED
    BY <1>6, <2>5 DEF Decide, durable, cmd, TxRecord
<1>7. CASE Refuse
  BY <1>7 DEF Refuse, durable, cmd
<1>8. CASE AppendEvent
  <2>1. TypeOK'
    BY TypedStep, <1>8 DEF Typed, Next, WorkerStep
  <2>2. tx' # NoTx
    <3>1. tx \in TxRecord /\ tx.todo # <<>>
      BY <1>8 DEF AppendEvent
    <3>2. \A e : e = Head(tx.todo) => Genuine(e) /\ Append(tx.log, e) \in Seq(Event) /\ Tail(tx.todo) \in Seq(Event)
      BY <3>1, EmptyAssumption, TailGenuine, AppendGenuine DEF TxRecord, IInv, Typed
    <3>3. tx' \in TxRecord
      BY <1>8, <3>1, <3>2, InMemoryTyped, InSqlTyped DEF AppendEvent, TxRecord
    <3> QED
      BY <3>3, EmptyAssumption DEF TxRecord
  <2>3. tx' \in TxRecord
    BY <2>1, <2>2 DEF TypeOK, TxRecord
  <2> QED
    BY <1>8, <2>3 DEF AppendEvent, durable, cmd, TxRecord
<1>9. CASE Commit
  BY <1>9 DEF Commit, TxRecord
<1>10. CASE TxFails
  BY <1>10 DEF TxFails, Told
<1>11. CASE CommitUncertain
  BY <1>11 DEF CommitUncertain, Told
<1>12. CASE Publish
  BY <1>12 DEF Publish
<1>13. CASE Reconcile
  BY <1>13 DEF Reconcile, durable, cmd
<1>14. CASE CatchUp
  BY <1>14 DEF CatchUp, durable, cmd
<1>15. CASE PublishMissed
  BY <1>15 DEF PublishMissed, AfterReconcile, durable, cmd
<1>16. CASE ReconcileFails
  BY <1>16 DEF ReconcileFails, AfterReconcile, durable, cmd
<1>17. CASE RecordRejection
  BY <1>17 DEF RecordRejection
<1>18. CASE RejectionLost
  BY <1>18 DEF RejectionLost
<1>19. CASE Reply
  BY <1>19 DEF Reply
<1>20. CASE Crash
  BY <1>20 DEF Crash
<1>21. CASE Boot
  BY <1>21 DEF Boot
<1>22. CASE UNCHANGED vars
  BY <1>22 DEF vars, durable, cmd
<1> QED
  BY <1>1, <1>2, <1>3, <1>4, <1>5, <1>6, <1>7, <1>8, <1>9, <1>10, <1>11, <1>12, <1>13, <1>14,
     <1>15, <1>16, <1>17, <1>18, <1>19, <1>20, <1>21, <1>22 DEF Next, WorkerStep

-----------------------------------------------------------------------------
(* The transaction holds a part of the command's block.                    *)

\* Moving the first pending event to the end of the staged log.
LEMMA MoveEvent ==
  ASSUME NEW c, NEW old \in Seq(Event), NEW staged \in Seq(Event), NEW todo \in Seq(Event),
         todo # <<>>, StagedFor(c, old, staged, todo)
  PROVE  StagedFor(c, old, Append(staged, Head(todo)), Tail(todo))
<1> DEFINE n == Len(old)
           staged2 == Append(staged, Head(todo))
           todo2 == Tail(todo)
<1>1. /\ Len(todo) > 0 /\ Head(todo) = todo[1] /\ Len(todo2) = Len(todo) - 1
      /\ \A i \in 1 .. Len(todo2) : todo2[i] = todo[i + 1]
  OBVIOUS
<1>2. /\ Len(staged2) = Len(staged) + 1 /\ staged2[Len(staged) + 1] = todo[1]
      /\ \A i \in 1 .. Len(staged) : staged2[i] = staged[i]
  BY <1>1
<1>3. \A i \in n + 1 .. Len(staged2) : i \in n + 1 .. Len(staged) \/ i = Len(staged) + 1
  BY <1>2
<1> HIDE DEF staged2, todo2
<1>4. n \in Nat /\ Len(staged) \in Nat /\ Len(todo) \in Nat
  OBVIOUS
<1> HIDE DEF n
<1>5. n <= Len(staged2) /\ Len(staged2) + Len(todo2) > n /\ n <= Len(staged)
  BY <1>1, <1>2, <1>4 DEF StagedFor, n
<1>6. \A i \in 1 .. n : staged2[i] = old[i]
  BY <1>2, <1>4, <1>5 DEF StagedFor, n
<1>7. /\ \A i \in n + 1 .. Len(staged2) : staged2[i].cmd = c
      /\ \A i \in 1 .. Len(todo2) : todo2[i].cmd = c
  <2>1. \A i \in n + 1 .. Len(staged) : staged[i].cmd = c
    BY DEF StagedFor, n
  <2>2. \A i \in 1 .. Len(todo) : todo[i].cmd = c
    BY DEF StagedFor
  <2>3. 1 \in 1 .. Len(todo) /\ \A i \in 1 .. Len(todo2) : i + 1 \in 1 .. Len(todo)
    BY <1>1, <1>4
  <2>4. \A i \in n + 1 .. Len(staged2) : staged2[i].cmd = c
    <3> TAKE i \in n + 1 .. Len(staged2)
    <3>1. CASE i \in n + 1 .. Len(staged)
      BY <1>2, <1>4, <2>1, <3>1 DEF n
    <3>2. CASE i = Len(staged) + 1
      BY <1>2, <2>2, <2>3, <3>2
    <3> QED
      BY <1>3, <3>1, <3>2
  <2> QED
    BY <1>1, <2>2, <2>3, <2>4
<1>8. \A i, j \in n + 1 .. Len(staged2) : staged2[i] = staged2[j] => i = j
  <2>1. \A i \in n + 1 .. Len(staged) : staged[i] # todo[1]
    BY <1>1, <1>4 DEF StagedFor, n
  <2>2. \A i, j \in n + 1 .. Len(staged) : staged[i] = staged[j] => i = j
    BY DEF StagedFor, n
  <2> QED
    BY <1>2, <1>3, <1>4, <2>1, <2>2
<1>9. \A i, j \in 1 .. Len(todo2) : todo2[i] = todo2[j] => i = j
  <2>1. \A i, j \in 1 .. Len(todo) : todo[i] = todo[j] => i = j
    BY DEF StagedFor
  <2>2. \A i \in 1 .. Len(todo2) : i + 1 \in 1 .. Len(todo)
    BY <1>1, <1>4
  <2> QED
    BY <1>1, <1>4, <2>1, <2>2
<1>10. \A i \in n + 1 .. Len(staged2), j \in 1 .. Len(todo2) : staged2[i] # todo2[j]
  <2>1. \A i \in n + 1 .. Len(staged), j \in 1 .. Len(todo) : staged[i] # todo[j]
    BY DEF StagedFor, n
  <2>2. \A j \in 1 .. Len(todo2) : j + 1 \in 1 .. Len(todo) /\ todo2[j] = todo[j + 1]
    BY <1>1, <1>4
  <2>3. \A i, j \in 1 .. Len(todo) : todo[i] = todo[j] => i = j
    BY DEF StagedFor
  <2>4. \A j \in 1 .. Len(todo2) : todo[1] # todo2[j]
    BY <1>1, <1>4, <2>2, <2>3
  <2> QED
    BY <1>2, <1>3, <1>4, <2>1, <2>2, <2>4
<1>11. StagedFor(c, old, staged2, todo2)
  BY <1>5, <1>6, <1>7, <1>8, <1>9, <1>10 DEF StagedFor, n
<1> QED
  BY <1>11 DEF staged2, todo2

LEMMA StagedStep == ASSUME IInv, [Next]_vars PROVE Staged'
<1>0. TypeOK /\ AtWork /\ Staged
  BY DEF IInv, Typed
<1>1. CASE Decide
  <2>1. PICK events \in Decisions(model, cmd) :
          tx' = [base |-> Len(log), todo |-> events, log |-> log, sql |-> sql, model |-> model]
    BY <1>1 DEF Decide
  <2>2. cmd \in CommandIds /\ model \in View /\ log \in Seq(Event)
    BY <1>0, <1>1, AttemptsAssumption DEF Decide, TypeOK, AtWork, cmd
  <2>3. Block(events, cmd)
    BY <2>1, <2>2, DecisionBlock
  <2>4. log' = log /\ cmd' = cmd /\ tx'.log = log /\ tx'.todo = events
    BY <1>1, <2>1 DEF Decide, durable, cmd
  <2> QED
    BY <2>2, <2>3, <2>4 DEF Staged, StagedFor, Block
<1>2. CASE AppendEvent
  <2>1. tx \in TxRecord /\ tx.todo # <<>> /\ pc = "append" /\ log' = log /\ cmd' = cmd /\ pc' = pc
    BY <1>0, <1>2 DEF AppendEvent, AtWork, durable, cmd
  <2>2. tx'.log = Append(tx.log, Head(tx.todo)) /\ tx'.todo = Tail(tx.todo)
    BY <1>2, <2>1 DEF AppendEvent, TxRecord
  <2>3. tx.log \in Seq(Event) /\ tx.todo \in Seq(Event) /\ log \in Seq(Event)
    BY <1>0, <2>1 DEF TxRecord, TypeOK
  <2> QED
    BY <1>0, <2>1, <2>2, <2>3, MoveEvent DEF Staged
<1>3. CASE UNCHANGED <<log, pc, cur, tx>>
  BY <1>0, <1>3 DEF Staged, cmd
<1>4. CASE pc' # "append"
  BY <1>4 DEF Staged
<1>5. Decide \/ AppendEvent \/ UNCHANGED <<log, pc, cur, tx>> \/ pc' # "append"
  BY DEF Next, WorkerStep, vars, durable, Dispatch, Take, KnownCommand, NewCommand, LookupFails,
     Refuse, Commit, TxFails, CommitUncertain, Publish, Reconcile, CatchUp, PublishMissed,
     ReconcileFails, AfterReconcile, RecordRejection, RejectionLost, Reply, Crash, Boot
<1> QED
  BY <1>1, <1>2, <1>3, <1>4, <1>5

-----------------------------------------------------------------------------
(* Atomicity.                                                              *)

\* A transaction that is stored adds its command's block, whole, for the first time.
LEMMA PersistAtomic ==
  ASSUME IInv, pc = "append", tx.todo = <<>>, Persist
  PROVE  CommandsAreAtomic'
<1> DEFINE n == Len(log)
           m == Len(tx.log)
<1>0. PICK c0 : c0 = cmd
  OBVIOUS
<1>1. TypeOK /\ tx \in TxRecord /\ StagedFor(c0, log, tx.log, <<>>)
      /\ receipts[c0].status = "none" /\ CommandsAreAtomic /\ c0 \in CommandIds
  BY <1>0, AttemptsAssumption DEF IInv, Typed, AtWork, Staged, Undecided, cmd
<1>2. n \in Nat /\ m \in Nat /\ n < m /\ log' = tx.log /\ Len(log') = m
  BY <1>1 DEF StagedFor, Persist, TypeOK, TxRecord
<1>3. /\ receipts'[c0] = [status |-> "accepted", seq |-> m]
      /\ \A c \in CommandIds \ {c0} : receipts'[c] = receipts[c]
  BY <1>0, <1>1 DEF Persist, TypeOK
<1>4. /\ \A i \in 1 .. n : log'[i] = log[i]
      /\ \A i \in n + 1 .. m : log'[i].cmd = c0
      /\ \A i, j \in n + 1 .. m : log'[i] = log'[j] => i = j
  BY <1>1, <1>2 DEF StagedFor
<1>5. Positions(c0) = {}
  BY <1>1 DEF CommandsAreAtomic
<1> HIDE DEF n, m
<1>6. 1 .. m = (1 .. n) \cup (n + 1 .. m)
  BY <1>2
<1>7. \A c : Positions(c) = {i \in 1 .. n : log[i].cmd = c}
  BY DEF Positions, n
<1>8. \A c : Positions(c)' = {i \in 1 .. m : log'[i].cmd = c}
  BY <1>2 DEF Positions
<1>9. Positions(c0)' = n + 1 .. m
  <2>1. \A i \in 1 .. n : log'[i].cmd # c0
    BY <1>4, <1>5, <1>7
  <2> QED
    BY <1>4, <1>6, <1>8, <2>1
<1>10. Cardinality(n + 1 .. m) = m - n
  <2>1. n + 1 \in Int /\ m \in Int /\ ~(n + 1 > m) /\ m - (n + 1) + 1 = m - n
    BY <1>2
  <2> QED
    BY <2>1, FS_Interval
<1>11. \A c \in CommandIds \ {c0} : Positions(c)' = Positions(c)
  BY <1>4, <1>6, <1>7, <1>8
<1> DEFINE Whole(c) == LET here == Positions(c) IN
             /\ here # {} <=> receipts[c].status = "accepted"
             /\ here # {} => here = receipts[c].seq - Cardinality(here) + 1 .. receipts[c].seq
             /\ \A i, j \in here : log[i] = log[j] => i = j
<1>12. Whole(c0)'
  <2>1. m - (m - n) + 1 = n + 1 /\ m \in n + 1 .. m
    BY <1>2
  <2>2. (Positions(c0) = receipts[c0].seq - Cardinality(Positions(c0)) + 1 .. receipts[c0].seq)'
    BY <1>3, <1>9, <1>10, <2>1
  <2> QED
    BY <1>3, <1>4, <1>9, <2>1, <2>2
<1>13. ASSUME NEW c \in CommandIds \ {c0} PROVE Whole(c)'
  <2>1. Whole(c)
    BY <1>1 DEF CommandsAreAtomic
  <2>2. \A i \in Positions(c) : i \in 1 .. n
    BY <1>7
  <2> QED
    BY <1>3, <1>4, <1>11, <2>1, <2>2
<1>14. \A c \in CommandIds : Whole(c)'
  BY <1>12, <1>13
<1> QED
  BY <1>14 DEF CommandsAreAtomic

LEMMA AtomicStep == ASSUME IInv, [Next]_vars PROVE CommandsAreAtomic'
<1>0. TypeOK /\ AtWork /\ Undecided /\ CommandsAreAtomic
  BY DEF IInv, Typed
<1>1. CASE Commit \/ CommitUncertain
  BY <1>1, PersistAtomic DEF Commit, CommitUncertain
<1>2. CASE RecordRejection
  <2>1. PICK c0 : c0 = cmd
    OBVIOUS
  <2>2. c0 \in CommandIds /\ receipts[c0].status = "none" /\ log' = log
    BY <1>0, <1>2, <2>1, AttemptsAssumption DEF RecordRejection, AtWork, Undecided, cmd
  <2>3. \A c : {i \in 1 .. Len(log') : log'[i].cmd = c} = {i \in 1 .. Len(log) : log[i].cmd = c}
    BY <2>2
  <2>4. {i \in 1 .. Len(log) : log[i].cmd = c0} = {}
    BY <1>0, <2>2 DEF CommandsAreAtomic, Positions
  <2>5. \A c \in CommandIds \ {c0} : receipts'[c] = receipts[c]
    BY <1>0, <1>2, <2>1 DEF RecordRejection, TypeOK
  <2>6. receipts'[c0].status # "accepted"
    BY <1>0, <1>2, <2>1, <2>2 DEF RecordRejection, TypeOK
  <2> QED
    BY <1>0, <2>2, <2>3, <2>4, <2>5, <2>6 DEF CommandsAreAtomic, Positions
<1>3. CASE UNCHANGED <<log, receipts>>
  BY <1>0, <1>3, StoreUnchanged
<1>4. Commit \/ CommitUncertain \/ RecordRejection \/ UNCHANGED <<log, receipts>>
  BY DEF Next, WorkerStep, vars, durable, Dispatch, Take, KnownCommand, NewCommand, LookupFails,
     Decide, Refuse, AppendEvent, TxFails, Publish, Reconcile, CatchUp, PublishMissed,
     ReconcileFails, RejectionLost, Reply, Crash, Boot
<1> QED
  BY <1>1, <1>2, <1>3, <1>4

\* No step shortens or rewrites the log, or changes a receipt that is there.
LEMMA HistoryStep ==
  ASSUME IInv, [Next]_vars
  PROVE  /\ IsPrefix(log, log')
         /\ \A c \in CommandIds : receipts[c].status # "none" => receipts'[c] = receipts[c]
<1>0. TypeOK /\ AtWork /\ Staged /\ Undecided
  BY DEF IInv, Typed
<1>1. CASE Commit \/ CommitUncertain
  <2>1. /\ pc = "append" /\ Persist /\ cur \in Attempts /\ tx \in TxRecord
        /\ StagedFor(cmd, log, tx.log, tx.todo) /\ receipts[cmd].status = "none"
    BY <1>0, <1>1 DEF Commit, CommitUncertain, AtWork, Staged, Undecided
  <2>2. \A c \in CommandIds : receipts[c].status # "none" => receipts'[c] = receipts[c]
    BY <1>0, <2>1 DEF Persist, TypeOK
  <2>3. /\ log \in Seq(Event) /\ log' \in Seq(Event) /\ Len(log) <= Len(log')
        /\ \A i \in 1 .. Len(log) : log'[i] = log[i]
    BY <1>0, <2>1 DEF Persist, TypeOK, TxRecord, StagedFor
  <2>4. IsPrefix(log, log')
    BY <2>3 DEF IsPrefix
  <2> QED
    BY <2>2, <2>4
<1>2. CASE UNCHANGED log /\ (RecordRejection \/ UNCHANGED receipts)
  <2>1. IsPrefix(log, log')
    BY <1>0, <1>2 DEF IsPrefix, TypeOK
  <2>2. \A c \in CommandIds : receipts[c].status # "none" => receipts'[c] = receipts[c]
    BY <1>0, <1>2 DEF RecordRejection, Undecided, TypeOK
  <2> QED
    BY <2>1, <2>2
<1>3. Commit \/ CommitUncertain \/ (UNCHANGED log /\ (RecordRejection \/ UNCHANGED receipts))
  BY DEF Next, WorkerStep, vars, durable, Dispatch, Take, KnownCommand, NewCommand,
     LookupFails, Decide, Refuse, AppendEvent, TxFails, Publish, Reconcile, CatchUp,
     PublishMissed, ReconcileFails, RecordRejection, RejectionLost, Reply, Crash, Boot
<1> QED
  BY <1>1, <1>2, <1>3

-----------------------------------------------------------------------------
(* The theorems.                                                           *)

LEMMA StepIInv == ASSUME IInv, [Next]_vars PROVE IInv'
  BY TypedStep, ControlStep, StagedStep, AtomicStep DEF IInv

\* The inductive invariant holds.
THEOREM SpecIInv == Spec => []IInv
<1>1. Init => IInv
  BY InitIInv
<1>2. IInv /\ [Next]_vars => IInv'
  BY StepIInv
<1> QED
  BY <1>1, <1>2, PTL DEF Spec

\* Type correctness.
THEOREM TypeCorrect == Spec => []TypeOK
<1>1. IInv => TypeOK
  BY DEF IInv, Typed
<1> QED
  BY <1>1, SpecIInv, PTL

\* A command is in the log whole, in one place, once, and exactly if its receipt
\* says so: whatever fails, is retried or is cut off by a crash.
THEOREM Atomic == Spec => []CommandsAreAtomic
<1>1. IInv => CommandsAreAtomic
  BY DEF IInv
<1> QED
  BY <1>1, SpecIInv, PTL

\* The log only grows and no receipt is ever changed: a retry finds what the
\* first attempt was told.
THEOREM Final == Spec => HistoryIsFinal
<1> DEFINE A == /\ IsPrefix(log, log')
                /\ \A c \in CommandIds : receipts[c].status # "none" => receipts'[c] = receipts[c]
<1>1. IInv /\ [Next]_vars => [A]_vars
  BY HistoryStep
<1> QED
  BY <1>1, SpecIInv, PTL DEF Spec, HistoryIsFinal

-----------------------------------------------------------------------------
(* Answers, when the receipts of refused commands are not lost.            *)

Refusals == {"rejected", "previouslyRejected"}

\* The answer in the worker's hands agrees with the receipt of its command ...
AnswerHolds ==
  /\ pc = "publish" => answer.status = "ok"
  /\ pc \in {"reconcile", "catchUp"} => answer.status \in {"rejected", "failed"}
  /\ pc \in {"publish", "reply"} /\ answer.status = "ok"
       => receipts[cmd] = [status |-> "accepted", seq |-> answer.seq]
  /\ pc = "reply" /\ answer.status \in Refusals => receipts[cmd].status = "rejected"

\* ... and so does every answer ever given.
RepliesHold ==
  \A a \in Attempts :
    /\ reply[a].status = "ok"
         => receipts[AttemptOf[a]] = [status |-> "accepted", seq |-> reply[a].seq]
    /\ reply[a].status \in Refusals => receipts[AttemptOf[a]].status = "rejected"

LEMMA AnswerStep ==
  ASSUME IInv, AnswerHolds, [Next]_vars, "receipt" \notin Faults
  PROVE  AnswerHolds'
<1>0. TypeOK /\ AtWork /\ Undecided
  BY DEF IInv, Typed
<1> USE <1>0, AttemptsAssumption DEF AnswerHolds, Refusals
<1>1. ASSUME NEW a \in Attempts, Dispatch(a) PROVE AnswerHolds'
  BY <1>1 DEF Dispatch, durable, cmd
<1>2. CASE KnownCommand
  <2>1. cmd \in CommandIds /\ receipts[cmd] \in Receipt /\ cmd' = cmd /\ receipts' = receipts
    BY <1>2 DEF KnownCommand, TypeOK, AtWork, cmd, durable
  <2>2. CASE receipts[cmd].status = "accepted"
    <3>1. receipts[cmd] = [status |-> "accepted", seq |-> receipts[cmd].seq]
      BY <2>1, <2>2 DEF Receipt
    <3>2. answer' = [status |-> "ok", seq |-> receipts[cmd].seq] /\ pc' = "reply"
      BY <1>2, <2>2 DEF KnownCommand
    <3> QED
      BY <2>1, <3>1, <3>2
  <2>3. CASE receipts[cmd].status # "accepted"
    BY <1>2, <2>1, <2>3 DEF KnownCommand, Told, Receipt
  <2> QED
    BY <2>2, <2>3
<1>3. CASE Take \/ NewCommand \/ Decide \/ AppendEvent
  BY <1>3 DEF Take, NewCommand, Decide, AppendEvent
<1>4. CASE LookupFails \/ Refuse \/ TxFails \/ CommitUncertain
  BY <1>4 DEF LookupFails, Refuse, TxFails, CommitUncertain, Told
<1>5. CASE Commit
  <2>1. cmd \in CommandIds /\ cmd' = cmd
    BY <1>5 DEF Commit, AtWork, cmd
  <2> QED
    BY <1>5, <2>1 DEF Commit, Persist, TypeOK
<1>6. CASE Publish \/ Reconcile \/ CatchUp
  BY <1>6 DEF Publish, Reconcile, CatchUp, durable, cmd
<1>7. CASE PublishMissed \/ ReconcileFails
  BY <1>7 DEF PublishMissed, ReconcileFails, AfterReconcile, durable, cmd
<1>8. CASE RecordRejection
  <2>1. cmd \in CommandIds /\ cmd' = cmd
    BY <1>8 DEF RecordRejection, AtWork, cmd
  <2>2. receipts'[cmd] = [status |-> "rejected", seq |-> seq]
    BY <1>8, <2>1 DEF RecordRejection, TypeOK
  <2>3. receipts'[cmd].status = "rejected" /\ answer'.status = "rejected" /\ pc' = "reply"
    BY <1>8, <2>2 DEF RecordRejection, Undecided
  <2> QED
    BY <2>1, <2>3 DEF cmd
<1>9. CASE RejectionLost
  BY <1>9 DEF RejectionLost, Fault
<1>10. CASE Reply \/ Crash \/ Boot
  BY <1>10 DEF Reply, Crash, Boot
<1>11. CASE UNCHANGED vars
  BY <1>11 DEF vars, durable, cmd
<1> QED
  BY <1>1, <1>2, <1>3, <1>4, <1>5, <1>6, <1>7, <1>8, <1>9, <1>10, <1>11 DEF Next, WorkerStep

LEMMA RepliesStep ==
  ASSUME IInv, AnswerHolds, RepliesHold, [Next]_vars
  PROVE  RepliesHold'
<1>0. TypeOK /\ AtWork
  BY DEF IInv, Typed
<1>1. \A c \in CommandIds : receipts[c].status # "none" => receipts'[c] = receipts[c]
  BY HistoryStep
<1>2. ASSUME NEW a \in Attempts
      PROVE  \/ reply'[a] = reply[a]
             \/ reply'[a].status \in {"pending", "lost"}
             \/ pc = "reply" /\ a = cur /\ reply'[a] = answer /\ receipts' = receipts
  BY <1>0 DEF Next, WorkerStep, vars, durable, Dispatch, Take, KnownCommand, NewCommand,
     LookupFails, Decide, Refuse, AppendEvent, Commit, TxFails, CommitUncertain, Publish,
     Reconcile, CatchUp, PublishMissed, ReconcileFails, RecordRejection, RejectionLost, Reply,
     Crash, Boot, TypeOK, Told
<1>3. ASSUME NEW a \in Attempts
      PROVE  /\ reply'[a].status = "ok"
                  => receipts'[AttemptOf[a]] = [status |-> "accepted", seq |-> reply'[a].seq]
             /\ reply'[a].status \in Refusals => receipts'[AttemptOf[a]].status = "rejected"
  <2>1. AttemptOf[a] \in CommandIds
    BY AttemptsAssumption
  <2>2. CASE reply'[a] = reply[a]
    BY <1>1, <2>1, <2>2 DEF RepliesHold
  <2>3. CASE reply'[a].status \in {"pending", "lost"}
    BY <2>3 DEF Refusals
  <2>4. CASE pc = "reply" /\ a = cur /\ reply'[a] = answer /\ receipts' = receipts
    BY <2>4 DEF AnswerHolds, cmd
  <2> QED
    BY <1>2, <2>2, <2>3, <2>4
<1> QED
  BY <1>3 DEF RepliesHold

\* What a caller was told stays true.
THEOREM RepliesTrue == ASSUME "receipt" \notin Faults PROVE Spec => []RepliesAreTrue
<1>1. Init => AnswerHolds /\ RepliesHold
  BY DEF Init, AnswerHolds, RepliesHold, Refusals, Told
<1>2. IInv /\ (AnswerHolds /\ RepliesHold) /\ [Next]_vars => (AnswerHolds /\ RepliesHold)'
  BY AnswerStep, RepliesStep
<1>3. IInv /\ AnswerHolds /\ RepliesHold => RepliesAreTrue
  <2> SUFFICES ASSUME IInv, RepliesHold, NEW a \in Attempts
               PROVE  /\ reply[a].status = "ok" =>
                           /\ reply[a].seq \in Positions(AttemptOf[a])
                           /\ receipts[AttemptOf[a]] = [status |-> "accepted", seq |-> reply[a].seq]
                      /\ reply[a].status \in Refusals => Positions(AttemptOf[a]) = {}
    BY DEF RepliesAreTrue, Refusals
  <2>1. AttemptOf[a] \in CommandIds /\ CommandsAreAtomic /\ TypeOK
    BY AttemptsAssumption DEF IInv, Typed
  <2>2. ASSUME reply[a].status = "ok" PROVE reply[a].seq \in Positions(AttemptOf[a])
    <3> DEFINE here == Positions(AttemptOf[a])
               last == reply[a].seq
    <3>0. receipts[AttemptOf[a]] = [status |-> "accepted", seq |-> last]
      BY <2>2 DEF RepliesHold
    <3>1. receipts[AttemptOf[a]].status = "accepted" /\ receipts[AttemptOf[a]].seq = last
      BY <3>0
    <3>2. here # {} /\ here = last - Cardinality(here) + 1 .. last
      BY <2>1, <3>1 DEF CommandsAreAtomic
    <3>3. here \subseteq 1 .. Len(log) /\ Len(log) \in Nat /\ last \in Nat
      BY <2>1 DEF Positions, TypeOK, Answer
    <3>4. Cardinality(here) \in Nat
      <4>1. IsFiniteSet(1 .. Len(log))
        BY <3>3, FS_Interval
      <4> QED
        BY <3>3, <4>1, FS_Subset, FS_CardinalityType
    <3> QED
      BY <3>2, <3>3, <3>4
  <2>3. reply[a].status \in Refusals => Positions(AttemptOf[a]) = {}
    BY <2>1 DEF CommandsAreAtomic, RepliesHold, Refusals
  <2> QED
    BY <2>2, <2>3 DEF RepliesHold
<1> QED
  BY <1>1, <1>2, <1>3, SpecIInv, PTL DEF Spec
-----------------------------------------------------------------------------
(* Publication, whatever fails.                                            *)

Increasing(s) == \A i, j \in 1 .. Len(s) : i < j => s[i] < s[j]
Within(s, from, to) == \A i \in 1 .. Len(s) : s[i] \in from + 1 .. to

\* Subscribers have got sequences up to the one the model is at and, while a command is
\* handled, up to the one it started from; a transaction starts where the log ends.
Published ==
  /\ Increasing(published)
  /\ bootSeq <= Len(log) /\ seq <= Len(log)
  /\ pc = "down" => published = <<>>
  /\ pc # "down" => bootSeq <= seq
  /\ pc \notin {"down", "publish"} => Within(published, bootSeq, seq)
  /\ pc \in {"lookup", "decide", "append", "reconcile", "catchUp"} =>
       /\ bootSeq <= startSeq /\ startSeq <= seq
       /\ Within(published, bootSeq, startSeq)
  /\ pc = "append" => tx.base = Len(log)
  /\ pc = "publish" =>
       /\ bootSeq <= tx.base /\ tx.base <= Len(log) /\ seq = Len(log)
       /\ Within(published, bootSeq, tx.base)

\* What follows the sequences up to some point may be published after them.
LEMMA PublishFurther ==
  ASSUME NEW s \in Seq(Nat), NEW from \in Nat, NEW mid \in Nat, NEW to \in Nat,
         Increasing(s), Within(s, from, mid), from <= mid, mid <= to
  PROVE  LET all == s \o Sequences(mid, to) IN Increasing(all) /\ Within(all, from, to)
<1> DEFINE more == Sequences(mid, to)
           all == s \o more
<1>1. more \in Seq(Nat) /\ Len(more) = to - mid /\ \A i \in 1 .. Len(more) : more[i] = mid + i
  BY SequencesTyped DEF Sequences
<1> HIDE DEF more
<1>2. Len(all) = Len(s) + Len(more)
  BY <1>1
<1>3. \A i \in 1 .. Len(s) : all[i] = s[i]
  BY <1>1
<1>4. \A i \in Len(s) + 1 .. Len(all) : all[i] = mid + (i - Len(s))
  BY <1>1, <1>2
<1>5. \A i \in 1 .. Len(s) : all[i] \in from + 1 .. mid
  BY <1>3 DEF Within
<1>6. Within(all, from, to)
  <2> SUFFICES ASSUME NEW i \in 1 .. Len(all) PROVE all[i] \in from + 1 .. to
    BY DEF Within
  <2> HIDE DEF all
  <2>1. CASE i <= Len(s)
    BY <1>5, <2>1
  <2>2. CASE i > Len(s)
    <3>1. Len(s) \in Nat /\ Len(more) \in Nat /\ i \in Len(s) + 1 .. Len(all)
      BY <1>1, <1>2, <2>2
    <3>2. all[i] = mid + (i - Len(s)) /\ i - Len(s) \in 1 .. to - mid
      BY <1>1, <1>2, <1>4, <3>1
    <3> QED
      BY <3>2
  <2> QED
    BY <2>1, <2>2
<1>7. ASSUME NEW i \in 1 .. Len(all), NEW j \in 1 .. Len(all), i < j PROVE all[i] < all[j]
  <2>1. CASE j <= Len(s)
    BY <1>3, <1>7, <2>1 DEF Increasing
  <2>2. CASE i <= Len(s) /\ j > Len(s)
    BY <1>2, <1>4, <1>5, <2>2
  <2>3. CASE i > Len(s)
    BY <1>2, <1>4, <1>7, <2>3
  <2> QED
    BY <2>1, <2>2, <2>3
<1> QED
  BY <1>6, <1>7 DEF Increasing, more

\* A bound that moves up stays a bound.
LEMMA WithinMore ==
  ASSUME NEW s \in Seq(Nat), NEW from \in Nat, NEW mid \in Nat, NEW to \in Nat,
         mid <= to, Within(s, from, mid)
  PROVE  Within(s, from, to)
  BY DEF Within

LEMMA PublishedStep ==
  ASSUME IInv, Published, [Next]_vars
  PROVE  Published'
<1>0. TypeOK /\ AtWork /\ Staged
  BY DEF IInv, Typed
<1>a. published \in Seq(Nat) /\ bootSeq \in Nat /\ seq \in Nat /\ startSeq \in Nat /\ Len(log) \in Nat
  BY <1>0 DEF TypeOK
<1> USE DEF Published
<1>1. ASSUME NEW a \in Attempts, Dispatch(a) PROVE Published'
  BY <1>1 DEF Dispatch, durable, Increasing, Within
<1>2. CASE Take
  BY <1>a, <1>2 DEF Take, durable, Increasing, Within
<1>3. CASE KnownCommand \/ NewCommand \/ LookupFails \/ Refuse
  BY <1>3 DEF KnownCommand, NewCommand, LookupFails, Refuse, durable, Increasing, Within
<1>4. CASE Decide
  BY <1>4 DEF Decide, durable, Increasing, Within
<1>5. CASE AppendEvent
  <2>1. tx'.base = tx.base
    BY <1>0, <1>5 DEF AppendEvent, AtWork, TxRecord
  <2> QED
    BY <1>5, <2>1 DEF AppendEvent, durable, Increasing, Within
<1>6. CASE Commit \/ CommitUncertain
  <2>1. Len(tx.log) \in Nat /\ Len(log) <= Len(tx.log) /\ log' = tx.log
    <3>1. pc = "append" /\ log' = tx.log
      BY <1>6 DEF Commit, CommitUncertain, Persist
    <3>2. tx.log \in Seq(Event)
      BY <1>0, <3>1 DEF AtWork, TxRecord
    <3>3. Len(log) <= Len(tx.log)
      BY <1>0, <3>1 DEF Staged, StagedFor
    <3> QED
      BY <3>1, <3>2, <3>3
  <2>2. CASE Commit
    <3>0. pc = "append" /\ startSeq <= tx.base /\ tx.base \in Nat
      BY <1>a, <2>2 DEF Commit
    <3>1. Within(published, bootSeq, tx.base)
      BY <1>a, <3>0, WithinMore
    <3>2. seq' = Len(log') /\ bootSeq <= tx.base /\ tx.base <= Len(log') /\ tx'.base = tx.base
      BY <1>a, <2>1, <2>2 DEF Commit
    <3>3. /\ pc' = "publish" /\ published' = published /\ bootSeq' = bootSeq
          /\ tx' = tx /\ Len(log') \in Nat /\ bootSeq <= Len(log')
      BY <1>a, <2>1, <2>2 DEF Commit
    <3> QED
      BY <3>1, <3>2, <3>3 DEF Increasing, Within
  <2>3. CASE CommitUncertain
    BY <1>a, <2>1, <2>3 DEF CommitUncertain, Increasing, Within
  <2> QED
    BY <1>6, <2>2, <2>3
<1>7. CASE TxFails
  BY <1>7 DEF TxFails, durable, Increasing, Within
<1>8. CASE Publish
  <2>1. tx.base \in Nat
    BY <1>0, <1>8 DEF Publish, AtWork, TxRecord
  <2>2. Increasing(published') /\ Within(published', bootSeq, Len(log))
    BY <1>a, <1>8, <2>1, PublishFurther DEF Publish
  <2> QED
    BY <1>8, <2>2 DEF Publish, durable, Increasing, Within
<1>9. CASE Reconcile
  BY <1>9 DEF Reconcile, durable, Increasing, Within
<1>10. CASE CatchUp
  <2>1. Within(published, bootSeq, seq + 1)
    BY <1>a, <1>10, WithinMore DEF CatchUp
  <2> QED
    BY <1>a, <1>10, <2>1 DEF CatchUp, durable, Increasing, Within
<1>11. CASE PublishMissed
  <2>1. Increasing(published') /\ Within(published', bootSeq, Len(log))
    BY <1>a, <1>11, PublishFurther DEF PublishMissed
  <2> QED
    BY <1>11, <2>1 DEF PublishMissed, AfterReconcile, durable, Increasing, Within
<1>12. CASE ReconcileFails
  BY <1>12 DEF ReconcileFails, AfterReconcile, durable, Increasing, Within
<1>13. CASE RecordRejection \/ RejectionLost \/ Reply
  BY <1>13 DEF RecordRejection, RejectionLost, Reply, durable, Increasing, Within
<1>14. CASE Crash
  BY <1>a, <1>14 DEF Crash, durable, Increasing, Within
<1>15. CASE Boot
  BY <1>a, <1>15 DEF Boot, durable, Increasing, Within
<1>16. CASE UNCHANGED vars
  BY <1>16 DEF vars, durable, Increasing, Within
<1> QED
  BY <1>1, <1>2, <1>3, <1>4, <1>5, <1>6, <1>7, <1>8, <1>9, <1>10, <1>11, <1>12, <1>13, <1>14,
     <1>15, <1>16 DEF Next, WorkerStep

\* Subscribers get every event at most once, in order, and only events that are
\* stored, even when a reconciliation fails and the model stays behind the log.
THEOREM PublishedOnce == Spec => []NeverPublishedTwice
<1>1. Init => Published
  BY DEF Init, Published, Increasing, Within
<1>2. IInv /\ Published /\ [Next]_vars => Published'
  BY PublishedStep
<1>3. IInv /\ Published => NeverPublishedTwice
  <2> SUFFICES ASSUME IInv, Published
               PROVE  Increasing(published) /\ Within(published, bootSeq, Len(log))
    BY DEF NeverPublishedTwice, Increasing, Within
  <2>1. /\ published \in Seq(Nat) /\ bootSeq \in Nat /\ seq \in Nat /\ Len(log) \in Nat
        /\ pc = "publish" => tx.base \in Nat
    BY DEF IInv, Typed, TypeOK, AtWork, TxRecord
  <2>2. CASE pc = "down"
    BY <2>2 DEF Published, Within
  <2>3. CASE pc = "publish"
    BY <2>1, <2>3, WithinMore DEF Published
  <2>4. CASE pc \notin {"down", "publish"}
    BY <2>1, <2>4, WithinMore DEF Published
  <2> QED
    BY <2>2, <2>3, <2>4
<1> QED
  BY <1>1, <1>2, <1>3, SpecIInv, PTL DEF Spec

-----------------------------------------------------------------------------
(* Bounded induction, and what replaying a log amounts to.                 *)

LEMMA NaturalsAreFounded ==
  \E R : IsWellFoundedOn(R, Nat) /\ \A m \in Nat, n \in Nat : m < n => <<m, n>> \in R
<1>1. \A m \in Nat, n \in Nat : m < n => <<m, n>> \in OpToRel(<, Nat)
  BY Zenon DEF OpToRel
<1> QED
  BY <1>1, NatLessThanWellFounded, Zenon

\* A set of natural numbers that has any has a least one.
LEMMA LeastNatural ==
  ASSUME NEW S, S \subseteq Nat, S # {}
  PROVE  \E m \in S : \A n \in S : m <= n
<1>1. PICK R : IsWellFoundedOn(R, Nat) /\ \A m \in Nat, n \in Nat : m < n => <<m, n>> \in R
  BY NaturalsAreFounded, Zenon
<1>2. IsWellFoundedOn(R, Nat)
  BY <1>1
<1>3. PICK m \in S : \A n \in S : ~ (<<n, m>> \in R)
  BY <1>2, WFMin
<1>4. ASSUME NEW n \in S PROVE ~ (n < m)
  BY <1>1, <1>3, Zenon
<1>5. \A n \in S : m <= n
  BY <1>4
<1> QED
  BY <1>5

\* A set that holds 0 and, with a number below the bound, the next one, holds all up
\* to the bound.
LEMMA UpTo ==
  ASSUME NEW S, NEW bound \in Nat, 0 \in S,
         \A n \in 0 .. bound : n < bound /\ n \in S => n + 1 \in S
  PROVE  0 .. bound \subseteq S
<1> DEFINE Missing == {n \in 0 .. bound : n \notin S}
<1> SUFFICES ASSUME Missing # {} PROVE FALSE
  OBVIOUS
<1>1. Missing \subseteq Nat
  OBVIOUS
<1>2. PICK m \in Missing : \A n \in Missing : m <= n
  <2> HIDE DEF Missing
  <2> QED
    BY <1>1, LeastNatural
<1>3. m # 0 /\ m - 1 \in 0 .. bound /\ m - 1 < bound /\ m - 1 + 1 = m /\ ~ (m <= m - 1)
  BY <1>2
<1>4. m - 1 \notin Missing
  BY <1>2, <1>3
<1> QED
  BY <1>2, <1>3, <1>4

\* The recursive definition of ViewsAlong has the value it describes.
LEMMA ViewsAlongIs ==
  ASSUME NEW v, NEW s \in Seq(Event)
  PROVE  LET at == ViewsAlong(v, s) IN
           at = [n \in 0 .. Len(s) |-> IF n = 0 THEN v ELSE ProjectInSql(at[n - 1], s[n])]
<1> DEFINE Step(f, n) == IF n = 0 THEN v ELSE ProjectInSql(f[n - 1], s[n])
           Some == {m \in 0 .. Len(s) : \E f : f = [n \in 0 .. m |-> Step(f, n)]}
<1>1. 0 \in Some
  <2> DEFINE f == [n \in 0 .. 0 |-> v]
  <2>1. f = [n \in 0 .. 0 |-> Step(f, n)]
    OBVIOUS
  <2> HIDE DEF f, Step
  <2> QED
    BY <2>1
<1>2. ASSUME NEW m \in 0 .. Len(s), m < Len(s), m \in Some PROVE m + 1 \in Some
  <2>1. PICK f : f = [n \in 0 .. m |-> Step(f, n)]
    BY <1>2
  <2> DEFINE g == [n \in 0 .. m + 1 |-> IF n = m + 1 THEN Step(f, n) ELSE f[n]]
  <2>2. ASSUME NEW n \in 0 .. m + 1 PROVE g[n] = Step(g, n)
    <3>1. CASE n = 0
      <4>1. g[n] = f[n] /\ f[n] = v
        BY <2>1, <3>1
      <4> QED
        BY <3>1, <4>1
    <3>2. CASE n # 0
      <4>1. n - 1 \in 0 .. m /\ n - 1 \in 0 .. m + 1 /\ n - 1 # m + 1 /\ (n \in 0 .. m \/ n = m + 1)
        BY <3>2
      <4>2. g[n - 1] = f[n - 1]
        BY <4>1
      <4>3. Step(g, n) = Step(f, n)
        BY <3>2, <4>2
      <4>4. g[n] = Step(f, n)
        BY <2>1, <4>1
      <4> QED
        BY <4>3, <4>4
    <3> QED
      BY <3>1, <3>2
  <2>3. g = [n \in 0 .. m + 1 |-> Step(g, n)]
    BY <2>2
  <2>4. m + 1 \in 0 .. Len(s)
    BY <1>2
  <2> HIDE DEF g, Step
  <2> QED
    BY <2>3, <2>4
<1>3. Len(s) \in Nat
  OBVIOUS
<1>4. Len(s) \in Some
  <2> HIDE DEF Some
  <2>1. 0 .. Len(s) \subseteq Some
    BY <1>1, <1>2, <1>3, UpTo
  <2> QED
    BY <1>3, <2>1
<1>5. \E f : f = [n \in 0 .. Len(s) |-> Step(f, n)]
  BY <1>4
<1> QED
  BY <1>5, Zenon DEF ViewsAlong

LEMMA ViewsStep ==
  ASSUME NEW v, NEW s \in Seq(Event)
  PROVE  /\ ViewsAlong(v, s)[0] = v
         /\ \A n \in 1 .. Len(s) : ViewsAlong(v, s)[n] = ProjectInSql(ViewsAlong(v, s)[n - 1], s[n])
<1> DEFINE at == ViewsAlong(v, s)
<1>1. at = [n \in 0 .. Len(s) |-> IF n = 0 THEN v ELSE ProjectInSql(at[n - 1], s[n])]
  BY ViewsAlongIs
<1> HIDE DEF at
<1>2. 0 \in 0 .. Len(s) /\ \A n \in 1 .. Len(s) : n \in 0 .. Len(s) /\ n # 0
  OBVIOUS
<1>3. at[0] = v /\ \A n \in 1 .. Len(s) : at[n] = ProjectInSql(at[n - 1], s[n])
  BY <1>1, <1>2
<1> QED
  BY <1>3 DEF at

\* Views along a common prefix are the same.
LEMMA ViewsPrefix ==
  ASSUME NEW v, NEW s \in Seq(Event), NEW t \in Seq(Event),
         Len(s) <= Len(t), \A i \in 1 .. Len(s) : t[i] = s[i]
  PROVE  \A n \in 0 .. Len(s) : ViewsAlong(v, t)[n] = ViewsAlong(v, s)[n]
<1> DEFINE Same == {n \in 0 .. Len(s) : ViewsAlong(v, t)[n] = ViewsAlong(v, s)[n]}
<1>1. 0 \in Same
  BY ViewsStep
<1>2. ASSUME NEW n \in 0 .. Len(s), n < Len(s), n \in Same PROVE n + 1 \in Same
  <2>1. n + 1 \in 1 .. Len(s) /\ n + 1 \in 1 .. Len(t) /\ n + 1 - 1 = n /\ n + 1 \in 0 .. Len(s)
    BY <1>2
  <2>2. ViewsAlong(v, s)[n + 1] = ProjectInSql(ViewsAlong(v, s)[n + 1 - 1], s[n + 1])
    BY <2>1, ViewsStep
  <2>3. ViewsAlong(v, t)[n + 1] = ProjectInSql(ViewsAlong(v, t)[n + 1 - 1], t[n + 1])
    BY <2>1, ViewsStep
  <2> QED
    BY <1>2, <2>1, <2>2, <2>3
<1>3. 0 .. Len(s) \subseteq Same
  <2>1. Len(s) \in Nat
    OBVIOUS
  <2> HIDE DEF Same
  <2> QED
    BY <1>1, <1>2, <2>1, UpTo
<1> QED
  BY <1>3

LEMMA ViewsTyped ==
  ASSUME NEW v \in View, NEW s \in Seq(Event), AllGenuine(s)
  PROVE  \A n \in 0 .. Len(s) : ViewsAlong(v, s)[n] \in View
<1> DEFINE Good == {n \in 0 .. Len(s) : ViewsAlong(v, s)[n] \in View}
<1>1. 0 \in Good
  BY ViewsStep
<1>2. ASSUME NEW n \in 0 .. Len(s), n < Len(s), n \in Good PROVE n + 1 \in Good
  <2>1. n + 1 \in 1 .. Len(s) /\ n + 1 - 1 = n /\ n + 1 \in 0 .. Len(s)
    BY <1>2
  <2>2. ViewsAlong(v, s)[n + 1] = ProjectInSql(ViewsAlong(v, s)[n + 1 - 1], s[n + 1])
    BY <2>1, ViewsStep
  <2>3. Genuine(s[n + 1])
    BY <2>1 DEF AllGenuine
  <2> QED
    BY <1>2, <2>1, <2>2, <2>3, InSqlTyped
<1>3. 0 .. Len(s) \subseteq Good
  <2>1. Len(s) \in Nat
    OBVIOUS
  <2> HIDE DEF Good
  <2> QED
    BY <1>1, <1>2, <2>1, UpTo
<1> QED
  BY <1>3

LEMMA ReplayEmpty == \A v : Replay(v, <<>>) = v
<1>1. <<>> \in Seq(Event) /\ Len(<<>>) = 0
  OBVIOUS
<1> QED
  BY <1>1, ViewsStep DEF Replay

\* One more event: the views so far stay, and it is projected onto the last of them.
LEMMA ViewsAppend ==
  ASSUME NEW v, NEW s \in Seq(Event), NEW e \in Event
  PROVE  /\ \A n \in 0 .. Len(s) : ViewsAlong(v, Append(s, e))[n] = ViewsAlong(v, s)[n]
         /\ Replay(v, Append(s, e)) = ProjectInSql(Replay(v, s), e)
<1> DEFINE t == Append(s, e)
<1>1. /\ t \in Seq(Event) /\ Len(t) = Len(s) + 1 /\ t[Len(s) + 1] = e
      /\ \A i \in 1 .. Len(s) : t[i] = s[i]
  OBVIOUS
<1> HIDE DEF t
<1>2. Len(s) \in Nat /\ Len(s) + 1 \in 1 .. Len(t) /\ Len(s) + 1 - 1 = Len(s) /\ Len(s) \in 0 .. Len(s)
      /\ Len(s) <= Len(t)
  BY <1>1
<1>3. \A n \in 0 .. Len(s) : ViewsAlong(v, t)[n] = ViewsAlong(v, s)[n]
  BY <1>1, <1>2, ViewsPrefix
<1>4. ViewsAlong(v, t)[Len(s) + 1] = ProjectInSql(ViewsAlong(v, t)[Len(s) + 1 - 1], t[Len(s) + 1])
  BY <1>1, <1>2, ViewsStep
<1>5. Replay(v, t) = ProjectInSql(Replay(v, s), e)
  BY <1>1, <1>2, <1>3, <1>4 DEF Replay
<1> QED
  BY <1>3, <1>5 DEF t

-----------------------------------------------------------------------------
(* What an event does to each thread of a view.                            *)

ProjectEvents == {"project.created", "project.deleted"}

\* A thread in memory after an event, and in the projection tables.
ThreadInMemory(v, e, t) ==
  LET k == CommandOf[e.cmd]
  IN IF t # e.id \/ e.type \in ProjectEvents THEN v.threads[t]
     ELSE IF e.type = "thread.created" THEN NewThread(k)
     ELSE IF ~HasThread(v, t) THEN v.threads[t]
     ELSE IF e.type = "thread.turn-diff-completed"
       THEN CheckpointInMemory(v.threads[t], CheckpointOf(k))
     ELSE ThreadAfter(v.threads[t], e)

ThreadInSql(v, e, t) ==
  LET k == CommandOf[e.cmd]
  IN IF t # e.id \/ e.type \in ProjectEvents THEN v.threads[t]
     ELSE IF e.type = "thread.created" /\ HasThread(v, t)
       THEN [NewThread(k) EXCEPT !.plans = v.threads[t].plans,
                                 !.checkpoints = v.threads[t].checkpoints]
     ELSE IF e.type = "thread.turn-diff-completed" /\ HasThread(v, t)
       THEN CheckpointInSql(v.threads[t], CheckpointOf(k))
     ELSE ThreadInMemory(v, e, t)

ProjectsAfter(v, e) ==
  IF e.type = "project.created" THEN [v.projects EXCEPT ![e.id] = "live"]
  ELSE IF e.type = "project.deleted" /\ HasProject(v, e.id)
    THEN [v.projects EXCEPT ![e.id] = "deleted"]
  ELSE v.projects

LEMMA WithThreadIs ==
  ASSUME NEW v \in View, NEW id, NEW th
  PROVE  /\ WithThread(v, id, th).projects = v.projects
         /\ \A t \in Threads : WithThread(v, id, th).threads[t] = IF t = id THEN th ELSE v.threads[t]
<1>1. v.threads \in [Threads -> Thread \cup {Absent}]
      /\ v = [projects |-> v.projects, threads |-> v.threads]
  BY DEF View
<1>2. WithThread(v, id, th) = [projects |-> v.projects, threads |-> [v.threads EXCEPT ![id] = th]]
  BY <1>1 DEF WithThread
<1> QED
  BY <1>1, <1>2

LEMMA WithProjectIs ==
  ASSUME NEW v \in View, NEW p, NEW mark
  PROVE  /\ WithProject(v, p, mark).projects = [v.projects EXCEPT ![p] = mark]
         /\ WithProject(v, p, mark).threads = v.threads
<1>1. v = [projects |-> v.projects, threads |-> v.threads]
  BY DEF View
<1> QED
  BY <1>1 DEF WithProject

LEMMA InMemoryIs ==
  ASSUME NEW v \in View, NEW e
  PROVE  /\ ProjectInMemory(v, e).projects = ProjectsAfter(v, e)
         /\ \A t \in Threads : ProjectInMemory(v, e).threads[t] = ThreadInMemory(v, e, t)
<1> DEFINE k == CommandOf[e.cmd]
           after == ProjectInMemory(v, e)
<1>1. CASE e.type = "project.created"
  <2>1. after = WithProject(v, e.id, "live")
    BY <1>1 DEF ProjectInMemory
  <2>2. after.threads = v.threads /\ after.projects = [v.projects EXCEPT ![e.id] = "live"]
    BY <2>1, WithProjectIs
  <2> QED
    BY <1>1, <2>2 DEF ProjectsAfter, ThreadInMemory, ProjectEvents
<1>2. CASE e.type = "project.deleted"
  <2>1. CASE HasProject(v, e.id)
    <3>1. after = WithProject(v, e.id, "deleted")
      BY <1>2, <2>1 DEF ProjectInMemory
    <3>2. after.threads = v.threads /\ after.projects = [v.projects EXCEPT ![e.id] = "deleted"]
      BY <3>1, WithProjectIs
    <3> QED
      BY <1>2, <2>1, <3>2 DEF ProjectsAfter, ThreadInMemory, ProjectEvents
  <2>2. CASE ~HasProject(v, e.id)
    <3>1. after = v
      BY <1>2, <2>2 DEF ProjectInMemory
    <3> QED
      BY <1>2, <2>2, <3>1 DEF ProjectsAfter, ThreadInMemory, ProjectEvents
  <2> QED
    BY <2>1, <2>2
<1>3. CASE e.type = "thread.created"
  <2>1. after = WithThread(v, e.id, NewThread(k))
    BY <1>3 DEF ProjectInMemory
  <2>2. /\ after.projects = v.projects
        /\ \A t \in Threads : after.threads[t] = IF t = e.id THEN NewThread(k) ELSE v.threads[t]
    BY <2>1, WithThreadIs
  <2> QED
    BY <1>3, <2>2 DEF ProjectsAfter, ThreadInMemory, ProjectEvents
<1>4. CASE e.type = "thread.turn-diff-completed"
  <2> DEFINE th == CheckpointInMemory(v.threads[e.id], CheckpointOf(k))
  <2>1. CASE HasThread(v, e.id)
    <3>1. after = WithThread(v, e.id, th)
      BY <1>4, <2>1 DEF ProjectInMemory
    <3> HIDE DEF th
    <3>2. /\ after.projects = v.projects
          /\ \A t \in Threads : after.threads[t] = IF t = e.id THEN th ELSE v.threads[t]
      BY <3>1, WithThreadIs
    <3>3. \A t \in Threads : t = e.id => ThreadInMemory(v, e, t) = th
      BY <1>4, <2>1 DEF ThreadInMemory, ProjectEvents, th
    <3>4. \A t \in Threads : t # e.id => ThreadInMemory(v, e, t) = v.threads[t]
      BY DEF ThreadInMemory
    <3> QED
      BY <1>4, <3>2, <3>3, <3>4 DEF ProjectsAfter
  <2>2. CASE ~HasThread(v, e.id)
    <3>1. after = v
      BY <1>4, <2>2 DEF ProjectInMemory
    <3> QED
      BY <1>4, <2>2, <3>1 DEF ProjectsAfter, ThreadInMemory
  <2> QED
    BY <2>1, <2>2
<1>5. CASE e.type \notin {"project.created", "project.deleted", "thread.created",
                         "thread.turn-diff-completed"}
  <2> DEFINE th == ThreadAfter(v.threads[e.id], e)
  <2>1. CASE e.id \in Threads /\ HasThread(v, e.id)
    <3>1. after = WithThread(v, e.id, th)
      BY <1>5, <2>1 DEF ProjectInMemory
    <3> HIDE DEF th
    <3>2. /\ after.projects = v.projects
          /\ \A t \in Threads : after.threads[t] = IF t = e.id THEN th ELSE v.threads[t]
      BY <3>1, WithThreadIs
    <3>3. \A t \in Threads : t = e.id => ThreadInMemory(v, e, t) = th
      BY <1>5, <2>1 DEF ThreadInMemory, ProjectEvents, th
    <3>4. \A t \in Threads : t # e.id => ThreadInMemory(v, e, t) = v.threads[t]
      BY DEF ThreadInMemory
    <3> QED
      BY <1>5, <3>2, <3>3, <3>4 DEF ProjectsAfter
  <2>2. CASE ~(e.id \in Threads /\ HasThread(v, e.id))
    <3>1. after = v
      BY <1>5, <2>2 DEF ProjectInMemory
    <3>2. \A t \in Threads : ThreadInMemory(v, e, t) = v.threads[t]
      BY <1>5, <2>2 DEF ThreadInMemory
    <3> QED
      BY <1>5, <3>1, <3>2 DEF ProjectsAfter
  <2> QED
    BY <2>1, <2>2
<1> QED
  BY <1>1, <1>2, <1>3, <1>4, <1>5

LEMMA InSqlIs ==
  ASSUME NEW v \in View, NEW e
  PROVE  /\ ProjectInSql(v, e).projects = ProjectsAfter(v, e)
         /\ \A t \in Threads : ProjectInSql(v, e).threads[t] = ThreadInSql(v, e, t)
<1> DEFINE k == CommandOf[e.cmd]
           after == ProjectInSql(v, e)
<1>1. ASSUME NEW th, after = WithThread(v, e.id, th), e.type \notin ProjectEvents,
             \A t \in Threads : t = e.id => ThreadInSql(v, e, t) = th
      PROVE  /\ after.projects = ProjectsAfter(v, e)
             /\ \A t \in Threads : after.threads[t] = ThreadInSql(v, e, t)
  <2> HIDE DEF after
  <2>1. /\ after.projects = v.projects
        /\ \A t \in Threads : after.threads[t] = IF t = e.id THEN th ELSE v.threads[t]
    BY <1>1, WithThreadIs
  <2>2. \A t \in Threads : t # e.id => ThreadInSql(v, e, t) = v.threads[t]
    BY DEF ThreadInSql
  <2>3. ProjectsAfter(v, e) = v.projects
    BY <1>1 DEF ProjectsAfter, ProjectEvents
  <2> QED
    BY <1>1, <2>1, <2>2, <2>3
<1>2. CASE e.type = "thread.turn-diff-completed" /\ HasThread(v, e.id)
  <2> DEFINE th == CheckpointInSql(v.threads[e.id], CheckpointOf(k))
  <2>1. after = WithThread(v, e.id, th)
    BY <1>2 DEF ProjectInSql
  <2>2. \A t \in Threads : t = e.id => ThreadInSql(v, e, t) = th
    BY <1>2 DEF ThreadInSql, ProjectEvents
  <2>3. e.type \notin ProjectEvents
    BY <1>2 DEF ProjectEvents
  <2> HIDE DEF th
  <2> QED
    BY <1>1, <2>1, <2>2, <2>3
<1>3. CASE e.type = "thread.created" /\ HasThread(v, e.id)
  <2> DEFINE th == [NewThread(k) EXCEPT !.plans = v.threads[e.id].plans,
                                        !.checkpoints = v.threads[e.id].checkpoints]
  <2>1. after = WithThread(v, e.id, th)
    BY <1>3 DEF ProjectInSql
  <2>2. \A t \in Threads : t = e.id => ThreadInSql(v, e, t) = th
    BY <1>3 DEF ThreadInSql, ProjectEvents
  <2>3. e.type \notin ProjectEvents
    BY <1>3 DEF ProjectEvents
  <2> HIDE DEF th
  <2> QED
    BY <1>1, <2>1, <2>2, <2>3
<1>4. CASE ~(HasThread(v, e.id) /\ e.type \in {"thread.turn-diff-completed", "thread.created"})
  <2>1. after = ProjectInMemory(v, e)
    BY <1>4 DEF ProjectInSql
  <2>2. \A t \in Threads : ThreadInSql(v, e, t) = ThreadInMemory(v, e, t)
    <3> TAKE t \in Threads
    <3>1. CASE t = e.id /\ e.type \notin ProjectEvents
      BY <1>4, <3>1 DEF ThreadInSql
    <3>2. CASE ~(t = e.id /\ e.type \notin ProjectEvents)
      BY <3>2 DEF ThreadInSql, ThreadInMemory
    <3> QED
      BY <3>1, <3>2
  <2> QED
    BY <2>1, <2>2, InMemoryIs
<1> QED
  BY <1>2, <1>3, <1>4

-----------------------------------------------------------------------------
(* Two views that agree on what decisions depend on, but for plans.        *)

SameBasics(th, other) ==
  /\ th.project = other.project /\ th.archived = other.archived
  /\ th.deleted = other.deleted /\ th.mode = other.mode

Agree(v, w) ==
  /\ v.projects = w.projects
  /\ \A t \in Threads : /\ HasThread(v, t) <=> HasThread(w, t)
                        /\ HasThread(v, t) => SameBasics(v.threads[t], w.threads[t])

LEMMA ThreadTyped ==
  ASSUME NEW v \in View, NEW t \in Threads
  PROVE  HasThread(v, t) <=> v.threads[t] \in Thread
  BY AbsentAssumption DEF View, HasThread

\* The basics of a thread after an event are those of the thread before it and of the event.
LEMMA ThreadAfterBasics ==
  ASSUME NEW th \in Thread, NEW other \in Thread, NEW e, SameBasics(th, other)
  PROVE  SameBasics(ThreadAfter(th, e), ThreadAfter(other, e))
<1> DEFINE k == CommandOf[e.cmd]
<1> USE DEF SameBasics
<1>1. CASE e.type \in {"thread.deleted", "thread.archived", "thread.unarchived"}
  BY <1>1 DEF ThreadAfter, Thread
<1>2. CASE e.type = "thread.runtime-mode-set"
  BY <1>2 DEF ThreadAfter, Thread
<1>3. CASE e.type = "thread.proposed-plan-upserted"
  BY <1>3 DEF ThreadAfter, Thread
<1>4. CASE e.type = "thread.reverted"
  BY <1>4 DEF ThreadAfter, Reverted, Thread
<1>5. CASE e.type \notin {"thread.deleted", "thread.archived", "thread.unarchived",
                         "thread.runtime-mode-set", "thread.proposed-plan-upserted",
                         "thread.reverted"}
  BY <1>5 DEF ThreadAfter
<1> QED
  BY <1>1, <1>2, <1>3, <1>4, <1>5

\* A captured checkpoint changes a thread's checkpoints only.
LEMMA CheckpointKeeps ==
  ASSUME NEW th \in Thread, NEW cp
  PROVE  /\ SameBasics(th, CheckpointInMemory(th, cp)) /\ SameBasics(th, CheckpointInSql(th, cp))
         /\ CheckpointInMemory(th, cp).plans = th.plans /\ CheckpointInSql(th, cp).plans = th.plans
  BY DEF CheckpointInMemory, CheckpointInSql, SameBasics, Thread

\* In memory and in the tables an event has the same effect on the basics.
LEMMA AgreeStep ==
  ASSUME NEW v \in View, NEW w \in View, NEW e, Genuine(e), Agree(v, w)
  PROVE  Agree(ProjectInMemory(v, e), ProjectInSql(w, e))
<1> DEFINE k == CommandOf[e.cmd]
           v2 == ProjectInMemory(v, e)
           w2 == ProjectInSql(w, e)
<1>1. v2 \in View /\ w2 \in View
  BY InMemoryTyped, InSqlTyped
<1>2. v2.projects = w2.projects
  <2>1. v2.projects = ProjectsAfter(v, e) /\ w2.projects = ProjectsAfter(w, e)
    BY InMemoryIs, InSqlIs
  <2> QED
    BY <2>1 DEF ProjectsAfter, Agree, HasProject
<1>3. ASSUME NEW t \in Threads
      PROVE  /\ v2.threads[t] \in Thread <=> w2.threads[t] \in Thread
             /\ v2.threads[t] \in Thread => SameBasics(v2.threads[t], w2.threads[t])
  <2> DEFINE a == v.threads[t]
             b == w.threads[t]
  <2>1. v2.threads[t] = ThreadInMemory(v, e, t) /\ w2.threads[t] = ThreadInSql(w, e, t)
    BY InMemoryIs, InSqlIs
  <2>2. /\ HasThread(v, t) <=> a \in Thread
        /\ HasThread(w, t) <=> b \in Thread
        /\ a \in Thread <=> b \in Thread
        /\ a \in Thread => SameBasics(a, b)
    BY ThreadTyped DEF Agree
  <2>3. CASE t # e.id \/ e.type \in ProjectEvents
    BY <2>1, <2>2, <2>3 DEF ThreadInMemory, ThreadInSql
  <2>4. CASE t = e.id /\ e.type = "thread.created"
    <3>1. NewThread(k) \in Thread
      BY <2>4, CommandsAssumption, CommandFields DEF Genuine, Event, NewThread, Thread
    <3>2. v2.threads[t] = NewThread(k)
      BY <2>1, <2>4 DEF ThreadInMemory, ProjectEvents
    <3>3. CASE HasThread(w, t)
      <4>1. w2.threads[t] = [NewThread(k) EXCEPT !.plans = b.plans, !.checkpoints = b.checkpoints]
        BY <2>1, <2>4, <3>3 DEF ThreadInSql, ProjectEvents
      <4>2. w2.threads[t] \in Thread
        BY <2>2, <3>1, <3>3, <4>1 DEF Thread
      <4>3. SameBasics(NewThread(k), w2.threads[t])
        BY <4>1 DEF SameBasics, NewThread
      <4> QED
        BY <3>1, <3>2, <4>2, <4>3
    <3>4. CASE ~HasThread(w, t)
      <4>1. w2.threads[t] = NewThread(k)
        BY <2>1, <2>4, <3>4 DEF ThreadInSql, ThreadInMemory, ProjectEvents
      <4> QED
        BY <3>1, <3>2, <4>1 DEF SameBasics
    <3> QED
      BY <3>3, <3>4
  <2>5. CASE t = e.id /\ e.type \notin ProjectEvents \cup {"thread.created"} /\ ~HasThread(v, t)
    <3>1. v2.threads[t] = a /\ w2.threads[t] = b
      BY <2>1, <2>2, <2>5 DEF ThreadInMemory, ThreadInSql
    <3> QED
      BY <2>2, <3>1
  <2>6. CASE t = e.id /\ e.type = "thread.turn-diff-completed" /\ HasThread(v, t)
    <3> DEFINE cp == CheckpointOf(k)
    <3>1. v2.threads[t] = CheckpointInMemory(a, cp) /\ w2.threads[t] = CheckpointInSql(b, cp)
      BY <2>1, <2>2, <2>6 DEF ThreadInMemory, ThreadInSql, ProjectEvents
    <3>2. cp \in Checkpoint
      BY <2>6, CommandsAssumption, CommandFields DEF Genuine, Event, CheckpointOf, Checkpoint
    <3> HIDE DEF cp, a, b
    <3>3. v2.threads[t] \in Thread /\ w2.threads[t] \in Thread
      BY <2>2, <2>6, <3>1, <3>2, CheckpointsTyped
    <3>4. SameBasics(a, v2.threads[t]) /\ SameBasics(b, w2.threads[t]) /\ SameBasics(a, b)
      BY <2>2, <2>6, <3>1, CheckpointKeeps
    <3> QED
      BY <3>3, <3>4 DEF SameBasics
  <2>7. CASE /\ t = e.id /\ HasThread(v, t)
             /\ e.type \notin ProjectEvents \cup {"thread.created", "thread.turn-diff-completed"}
    <3>1. v2.threads[t] = ThreadAfter(a, e) /\ w2.threads[t] = ThreadAfter(b, e)
      BY <2>1, <2>2, <2>7 DEF ThreadInMemory, ThreadInSql
    <3> HIDE DEF a, b
    <3>2. v2.threads[t] \in Thread /\ w2.threads[t] \in Thread
      BY <2>2, <2>7, <3>1, ThreadAfterTyped
    <3> QED
      BY <2>2, <2>7, <3>1, <3>2, ThreadAfterBasics
  <2> QED
    BY <2>3, <2>4, <2>5, <2>6, <2>7
<1> HIDE DEF v2, w2
<1>4. \A t \in Threads : /\ HasThread(v2, t) <=> v2.threads[t] \in Thread
                         /\ HasThread(w2, t) <=> w2.threads[t] \in Thread
  BY <1>1, ThreadTyped
<1>5. Agree(v2, w2)
  BY <1>2, <1>3, <1>4 DEF Agree
<1> QED
  BY <1>5 DEF v2, w2

LEMMA AgreeWithItself == ASSUME NEW v PROVE Agree(v, v)
  BY DEF Agree, SameBasics

\* The model a restart loads agrees with the tables.
LEMMA ReadModelAgrees ==
  ASSUME NEW v \in View
  PROVE  Agree(CommandReadModel(v), v)
<1> DEFINE w == CommandReadModel(v)
<1>1. w.projects = v.projects
  BY DEF CommandReadModel
<1>2. ASSUME NEW t \in Threads
      PROVE  /\ HasThread(w, t) <=> HasThread(v, t)
             /\ HasThread(w, t) => SameBasics(w.threads[t], v.threads[t])
  <2>1. w.threads[t] = IF v.threads[t] = Absent THEN Absent
                       ELSE [v.threads[t] EXCEPT !.checkpoints = {}]
    BY DEF CommandReadModel
  <2>2. CASE v.threads[t] = Absent
    BY <2>1, <2>2 DEF HasThread
  <2>3. CASE v.threads[t] # Absent
    <3>1. v.threads[t] \in Thread
      BY <2>3 DEF View
    <3>2. w.threads[t] = [v.threads[t] EXCEPT !.checkpoints = {}]
      BY <2>1, <2>3
    <3> HIDE DEF w
    <3>3. w.threads[t] \in Thread /\ SameBasics(w.threads[t], v.threads[t])
      BY <3>1, <3>2 DEF Thread, SameBasics
    <3> QED
      BY <2>3, <3>3, AbsentAssumption DEF HasThread
  <2> QED
    BY <2>2, <2>3
<1> QED
  BY <1>1, <1>2 DEF Agree

\* Agreement is what ModelIsCurrent compares.
LEMMA AgreeIsDecisive ==
  ASSUME NEW v, NEW w, Agree(v, w)
  PROVE  Decisive(v) = Decisive(w)
<1> DEFINE Of(x, t) == IF HasThread(x, t)
     THEN <<x.threads[t].project, x.threads[t].archived, x.threads[t].deleted, x.threads[t].mode>>
     ELSE <<>>
<1>1. \A t \in Threads : Of(v, t) = Of(w, t)
  BY DEF Agree, SameBasics
<1>2. [t \in Threads |-> Of(v, t)] = [t \in Threads |-> Of(w, t)]
  BY <1>1
<1> QED
  BY <1>2 DEF Decisive, Agree

-----------------------------------------------------------------------------
(* Events in their place.                                                  *)

\* An event that says of the view before it what is the case: a thread is created once,
\* a turn starts in its thread's mode, a deleted project has no active thread.
Timely(v, e) ==
  /\ e.type = "thread.created" => ~HasThread(v, e.id)
  /\ e.type = "thread.turn-start-requested" => HasThread(v, e.id) /\ e.mode = v.threads[e.id].mode
  /\ e.type = "project.deleted" => ActiveThreads(v, e.id) = {}

\* All events of a log are.
Sound(s) == \A i \in 1 .. Len(s) : Timely(ViewsAlong(EmptyView, s)[i - 1], s[i])

\* The rest of a decision is going to be: what precedes a turn start is its message,
\* what precedes a project's deletion is that of its threads.
Fits(v, todo) ==
  \A i \in 1 .. Len(todo) :
    /\ todo[i].type = "thread.created" => Len(todo) = 1 /\ ~HasThread(v, todo[i].id)
    /\ todo[i].type = "thread.turn-start-requested" =>
         /\ todo[i].id \in Threads /\ HasThread(v, todo[i].id)
         /\ todo[i].mode = v.threads[todo[i].id].mode
         /\ \A j \in 1 .. i - 1 : todo[j].type = "thread.message-sent"
    /\ todo[i].type = "project.deleted" =>
         /\ \A j \in 1 .. i - 1 : todo[j].type = "thread.deleted"
         /\ \A t \in ActiveThreads(v, todo[i].id) : \E j \in 1 .. i - 1 : todo[j].id = t

LEMMA FirstFits ==
  ASSUME NEW v, NEW todo \in Seq(Event), todo # <<>>, Fits(v, todo)
  PROVE  Timely(v, Head(todo))
<1>1. 1 \in 1 .. Len(todo) /\ Head(todo) = todo[1]
  OBVIOUS
<1>2. \A j \in 1 .. 1 - 1 : FALSE
  OBVIOUS
<1>3. todo[1].type = "project.deleted" => ActiveThreads(v, todo[1].id) = {}
  BY <1>1, <1>2 DEF Fits
<1> QED
  BY <1>1, <1>3 DEF Fits, Timely

\* Nothing a decision looks at is changed by a message.
LEMMA MessageChangesNothing ==
  ASSUME NEW v \in View, NEW e, e.type = "thread.message-sent"
  PROVE  \A t \in Threads : ProjectInSql(v, e).threads[t] = v.threads[t]
<1>1. \A t \in Threads : ThreadInSql(v, e, t) = v.threads[t]
  BY DEF ThreadInSql, ThreadInMemory, ThreadAfter
<1> QED
  BY <1>1, InSqlIs

LEMMA DeletionDeactivates ==
  ASSUME NEW v \in View, NEW e, Genuine(e), e.type = "thread.deleted", NEW p
  PROVE  ActiveThreads(ProjectInSql(v, e), p) \subseteq ActiveThreads(v, p) \ {e.id}
<1> DEFINE w == ProjectInSql(v, e)
<1> SUFFICES ASSUME NEW t \in ActiveThreads(w, p)
             PROVE  t \in ActiveThreads(v, p) /\ t # e.id
  OBVIOUS
<1>1. t \in Threads /\ HasThread(w, t) /\ w.threads[t].project = p /\ ~w.threads[t].deleted
  BY DEF ActiveThreads
<1>2. w.threads[t] = ThreadInSql(v, e, t)
  BY <1>1, InSqlIs
<1> HIDE DEF w
<1>3. CASE t # e.id
  <2>1. w.threads[t] = v.threads[t]
    BY <1>2, <1>3 DEF ThreadInSql
  <2> QED
    BY <1>1, <1>3, <2>1 DEF ActiveThreads, HasThread
<1>4. CASE t = e.id /\ HasThread(v, t)
  <2>1. w.threads[t] = [v.threads[t] EXCEPT !.deleted = TRUE]
    BY <1>2, <1>4 DEF ThreadInSql, ThreadInMemory, ThreadAfter, ProjectEvents
  <2>2. v.threads[t] \in Thread
    BY <1>1, <1>4, ThreadTyped
  <2> QED
    BY <1>1, <2>1, <2>2 DEF Thread
<1>5. CASE t = e.id /\ ~HasThread(v, t)
  <2>1. w.threads[t] = v.threads[t]
    BY <1>2, <1>5 DEF ThreadInSql, ThreadInMemory, ProjectEvents
  <2> QED
    BY <1>1, <1>5, <2>1 DEF HasThread
<1> QED
  BY <1>3, <1>4, <1>5

\* After its first event the rest of a decision still fits.
LEMMA RestFits ==
  ASSUME NEW v \in View, NEW todo \in Seq(Event), todo # <<>>, Fits(v, todo), AllGenuine(todo)
  PROVE  Fits(ProjectInSql(v, Head(todo)), Tail(todo))
<1> DEFINE e == Head(todo)
           rest == Tail(todo)
           w == ProjectInSql(v, e)
<1>0. /\ e = todo[1] /\ 1 \in 1 .. Len(todo) /\ Len(rest) = Len(todo) - 1 /\ Len(todo) \in Nat
      /\ \A i \in 1 .. Len(rest) : rest[i] = todo[i + 1]
  OBVIOUS
<1>1. /\ e = todo[1] /\ 1 \in 1 .. Len(todo) /\ Len(rest) \in Nat
      /\ \A i \in 1 .. Len(rest) : rest[i] = todo[i + 1] /\ i + 1 \in 1 .. Len(todo)
                                   /\ 1 \in 1 .. i + 1 - 1 /\ Len(todo) # 1
  <2> HIDE DEF e, rest
  <2> QED
    BY <1>0
<1>2. Genuine(e)
  BY <1>1 DEF AllGenuine
<1> HIDE DEF e, rest, w
<1>3. ASSUME NEW i \in 1 .. Len(rest), NEW j \in 1 .. i - 1
      PROVE  rest[j] = todo[j + 1] /\ j + 1 \in 1 .. i + 1 - 1
  <2>1. j \in 1 .. Len(rest) /\ j + 1 \in 1 .. i + 1 - 1
    BY <1>1
  <2> QED
    BY <1>1, <2>1
<1>4. ASSUME NEW i \in 1 .. Len(rest)
      PROVE  rest[i].type # "thread.created"
  BY <1>1 DEF Fits
<1>5. ASSUME NEW i \in 1 .. Len(rest), rest[i].type = "thread.turn-start-requested"
      PROVE  /\ rest[i].id \in Threads /\ HasThread(w, rest[i].id)
             /\ rest[i].mode = w.threads[rest[i].id].mode
             /\ \A j \in 1 .. i - 1 : rest[j].type = "thread.message-sent"
  <2>0. i + 1 \in 1 .. Len(todo) /\ todo[i + 1] = rest[i]
    BY <1>1
  <2>1. /\ rest[i].id \in Threads /\ HasThread(v, rest[i].id)
        /\ rest[i].mode = v.threads[rest[i].id].mode
        /\ \A j \in 1 .. i + 1 - 1 : todo[j].type = "thread.message-sent"
    BY <1>5, <2>0 DEF Fits
  <2>2. e.type = "thread.message-sent"
    BY <1>1, <2>1
  <2>3. w.threads[rest[i].id] = v.threads[rest[i].id]
    BY <2>1, <2>2, MessageChangesNothing DEF w
  <2>4. \A j \in 1 .. i - 1 : rest[j].type = "thread.message-sent"
    BY <1>3, <2>1
  <2> QED
    BY <2>1, <2>3, <2>4 DEF HasThread
<1>6. ASSUME NEW i \in 1 .. Len(rest), rest[i].type = "project.deleted"
      PROVE  /\ \A j \in 1 .. i - 1 : rest[j].type = "thread.deleted"
             /\ \A t \in ActiveThreads(w, rest[i].id) : \E j \in 1 .. i - 1 : rest[j].id = t
  <2>1. PICK n \in 1 .. Len(todo) : n = i + 1 /\ todo[n] = rest[i]
    BY <1>1
  <2>2. /\ \A j \in 1 .. n - 1 : todo[j].type = "thread.deleted"
        /\ \A t \in ActiveThreads(v, rest[i].id) : \E j \in 1 .. n - 1 : todo[j].id = t
    <3>1. todo[n].type = "project.deleted"
      BY <1>6, <2>1
    <3>2. /\ \A j \in 1 .. n - 1 : todo[j].type = "thread.deleted"
          /\ \A t \in ActiveThreads(v, todo[n].id) : \E j \in 1 .. n - 1 : todo[j].id = t
      BY <3>1, Zenon DEF Fits
    <3> QED
      BY <2>1, <3>2
  <2>3. 1 \in 1 .. n - 1 /\ \A j \in 1 .. i - 1 : j + 1 \in 1 .. n - 1
    BY <1>1, <2>1
  <2>4. e.type = "thread.deleted"
    BY <1>0, <2>2, <2>3
  <2>5. \A j \in 1 .. i - 1 : rest[j].type = "thread.deleted"
    <3>1. \A j \in 1 .. i - 1 : rest[j] = todo[j + 1]
      BY <1>3
    <3> QED
      BY <2>2, <2>3, <3>1
  <2>6. ASSUME NEW t \in ActiveThreads(w, rest[i].id)
        PROVE  \E j \in 1 .. i - 1 : rest[j].id = t
    <3>1. t \in ActiveThreads(v, rest[i].id) /\ t # e.id
      BY <1>2, <2>4, DeletionDeactivates DEF w
    <3>2. PICK j \in 1 .. n - 1 : todo[j].id = t
      BY <2>2, <3>1
    <3>3. j # 1
      BY <1>1, <3>1, <3>2
    <3>4. j - 1 \in 1 .. i - 1 /\ j - 1 + 1 = j
      BY <2>1, <3>2, <3>3
    <3> QED
      BY <1>3, <3>2, <3>4
  <2> QED
    BY <2>5, <2>6
<1>7. Fits(w, rest)
  BY <1>4, <1>5, <1>6 DEF Fits
<1> QED
  BY <1>7 DEF w, e, rest

\* What a decision is going to say depends on the basics of a view only.
LEMMA FitsAgreeing ==
  ASSUME NEW v, NEW w, Agree(v, w), NEW todo \in Seq(Event), Fits(v, todo),
         \A i \in 1 .. Len(todo) : todo[i].type = "thread.created" => todo[i].id \in Threads
  PROVE  Fits(w, todo)
<1>1. \A p : ActiveThreads(w, p) \subseteq ActiveThreads(v, p)
  BY DEF Agree, SameBasics, ActiveThreads
<1>2. \A t \in Threads : /\ HasThread(v, t) <=> HasThread(w, t)
                         /\ HasThread(v, t) => v.threads[t].mode = w.threads[t].mode
  BY DEF Agree, SameBasics
<1> SUFFICES ASSUME NEW i \in 1 .. Len(todo)
             PROVE  /\ todo[i].type = "thread.created" => Len(todo) = 1 /\ ~HasThread(w, todo[i].id)
                    /\ todo[i].type = "thread.turn-start-requested" =>
                         /\ todo[i].id \in Threads /\ HasThread(w, todo[i].id)
                         /\ todo[i].mode = w.threads[todo[i].id].mode
                         /\ \A j \in 1 .. i - 1 : todo[j].type = "thread.message-sent"
                    /\ todo[i].type = "project.deleted" =>
                         /\ \A j \in 1 .. i - 1 : todo[j].type = "thread.deleted"
                         /\ \A t \in ActiveThreads(w, todo[i].id) : \E j \in 1 .. i - 1 : todo[j].id = t
  BY DEF Fits
<1> QED
  BY <1>1, <1>2 DEF Fits

-----------------------------------------------------------------------------
(* Decisions fit the view they are made on.                                *)

\* An event that comes alone.
LEMMA SingleFits ==
  ASSUME NEW v, NEW e, e.type # "thread.turn-start-requested", e.type # "project.deleted",
         e.type = "thread.created" => ~HasThread(v, e.id)
  PROVE  Fits(v, <<e>>)
<1>1. Len(<<e>>) = 1 /\ \A i \in 1 .. 1 : <<e>>[i] = e
  OBVIOUS
<1> QED
  BY <1>1 DEF Fits

\* Every element of a set is somewhere in each of its orders.
LEMMA OrdersAreComplete ==
  ASSUME NEW S, IsFiniteSet(S), NEW order \in SetToSeqs(S)
  PROVE  \A x \in S : \E i \in 1 .. Cardinality(S) : order[i] = x
<1> DEFINE n == Cardinality(S)
<1>1. order \in [1 .. n -> S] /\ \A i, j \in 1 .. n : i # j => order[i] # order[j]
  BY DEF SetToSeqs
<1>2. n \in Nat
  BY FS_CardinalityType
<1>3. Cardinality(1 .. n) = n
  <2>1. 1 \in Int /\ n \in Int /\ (1 > n => n = 0) /\ n - 1 + 1 = n
    BY <1>2
  <2>2. Cardinality(1 .. n) = IF 1 > n THEN 0 ELSE n - 1 + 1
    BY <2>1, FS_Interval
  <2> QED
    BY <2>1, <2>2
<1> HIDE DEF n
<1>4. order \in Injection(1 .. n, S)
  BY <1>1 DEF Injection, IsInjective
<1>5. order \in Surjection(1 .. n, S)
  BY <1>3, <1>4, FS_Injection DEF n
<1> QED
  BY <1>5 DEF Surjection, n

LEMMA ProjectDeletionFits ==
  ASSUME NEW v, NEW c \in CommandIds, NEW p \in Projects,
         NEW events \in ProjectDeletion(v, c, p)
  PROVE  Fits(v, events) /\ \A i \in 1 .. Len(events) : events[i].type # "thread.created"
<1> DEFINE active == ActiveThreads(v, p)
           n == Cardinality(active)
<1>1. active \subseteq Threads
  BY DEF ActiveThreads
<1>2. IsFiniteSet(active) /\ n \in Nat
  BY <1>1, ThreadsAssumption, FS_Subset, FS_CardinalityType
<1>3. PICK order \in SetToSeqs(active) :
        events = [i \in 1 .. Len(order) |-> Ev(c, "thread.deleted", order[i])]
                    \o <<Ev(c, "project.deleted", p)>>
  BY DEF ProjectDeletion
<1>4. order \in [1 .. n -> active]
  BY DEF SetToSeqs
<1>5. \A t \in active : \E i \in 1 .. n : order[i] = t
  BY <1>2, OrdersAreComplete
<1> HIDE DEF n
<1>6. Len(order) = n
  BY <1>2, <1>4
<1> DEFINE gone == [i \in 1 .. n |-> Ev(c, "thread.deleted", order[i])]
           last == Ev(c, "project.deleted", p)
<1>7. events = gone \o <<last>>
  BY <1>3, <1>6
<1>8. \A i \in 1 .. n : gone[i].type = "thread.deleted" /\ gone[i].id = order[i]
  BY DEF Ev
<1>9. last.type = "project.deleted" /\ last.id = p
  BY DEF Ev
<1>10. Len(gone) = n
  BY <1>2
<1>11. \A i \in 1 .. n : i \in DOMAIN gone
  BY <1>2
<1> HIDE DEF gone, last, active
<1>12. gone \in Seq({gone[i] : i \in 1 .. n})
  <2>1. gone = [i \in 1 .. n |-> gone[i]]
    BY DEF gone
  <2> QED
    BY <1>2, <2>1
<1>13. /\ Len(events) = n + 1 /\ events[n + 1] = last
       /\ \A i \in 1 .. n : events[i] = gone[i]
  BY <1>2, <1>7, <1>10, <1>12
<1> SUFFICES ASSUME NEW i \in 1 .. Len(events)
             PROVE  /\ events[i].type \notin {"thread.created", "thread.turn-start-requested"}
                    /\ events[i].type = "project.deleted" =>
                         /\ \A j \in 1 .. i - 1 : events[j].type = "thread.deleted"
                         /\ \A t \in ActiveThreads(v, events[i].id) :
                              \E j \in 1 .. i - 1 : events[j].id = t
  BY DEF Fits
<1>14. CASE i \in 1 .. n
  BY <1>8, <1>13, <1>14
<1>15. CASE i = n + 1
  <2>1. i - 1 = n /\ events[i] = last
    BY <1>2, <1>13, <1>15
  <2>2. \A j \in 1 .. n : events[j].type = "thread.deleted" /\ events[j].id = order[j]
    BY <1>8, <1>13
  <2>3. \A t \in ActiveThreads(v, events[i].id) : \E j \in 1 .. n : events[j].id = t
    BY <1>5, <1>9, <2>1, <2>2 DEF active
  <2> QED
    BY <1>9, <2>1, <2>2, <2>3
<1>16. i \in 1 .. n \/ i = n + 1
  BY <1>2, <1>13
<1> QED
  BY <1>14, <1>15, <1>16

LEMMA TurnStartFits ==
  ASSUME NEW v \in View, NEW c \in CommandIds, NEW t \in Threads, HasThread(v, t)
  PROVE  Fits(v, TurnStart(v, c, t))
<1> DEFINE a == Ev(c, "thread.message-sent", t)
           b == [cmd |-> c, type |-> "thread.turn-start-requested", id |-> t,
                 mode |-> v.threads[t].mode]
<1>1. TurnStart(v, c, t) = <<a, b>>
  BY DEF TurnStart
<1>2. a.type = "thread.message-sent" /\ b.type = "thread.turn-start-requested"
      /\ b.id = t /\ b.mode = v.threads[t].mode
  BY DEF Ev
<1> HIDE DEF a, b
<1>3. /\ Len(<<a, b>>) = 2 /\ <<a, b>>[1] = a /\ <<a, b>>[2] = b
      /\ \A i \in 1 .. 2 : i = 1 \/ i = 2
      /\ \A j \in 1 .. 2 - 1 : j = 1
  OBVIOUS
<1> QED
  BY <1>1, <1>2, <1>3 DEF Fits

\* Deciding a command yields events that fit, and creates threads only.
LEMMA DecisionFits ==
  ASSUME NEW v \in View, NEW c \in CommandIds, NEW events \in Decisions(v, c)
  PROVE  /\ Fits(v, events)
         /\ \A i \in 1 .. Len(events) : events[i].type = "thread.created" => events[i].id \in Threads
<1> DEFINE k == CommandOf[c]
<1>1. k \in Command
  BY CommandsAssumption
<1>2. Accepts(v, k) /\ events \in EventsOf(v, c)
  BY DEF Decisions
<1> DEFINE Goal == /\ Fits(v, events)
                   /\ \A i \in 1 .. Len(events) :
                        events[i].type = "thread.created" => events[i].id \in Threads
<1> SUFFICES Goal
  OBVIOUS
<1>3. ASSUME NEW type, NEW id, events = <<Ev(c, type, id)>>,
             type \notin {"thread.turn-start-requested", "project.deleted"},
             type = "thread.created" => ~HasThread(v, id) /\ id \in Threads
      PROVE  Goal
  <2>1. Ev(c, type, id).type = type /\ Ev(c, type, id).id = id
    BY DEF Ev
  <2>2. Fits(v, events)
    BY <1>3, <2>1, SingleFits
  <2>3. \A i \in 1 .. Len(events) : events[i] = Ev(c, type, id)
    BY <1>3
  <2> QED
    BY <1>3, <2>1, <2>2, <2>3
<1>4. CASE k.type = "project.create" \/ k.type = "project.meta.update"
  <2>1. events = <<Ev(c, "project.created", k.project)>>
        \/ events = <<Ev(c, "project.meta-updated", k.project)>>
    BY <1>2, <1>4 DEF EventsOf
  <2> HIDE DEF Goal
  <2> QED
    BY <1>3, <2>1
<1>5. CASE k.type = "project.delete"
  <2>1. events \in ProjectDeletion(v, c, k.project) /\ k.project \in Projects
    BY <1>1, <1>2, <1>5, CommandFields DEF EventsOf
  <2> QED
    BY <2>1, ProjectDeletionFits
<1>6. CASE k.type = "thread.turn.start"
  <2>1. events = TurnStart(v, c, k.thread) /\ k.thread \in Threads
    BY <1>1, <1>2, <1>6, CommandFields DEF EventsOf
  <2>2. HasThread(v, k.thread)
    BY <1>2, <1>6 DEF Accepts
  <2>3. \A i \in 1 .. Len(events) : events[i].id = k.thread
    BY <2>1 DEF TurnStart, Ev
  <2> QED
    BY <2>1, <2>2, <2>3, TurnStartFits
<1>7. CASE k.type \in PlainCommands
  <2>1. events = <<Ev(c, PlainEvent[k.type], k.thread)>>
    BY <1>2, <1>7 DEF EventsOf, PlainCommands, PlainEvent
  <2> HIDE DEF Goal
  <2> QED
    BY <1>3, <1>7, <2>1, PlainTypes
<1>8. CASE k.type = "thread.create"
  <2>1. events = <<Ev(c, "thread.created", k.thread)>>
    BY <1>2, <1>8 DEF EventsOf
  <2>2. ~HasThread(v, k.thread) /\ k.thread \in Threads
    <3>1. k.thread \in Threads
      BY <1>1, <1>8, CommandFields
    <3>2. k.type \notin PlainCommands
      BY <1>8 DEF PlainCommands, PlainEvent
    <3> QED
      BY <1>2, <1>8, <3>1, <3>2 DEF Accepts
  <2> HIDE DEF Goal
  <2> QED
    BY <1>3, <2>1, <2>2
<1>9. CASE k.type \in {"thread.delete", "thread.archive", "thread.unarchive",
                       "thread.runtime-mode.set", "thread.proposed-plan.upsert",
                       "thread.turn.diff.complete", "thread.revert.complete"}
  <2>1. \E type \in {"thread.deleted", "thread.archived", "thread.unarchived",
                     "thread.runtime-mode-set", "thread.proposed-plan-upserted",
                     "thread.turn-diff-completed", "thread.reverted"} :
          events = <<Ev(c, type, k.thread)>>
    BY <1>2, <1>9 DEF EventsOf
  <2> HIDE DEF Goal
  <2> QED
    BY <1>3, <2>1
<1>10. k.type \in {"project.create", "project.meta.update", "project.delete", "thread.turn.start",
                   "thread.create", "thread.delete", "thread.archive", "thread.unarchive",
                   "thread.runtime-mode.set", "thread.proposed-plan.upsert",
                   "thread.turn.diff.complete", "thread.revert.complete"} \cup PlainCommands
  BY <1>1 DEF Command
<1> QED
  BY <1>4, <1>5, <1>6, <1>7, <1>8, <1>9, <1>10

-----------------------------------------------------------------------------
(* Sound logs.                                                             *)

LEMMA SoundAppend ==
  ASSUME NEW s \in Seq(Event), NEW e \in Event, Sound(s), Timely(Replay(EmptyView, s), e)
  PROVE  Sound(Append(s, e))
<1> DEFINE t == Append(s, e)
<1>1. /\ Len(t) = Len(s) + 1 /\ t[Len(s) + 1] = e /\ Len(s) \in Nat
      /\ \A i \in 1 .. Len(s) : t[i] = s[i]
  OBVIOUS
<1>2. \A n \in 0 .. Len(s) : ViewsAlong(EmptyView, t)[n] = ViewsAlong(EmptyView, s)[n]
  BY ViewsAppend
<1> HIDE DEF t
<1>3. ASSUME NEW i \in 1 .. Len(t) PROVE Timely(ViewsAlong(EmptyView, t)[i - 1], t[i])
  <2>1. i \in 1 .. Len(s) \/ i = Len(s) + 1
    BY <1>1
  <2>2. CASE i \in 1 .. Len(s)
    <3>1. i - 1 \in 0 .. Len(s)
      BY <2>2
    <3> QED
      BY <1>1, <1>2, <2>2, <3>1 DEF Sound
  <2>3. CASE i = Len(s) + 1
    <3>1. i - 1 = Len(s) /\ i - 1 \in 0 .. Len(s) /\ t[i] = e
      BY <1>1, <2>3
    <3>2. ViewsAlong(EmptyView, t)[i - 1] = Replay(EmptyView, s)
      BY <1>2, <3>1 DEF Replay
    <3> QED
      BY <3>1, <3>2
  <2> QED
    BY <2>1, <2>2, <2>3
<1>4. Sound(t)
  BY <1>3 DEF Sound
<1> QED
  BY <1>4 DEF t

-----------------------------------------------------------------------------
(* The projection is the log.                                              *)

\* The tables are what the log amounts to, those of a transaction what its log does.
Stored ==
  /\ sql = Replay(EmptyView, log)
  /\ pc = "append" => tx.sql = Replay(EmptyView, tx.log)

\* The parts of a transaction that one more event changes.
LEMMA AppendEventIs ==
  ASSUME IInv, AppendEvent
  PROVE  /\ tx \in TxRecord /\ tx.todo # <<>> /\ Head(tx.todo) \in Event /\ Genuine(Head(tx.todo))
         /\ tx'.log = Append(tx.log, Head(tx.todo)) /\ tx'.todo = Tail(tx.todo)
         /\ tx'.model = ProjectInMemory(tx.model, Head(tx.todo))
         /\ tx'.sql = ProjectInSql(tx.sql, Head(tx.todo)) /\ tx'.base = tx.base
         /\ AllGenuine(tx.log) /\ AllGenuine(tx.todo)
         /\ pc = "append" /\ pc' = pc /\ cur' = cur /\ UNCHANGED <<log, receipts, sql, model, seq, answer>>
<1>1. tx \in TxRecord /\ tx.todo # <<>> /\ tx # NoTx /\ AllGenuine(tx.log) /\ AllGenuine(tx.todo)
  BY EmptyAssumption DEF IInv, Typed, AppendEvent, AtWork, TxRecord
<1>2. Genuine(Head(tx.todo)) /\ Head(tx.todo) \in Event
  BY <1>1, TailGenuine DEF TxRecord, Genuine
<1>3. /\ tx'.log = Append(tx.log, Head(tx.todo)) /\ tx'.todo = Tail(tx.todo)
      /\ tx'.model = ProjectInMemory(tx.model, Head(tx.todo))
      /\ tx'.sql = ProjectInSql(tx.sql, Head(tx.todo)) /\ tx'.base = tx.base
  BY <1>1 DEF AppendEvent, TxRecord
<1> QED
  BY <1>1, <1>2, <1>3 DEF AppendEvent, durable

\* Deciding opens the transaction on the store as it is.
LEMMA DecideIs ==
  ASSUME IInv, Decide
  PROVE  /\ cmd \in CommandIds /\ cmd' = cmd /\ pc = "decide" /\ pc' = "append"
         /\ UNCHANGED <<log, receipts, sql, model, seq>>
         /\ tx'.log = log /\ tx'.sql = sql /\ tx'.model = model
         /\ tx'.todo \in Decisions(model, cmd)
<1>1. PICK events \in Decisions(model, cmd) :
        tx' = [base |-> Len(log), todo |-> events, log |-> log, sql |-> sql, model |-> model]
  BY DEF Decide
<1>2. cmd \in CommandIds /\ cmd' = cmd
  BY AttemptsAssumption DEF IInv, AtWork, Decide, cmd
<1> QED
  BY <1>1, <1>2 DEF Decide, durable

\* Every other step either stores the transaction or leaves the store alone.
LEMMA StoreSteps ==
  ASSUME IInv, [Next]_vars
  PROVE  \/ Decide
         \/ AppendEvent
         \/ /\ Commit \/ CommitUncertain
            /\ pc = "append" /\ tx \in TxRecord /\ tx.todo = <<>>
            /\ log' = tx.log /\ sql' = tx.sql /\ pc' # "append"
         \/ UNCHANGED <<log, sql>> /\ (pc' # "append" \/ UNCHANGED <<pc, tx, cur, model>>)
<1>1. Commit \/ CommitUncertain => /\ pc = "append" /\ tx \in TxRecord /\ tx.todo = <<>>
                                   /\ log' = tx.log /\ sql' = tx.sql /\ pc' # "append"
  BY DEF Commit, CommitUncertain, Persist, IInv, AtWork
<1> QED
  BY <1>1 DEF Next, WorkerStep, vars, durable, Dispatch, Take, KnownCommand, NewCommand, LookupFails,
     Refuse, TxFails, Publish, Reconcile, CatchUp, PublishMissed, ReconcileFails, AfterReconcile,
     RecordRejection, RejectionLost, Reply, Crash, Boot

LEMMA StoredStep ==
  ASSUME IInv, Stored, [Next]_vars
  PROVE  Stored'
<1>1. CASE Decide
  BY <1>1, DecideIs DEF Stored
<1>2. CASE AppendEvent
  <2>1. tx.log \in Seq(Event) /\ Head(tx.todo) \in Event /\ tx.sql = Replay(EmptyView, tx.log)
    BY <1>2, AppendEventIs DEF TxRecord, Stored
  <2>2. Replay(EmptyView, Append(tx.log, Head(tx.todo))) = ProjectInSql(tx.sql, Head(tx.todo))
    BY <2>1, ViewsAppend
  <2>3. tx'.sql = Replay(EmptyView, tx'.log) /\ UNCHANGED <<log, sql>>
    BY <1>2, <2>2, AppendEventIs
  <2> QED
    BY <2>3 DEF Stored
<1>3. CASE pc = "append" /\ log' = tx.log /\ sql' = tx.sql /\ pc' # "append"
  BY <1>3 DEF Stored
<1>4. CASE UNCHANGED <<log, sql>> /\ (pc' # "append" \/ UNCHANGED <<pc, tx, cur, model>>)
  BY <1>4 DEF Stored
<1> QED
  BY <1>1, <1>2, <1>3, <1>4, StoreSteps

LEMMA InitStored == ASSUME Init PROVE Stored
  BY ReplayEmpty DEF Init, Stored

\* The projection tables are at every moment what the log amounts to: whatever fails, is
\* rolled back, or is cut off by a crash.
THEOREM ProjectionFollowsLog == Spec => []ProjectionIsLog
<1>1. Init => Stored
  BY InitStored
<1>2. IInv /\ Stored /\ [Next]_vars => Stored'
  BY StoredStep
<1>3. Stored => ProjectionIsLog
  BY DEF Stored, ProjectionIsLog, ViewAt, Replay
<1> QED
  BY <1>1, <1>2, <1>3, SpecIInv, PTL DEF Spec

-----------------------------------------------------------------------------
(* The model is current, unless a reconciliation fails after a commit did.  *)

NeverStale == "commit" \notin Faults \/ "reconcile" \notin Faults

\* The model is what some part of the log amounts to, all of it whenever the worker goes
\* on to another command; the log is sound, and a decision fits the tables it extends.
Current ==
  /\ pc # "down" => seq <= Len(log) /\ Agree(model, ViewAt(seq))
  /\ pc \in {"idle", "lookup", "decide", "append", "publish", "reject", "reply"} => seq = Len(log)
  /\ pc \in {"reconcile", "catchUp"} => "commit" \in Faults \/ seq = Len(log)
  /\ Sound(log)
  /\ pc = "append" => Sound(tx.log) /\ Fits(tx.sql, tx.todo) /\ Agree(tx.model, tx.sql)

LEMMA ViewAtTyped ==
  ASSUME IInv
  PROVE  \A n \in 0 .. Len(log) : ViewAt(n) \in View
  BY ViewsTyped, EmptyViewTyped DEF IInv, Typed, TypeOK, ViewAt

\* A step that leaves the store and the model alone, and is allowed to go where it goes.
LEMMA CurrentKept ==
  ASSUME Current, pc \in PCs, UNCHANGED <<log, model, seq>>, pc # "down",
         pc' = "append" => pc = "append" /\ UNCHANGED tx,
         \/ pc \notin {"reconcile", "catchUp"}
         \/ pc' \in {"down", "reconcile", "catchUp"}
         \/ seq = Len(log)
  PROVE  Current'
<1>1. ViewAt(seq)' = ViewAt(seq)
  BY DEF ViewAt
<1>2. pc' \in {"idle", "lookup", "decide", "append", "publish", "reject", "reply"} => seq = Len(log)
  BY DEF Current, PCs
<1>3. pc' \in {"reconcile", "catchUp"} => "commit" \in Faults \/ seq = Len(log)
  BY DEF Current, PCs
<1>4. pc' = "append" => Sound(tx'.log) /\ Fits(tx'.sql, tx'.todo) /\ Agree(tx'.model, tx'.sql)
  BY DEF Current
<1>5. seq <= Len(log) /\ Agree(model, ViewAt(seq)) /\ Sound(log)
  BY DEF Current
<1> QED
  BY <1>1, <1>2, <1>3, <1>4, <1>5 DEF Current

LEMMA CurrentStep ==
  ASSUME NeverStale, IInv, Stored, Current, [Next]_vars
  PROVE  Current'
<1>0. TypeOK /\ AtWork /\ AllGenuine(log) /\ (tx # NoTx => AllGenuine(tx.log) /\ AllGenuine(tx.todo))
  BY DEF IInv, Typed
<1>a. log \in Seq(Event) /\ Len(log) \in Nat /\ seq \in Nat /\ model \in View /\ sql \in View
     /\ pc \in PCs
  BY <1>0 DEF TypeOK
<1>1. CASE \E a \in Attempts : Dispatch(a)
  BY <1>a, <1>1, CurrentKept DEF Dispatch, durable, Current
<1>2. CASE Take \/ KnownCommand \/ NewCommand \/ Refuse
  BY <1>a, <1>2, CurrentKept DEF Take, KnownCommand, NewCommand, Refuse, durable
<1>3. CASE LookupFails \/ TxFails
  BY <1>a, <1>3, CurrentKept DEF LookupFails, TxFails, Fault, durable
<1>4. CASE Decide
  <2>1. pc = "decide" /\ seq = Len(log) /\ Agree(model, ViewAt(seq)) /\ Sound(log)
    BY <1>4 DEF Decide, Current
  <2>2. ViewAt(seq) = sql
    BY <2>1 DEF Stored, ViewAt, Replay
  <2>3. tx'.log = log /\ tx'.sql = sql /\ tx'.model = model /\ pc' = "append"
        /\ UNCHANGED <<log, seq, model>> /\ tx'.todo \in Decisions(model, cmd) /\ cmd \in CommandIds
    BY <1>4, DecideIs
  <2>4. \A c, events : c \in CommandIds /\ events \in Decisions(model, c) => Fits(sql, events)
    <3> SUFFICES ASSUME NEW c \in CommandIds, NEW events \in Decisions(model, c)
                 PROVE  Fits(sql, events)
      OBVIOUS
    <3>1. events \in Seq(Event)
      BY <1>a, DecisionBlock DEF Block
    <3> QED
      BY <1>a, <2>1, <2>2, <3>1, DecisionFits, FitsAgreeing
  <2>5. Fits(tx'.sql, tx'.todo)
    BY <2>3, <2>4
  <2>6. ViewAt(seq)' = ViewAt(seq)
    BY <2>3 DEF ViewAt
  <2> QED
    BY <2>1, <2>2, <2>3, <2>5, <2>6, <1>a DEF Current
<1>5. CASE AppendEvent
  <2> DEFINE e == Head(tx.todo)
  <2>1. /\ tx.log \in Seq(Event) /\ tx.todo \in Seq(Event) /\ tx.sql \in View /\ tx.model \in View
        /\ e \in Event /\ Genuine(e) /\ tx.todo # <<>> /\ AllGenuine(tx.todo)
        /\ pc = "append" /\ pc' = pc /\ UNCHANGED <<log, model, seq>>
    BY <1>5, AppendEventIs DEF TxRecord
  <2>2. /\ tx'.log = Append(tx.log, e) /\ tx'.todo = Tail(tx.todo)
        /\ tx'.model = ProjectInMemory(tx.model, e) /\ tx'.sql = ProjectInSql(tx.sql, e)
    BY <1>5, AppendEventIs
  <2>3. Sound(tx.log) /\ Fits(tx.sql, tx.todo) /\ Agree(tx.model, tx.sql)
        /\ tx.sql = Replay(EmptyView, tx.log)
    BY <2>1 DEF Current, Stored
  <2>4. Timely(Replay(EmptyView, tx.log), e)
    BY <2>1, <2>3, FirstFits
  <2> HIDE DEF e
  <2>5. Sound(Append(tx.log, e))
    BY <2>1, <2>3, <2>4, SoundAppend
  <2>6. Fits(ProjectInSql(tx.sql, e), Tail(tx.todo))
    BY <2>1, <2>3, RestFits DEF e
  <2>7. Agree(ProjectInMemory(tx.model, e), ProjectInSql(tx.sql, e))
    BY <2>1, <2>3, AgreeStep
  <2>8. Sound(tx'.log) /\ Fits(tx'.sql, tx'.todo) /\ Agree(tx'.model, tx'.sql)
    BY <2>2, <2>5, <2>6, <2>7
  <2>9. ViewAt(seq)' = ViewAt(seq)
    BY <2>1 DEF ViewAt
  <2> QED
    BY <2>1, <2>8, <2>9 DEF Current
<1>6. CASE Commit \/ CommitUncertain
  <2>1. pc = "append" /\ tx \in TxRecord /\ log' = tx.log /\ sql' = tx.sql /\ seq = Len(log)
    BY <1>6 DEF Commit, CommitUncertain, Persist, AtWork, IInv, Current
  <2>2. /\ Sound(tx.log) /\ Agree(tx.model, tx.sql) /\ Agree(model, ViewAt(seq))
        /\ tx.sql = Replay(EmptyView, tx.log)
    BY <2>1 DEF Current, Stored
  <2>3. /\ tx.log \in Seq(Event) /\ Len(tx.log) \in Nat /\ Len(log) <= Len(tx.log)
        /\ \A i \in 1 .. Len(log) : tx.log[i] = log[i]
    BY <2>1 DEF IInv, Staged, StagedFor, TxRecord
  <2>4. CASE Commit
    <3>1. model' = tx.model /\ seq' = Len(log') /\ pc' = "publish"
      BY <2>1, <2>4 DEF Commit
    <3>2. ViewAt(seq)' = tx.sql
      BY <2>1, <2>2, <3>1 DEF ViewAt, Replay
    <3>3. Agree(model', ViewAt(seq)') /\ Sound(log') /\ seq' <= Len(log')
      BY <2>1, <2>2, <2>3, <3>1, <3>2
    <3> QED
      BY <3>1, <3>3 DEF Current
  <2>5. CASE CommitUncertain
    <3>1. UNCHANGED <<model, seq>> /\ pc' = "reconcile" /\ "commit" \in Faults
      BY <2>5 DEF CommitUncertain, Fault
    <3>2. seq \in 0 .. Len(log)
      BY <1>a, <2>1
    <3>3. ViewAt(seq)' = ViewAt(seq)
      <4>1. ViewsAlong(EmptyView, tx.log)[seq] = ViewsAlong(EmptyView, log)[seq]
        BY <1>a, <2>3, <3>2, ViewsPrefix
      <4> QED
        BY <2>1, <3>1, <4>1 DEF ViewAt
    <3>4. seq' <= Len(log') /\ Sound(log')
      BY <2>1, <2>2, <2>3, <3>1
    <3> QED
      BY <2>2, <3>1, <3>3, <3>4 DEF Current
  <2> QED
    BY <1>6, <2>4, <2>5
<1>7. CASE Publish \/ RecordRejection \/ RejectionLost \/ Reply
  BY <1>a, <1>7, CurrentKept DEF Publish, RecordRejection, RejectionLost, Fault, Reply, durable
<1>8. CASE Reconcile
  BY <1>a, <1>8, CurrentKept DEF Reconcile, durable
<1>9. CASE CatchUp
  <2>1. /\ pc = "catchUp" /\ pc' = pc /\ log' = log /\ seq < Len(log) /\ seq' = seq + 1
        /\ model' = ProjectInMemory(model, log[seq + 1])
    BY <1>9 DEF CatchUp, durable
  <2>2. seq + 1 \in 1 .. Len(log) /\ seq + 1 - 1 = seq /\ seq \in 0 .. Len(log)
    BY <1>a, <2>1
  <2>3. ViewAt(seq + 1) = ProjectInSql(ViewAt(seq), log[seq + 1])
    BY <1>a, <2>2, ViewsStep DEF ViewAt
  <2>4. Genuine(log[seq + 1]) /\ ViewAt(seq) \in View /\ Agree(model, ViewAt(seq))
    BY <1>0, <2>1, <2>2, ViewAtTyped DEF AllGenuine, Current
  <2>5. Agree(model', ViewAt(seq + 1))
    BY <1>a, <2>1, <2>3, <2>4, AgreeStep
  <2>6. ViewAt(seq)' = ViewAt(seq + 1)
    BY <2>1 DEF ViewAt
  <2>7. "commit" \in Faults /\ seq' <= Len(log') /\ Sound(log')
    BY <1>a, <2>1 DEF Current
  <2> QED
    BY <2>1, <2>5, <2>6, <2>7 DEF Current
<1>10. CASE PublishMissed
  BY <1>a, <1>10, CurrentKept DEF PublishMissed, AfterReconcile, durable
<1>11. CASE ReconcileFails
  <2>1. "reconcile" \in Faults /\ pc = "reconcile"
    BY <1>11 DEF ReconcileFails, Fault
  <2>2. seq = Len(log)
    BY <2>1 DEF NeverStale, Current
  <2> QED
    BY <1>a, <1>11, <2>2, CurrentKept DEF ReconcileFails, AfterReconcile, durable
<1>12. CASE Crash
  BY <1>12 DEF Crash, durable, Current
<1>13. CASE Boot
  <2>1. /\ model' = CommandReadModel(sql) /\ seq' = Len(log) /\ pc' = "idle" /\ log' = log
        /\ Sound(log)
    BY <1>13 DEF Boot, durable, Current
  <2>2. ViewAt(seq)' = sql
    BY <2>1 DEF ViewAt, Stored, Replay
  <2>3. Agree(CommandReadModel(sql), sql)
    BY <1>a, ReadModelAgrees
  <2> QED
    BY <1>a, <2>1, <2>2, <2>3 DEF Current
<1>14. CASE UNCHANGED vars
  BY <1>14 DEF vars, durable, Current, ViewAt
<1> QED
  BY <1>1, <1>2, <1>3, <1>4, <1>5, <1>6, <1>7, <1>8, <1>9, <1>10, <1>11, <1>12, <1>13, <1>14
     DEF Next, WorkerStep

\* The inductive invariant of a model that never stays behind.
LEMMA SpecCurrent == ASSUME NeverStale PROVE Spec => [](IInv /\ Stored /\ Current)
<1>1. Init => Stored /\ Current
  <2> SUFFICES ASSUME Init PROVE Stored /\ Current
    OBVIOUS
  <2> QED
    BY InitStored DEF Init, Current, Sound
<1>2. IInv /\ (Stored /\ Current) /\ [Next]_vars => (Stored /\ Current)'
  BY StoredStep, CurrentStep
<1> QED
  BY <1>1, <1>2, SpecIInv, PTL DEF Spec

\* Every decision is made on what the store holds: between commands the model has the
\* log's length and its decisive part is that of the tables, after every commit, every
\* reconciled failure and every restart.
THEOREM DecidesOnCurrent == ASSUME NeverStale PROVE Spec => []ModelIsCurrent
<1>1. IInv /\ Stored /\ Current => ModelIsCurrent
  <2> SUFFICES ASSUME Stored, Current, Deciding
               PROVE  seq = Len(log) /\ Decisive(model) = Decisive(sql)
    BY DEF ModelIsCurrent
  <2>1. seq = Len(log) /\ Agree(model, ViewAt(seq))
    BY DEF Current, Deciding
  <2>2. ViewAt(seq) = sql
    BY <2>1 DEF Stored, ViewAt, Replay
  <2> QED
    BY <2>1, <2>2, AgreeIsDecisive
<1> QED
  BY <1>1, SpecCurrent, PTL

\* Every turn of the log starts in the mode its thread has there.
THEOREM TurnsInCurrentMode == ASSUME NeverStale PROVE Spec => []TurnStartsInCurrentMode
<1>1. Current => TurnStartsInCurrentMode
  BY DEF Current, Sound, Timely, TurnStartsInCurrentMode, ViewAt
<1> QED
  BY <1>1, SpecCurrent, PTL

\* No log leaves an active thread in a project it deletes.
THEOREM NoOrphans == ASSUME NeverStale PROVE Spec => []DeletedProjectIsEmpty
<1>1. IInv /\ Current => DeletedProjectIsEmpty
  <2> SUFFICES ASSUME IInv, Current, NEW i \in 1 .. Len(log), log[i].type = "project.deleted"
               PROVE  ActiveThreads(ViewAt(i), log[i].id) = {}
    BY DEF DeletedProjectIsEmpty
  <2>1. log \in Seq(Event) /\ i - 1 \in 0 .. Len(log)
    BY DEF IInv, Typed, TypeOK
  <2>2. ActiveThreads(ViewAt(i - 1), log[i].id) = {}
    BY DEF Current, Sound, Timely, ViewAt
  <2>3. ViewAt(i) = ProjectInSql(ViewAt(i - 1), log[i])
    BY <2>1, ViewsStep DEF ViewAt
  <2>4. ViewAt(i - 1) \in View
    BY <2>1, ViewAtTyped
  <2>5. \A t \in Threads : ViewAt(i).threads[t] = ViewAt(i - 1).threads[t]
    <3>1. \A t \in Threads : ThreadInSql(ViewAt(i - 1), log[i], t) = ViewAt(i - 1).threads[t]
      BY DEF ThreadInSql, ProjectEvents
    <3> QED
      BY <2>3, <2>4, <3>1, InSqlIs
  <2> QED
    BY <2>2, <2>5 DEF ActiveThreads, HasThread
<1> QED
  BY <1>1, SpecCurrent, PTL

-----------------------------------------------------------------------------
(* The model's plans are current, where no revert can tell them apart.     *)

NoReverts == \A c \in CommandIds : CommandOf[c].type # "thread.revert.complete"

\* Of the captures of one thread none is a placeholder, and no two turns share a count.
IsCapture(c, t) == CommandOf[c].type = "thread.turn.diff.complete" /\ CommandOf[c].thread = t
CleanCaptures ==
  \A t \in Threads : \A c, d \in CommandIds : IsCapture(c, t) /\ IsCapture(d, t) =>
    /\ CommandOf[c].status # "missing"
    /\ CommandOf[c].count = CommandOf[d].count => CommandOf[c].turn = CommandOf[d].turn

\* A restart loads no checkpoints and the two projections treat placeholders and shared
\* counts differently, which a later revert turns into a difference of plans.
PlansKept == NoReverts \/ (MaxCrashes = 0 /\ CleanCaptures)

\* The threads of a model have the plans of the tables and, if reverts may come, the
\* checkpoints, all of them captured.
SameTurns(th, other, t) ==
  /\ th.checkpoints = other.checkpoints
  /\ \A cp \in other.checkpoints : \E c \in CommandIds : IsCapture(c, t) /\ cp = CheckpointOf(CommandOf[c])
SamePlan(th, other, t) == th.plans = other.plans /\ (NoReverts \/ SameTurns(th, other, t))
SamePlans(v, w) ==
  \A t \in Threads : HasThread(v, t) => SamePlan(v.threads[t], w.threads[t], t)

\* What a capture does in memory and in the tables is the same.
LEMMA SameCapture ==
  ASSUME NEW t \in Threads, NEW th \in Thread, NEW other \in Thread, NEW c \in CommandIds,
         IsCapture(c, t), PlansKept, SamePlan(th, other, t)
  PROVE  LET cp == CheckpointOf(CommandOf[c])
         IN SamePlan(CheckpointInMemory(th, cp), CheckpointInSql(other, cp), t)
<1> DEFINE cp == CheckpointOf(CommandOf[c])
           a == CheckpointInMemory(th, cp)
           b == CheckpointInSql(other, cp)
<1>1. a.plans = th.plans /\ b.plans = other.plans /\ th.plans = other.plans
  BY CheckpointKeeps DEF SamePlan
<1>2. ASSUME ~NoReverts PROVE SameTurns(a, b, t)
  <2>1. SameTurns(th, other, t) /\ CleanCaptures
    BY <1>2 DEF PlansKept, SamePlan
  <2>2. cp.status # "missing"
    BY <2>1 DEF CleanCaptures, CheckpointOf
  <2>3. a.checkpoints = {old \in th.checkpoints : old.turn # cp.turn} \cup {cp}
    BY <2>2 DEF CheckpointInMemory, Thread
  <2>4. b.checkpoints = {old \in other.checkpoints : old.turn # cp.turn /\ old.count # cp.count} \cup {cp}
    BY DEF CheckpointInSql, Thread
  <2>5. \A old \in other.checkpoints : old.count = cp.count => old.turn = cp.turn
    BY <2>1 DEF SameTurns, CleanCaptures, CheckpointOf
  <2>6. a.checkpoints = b.checkpoints
    BY <2>1, <2>3, <2>4, <2>5 DEF SameTurns
  <2>7. \A one \in b.checkpoints : one \in other.checkpoints \/ one = CheckpointOf(CommandOf[c])
    BY <2>4
  <2> QED
    BY <2>1, <2>6, <2>7 DEF SameTurns
<1> QED
  BY <1>1, <1>2 DEF SamePlan

\* And so is what a revert does, and every other event of a thread.
LEMMA SameAfter ==
  ASSUME NEW t \in Threads, NEW th \in Thread, NEW other \in Thread, NEW e, Genuine(e),
         SamePlan(th, other, t)
  PROVE  SamePlan(ThreadAfter(th, e), ThreadAfter(other, e), t)
<1> DEFINE k == CommandOf[e.cmd]
<1>1. CASE e.type = "thread.reverted"
  <2>1. SameTurns(th, other, t) /\ th.plans = other.plans
    BY <1>1 DEF Genuine, Event, NoReverts, SamePlan
  <2> DEFINE kept == {cp \in th.checkpoints : cp.count <= k.count}
             turns == {cp.turn : cp \in kept}
             plans == {plan \in th.plans : plan.turn = NoTurn \/ plan.turn \in turns}
  <2>2. ThreadAfter(th, e) = [th EXCEPT !.checkpoints = kept, !.plans = plans]
    BY <1>1 DEF ThreadAfter, Reverted, Thread
  <2>3. ThreadAfter(other, e) = [other EXCEPT !.checkpoints = kept, !.plans = plans]
    BY <1>1, <2>1 DEF ThreadAfter, Reverted, Thread, SameTurns
  <2>4. kept \subseteq other.checkpoints
    BY <2>1 DEF SameTurns
  <2> HIDE DEF kept, plans
  <2>5. /\ ThreadAfter(th, e).checkpoints = kept /\ ThreadAfter(th, e).plans = plans
        /\ ThreadAfter(other, e).checkpoints = kept /\ ThreadAfter(other, e).plans = plans
    BY <2>2, <2>3 DEF Thread
  <2> QED
    BY <2>1, <2>4, <2>5 DEF SamePlan, SameTurns
<1>2. CASE e.type = "thread.proposed-plan-upserted"
  BY <1>2 DEF ThreadAfter, Thread, SamePlan, SameTurns
<1>3. CASE e.type \in {"thread.deleted", "thread.archived", "thread.unarchived",
                       "thread.runtime-mode-set"}
  BY <1>3 DEF ThreadAfter, Thread, SamePlan, SameTurns
<1>4. CASE e.type \notin {"thread.deleted", "thread.archived", "thread.unarchived",
                         "thread.runtime-mode-set", "thread.proposed-plan-upserted",
                         "thread.reverted"}
  BY <1>4 DEF ThreadAfter
<1> QED
  BY <1>1, <1>2, <1>3, <1>4

\* One event more, of a log that creates a thread only once.
LEMMA PlansStep ==
  ASSUME NEW v \in View, NEW w \in View, NEW e, Genuine(e), Agree(v, w), SamePlans(v, w),
         Timely(w, e), PlansKept
  PROVE  SamePlans(ProjectInMemory(v, e), ProjectInSql(w, e))
<1> DEFINE k == CommandOf[e.cmd]
           v2 == ProjectInMemory(v, e)
           w2 == ProjectInSql(w, e)
<1>1. ASSUME NEW t \in Threads, HasThread(v2, t)
      PROVE  SamePlan(v2.threads[t], w2.threads[t], t)
  <2> DEFINE a == v.threads[t]
             b == w.threads[t]
  <2>1. v2.threads[t] = ThreadInMemory(v, e, t) /\ w2.threads[t] = ThreadInSql(w, e, t)
    BY InMemoryIs, InSqlIs
  <2>2. /\ HasThread(v, t) <=> HasThread(w, t)
        /\ HasThread(v, t) => a \in Thread /\ b \in Thread /\ SamePlan(a, b, t)
    BY ThreadTyped DEF Agree, SamePlans
  <2>3. v2.threads[t] # Absent
    BY <1>1 DEF HasThread
  <2> HIDE DEF v2, w2
  <2>4. CASE t # e.id \/ e.type \in ProjectEvents
    <3>1. v2.threads[t] = a /\ w2.threads[t] = b
      BY <2>1, <2>4 DEF ThreadInMemory, ThreadInSql
    <3> QED
      BY <2>2, <2>3, <3>1 DEF HasThread
  <2>5. CASE t = e.id /\ e.type = "thread.created"
    <3>1. ~HasThread(w, t)
      BY <2>5 DEF Timely
    <3>2. v2.threads[t] = NewThread(k) /\ w2.threads[t] = NewThread(k)
      BY <2>1, <2>5, <3>1 DEF ThreadInMemory, ThreadInSql, ProjectEvents
    <3> QED
      BY <3>2 DEF NewThread, SamePlan, SameTurns
  <2>6. CASE t = e.id /\ e.type \notin ProjectEvents \cup {"thread.created"} /\ ~HasThread(v, t)
    <3>1. v2.threads[t] = a
      BY <2>1, <2>6 DEF ThreadInMemory
    <3> QED
      BY <2>3, <2>6, <3>1 DEF HasThread
  <2>7. CASE t = e.id /\ e.type = "thread.turn-diff-completed" /\ HasThread(v, t)
    <3>1. v2.threads[t] = CheckpointInMemory(a, CheckpointOf(k))
          /\ w2.threads[t] = CheckpointInSql(b, CheckpointOf(k))
      BY <2>1, <2>2, <2>7 DEF ThreadInMemory, ThreadInSql, ProjectEvents
    <3>2. e.cmd \in CommandIds /\ IsCapture(e.cmd, t)
      BY <2>7 DEF Genuine, Event, IsCapture
    <3> QED
      BY <2>2, <2>7, <3>1, <3>2, SameCapture
  <2>8. CASE /\ t = e.id /\ HasThread(v, t)
             /\ e.type \notin ProjectEvents \cup {"thread.created", "thread.turn-diff-completed"}
    <3>1. v2.threads[t] = ThreadAfter(a, e) /\ w2.threads[t] = ThreadAfter(b, e)
      BY <2>1, <2>2, <2>8 DEF ThreadInMemory, ThreadInSql
    <3> QED
      BY <2>2, <2>8, <3>1, SameAfter
  <2> QED
    BY <2>4, <2>5, <2>6, <2>7, <2>8
<1> QED
  BY <1>1 DEF SamePlans

\* The model has the plans of what it holds of the log; a server that is down and will
\* see reverts has not been used yet.
PlansFollow ==
  /\ pc # "down" => SamePlans(model, ViewAt(seq))
  /\ pc = "append" => SamePlans(tx.model, tx.sql)
  /\ pc = "down" => NoReverts \/ log = <<>>

LEMMA PlansUnmoved ==
  ASSUME PlansFollow, UNCHANGED <<log, model, seq>>, pc # "down", pc' # "down",
         pc' = "append" => pc = "append" /\ UNCHANGED tx
  PROVE  PlansFollow'
<1>1. ViewAt(seq)' = ViewAt(seq)
  BY DEF ViewAt
<1> QED
  BY <1>1 DEF PlansFollow

\* What a restart loads has the plans of the tables, and all there is of empty ones.
LEMMA LoadedPlans ==
  ASSUME NEW v \in View, NoReverts \/ v = EmptyView
  PROVE  SamePlans(CommandReadModel(v), v)
<1> DEFINE w == CommandReadModel(v)
<1>1. ASSUME NEW t \in Threads, HasThread(w, t)
      PROVE  SamePlan(w.threads[t], v.threads[t], t)
  <2>1. w.threads[t] = IF v.threads[t] = Absent THEN Absent
                       ELSE [v.threads[t] EXCEPT !.checkpoints = {}]
    BY DEF CommandReadModel
  <2>2. v.threads[t] # Absent /\ v.threads[t] \in Thread
    BY <1>1, <2>1 DEF HasThread, View
  <2>3. NoReverts
    BY <2>2 DEF EmptyView
  <2>4. w.threads[t] = [v.threads[t] EXCEPT !.checkpoints = {}]
    BY <2>1, <2>2
  <2> HIDE DEF w
  <2>5. w.threads[t].plans = v.threads[t].plans
    BY <2>2, <2>4 DEF Thread
  <2> QED
    BY <2>3, <2>5 DEF SamePlan
<1> QED
  BY <1>1 DEF SamePlans

LEMMA PlansFollowStep ==
  ASSUME NeverStale, PlansKept, IInv, Stored, Current, PlansFollow, [Next]_vars
  PROVE  PlansFollow'
<1>0. TypeOK /\ AllGenuine(log)
  BY DEF IInv, Typed
<1>a. log \in Seq(Event) /\ Len(log) \in Nat /\ seq \in Nat /\ model \in View /\ sql \in View
     /\ crashes \in 0 .. MaxCrashes
  BY <1>0 DEF TypeOK
<1>1. CASE \E a \in Attempts : Dispatch(a)
  BY <1>1, PlansUnmoved DEF Dispatch, durable
<1>2. CASE Take \/ KnownCommand \/ NewCommand \/ Refuse
  BY <1>2, PlansUnmoved DEF Take, KnownCommand, NewCommand, Refuse, durable
<1>3. CASE LookupFails \/ TxFails
  BY <1>3, PlansUnmoved DEF LookupFails, TxFails, durable
<1>4. CASE Decide
  <2>1. tx'.sql = sql /\ tx'.model = model /\ pc' = "append" /\ pc = "decide"
        /\ UNCHANGED <<log, seq, model>>
    BY <1>4, DecideIs
  <2>2. ViewAt(seq) = sql
    BY <2>1 DEF Current, Stored, ViewAt, Replay
  <2>3. ViewAt(seq)' = ViewAt(seq)
    BY <2>1 DEF ViewAt
  <2> QED
    BY <2>1, <2>2, <2>3 DEF PlansFollow
<1>5. CASE AppendEvent
  <2> DEFINE e == Head(tx.todo)
  <2>1. /\ tx.todo \in Seq(Event) /\ tx.sql \in View /\ tx.model \in View
        /\ Genuine(e) /\ tx.todo # <<>> /\ pc = "append" /\ pc' = pc /\ UNCHANGED <<log, model, seq>>
        /\ tx'.model = ProjectInMemory(tx.model, e) /\ tx'.sql = ProjectInSql(tx.sql, e)
    BY <1>5, AppendEventIs DEF TxRecord
  <2>2. Fits(tx.sql, tx.todo) /\ Agree(tx.model, tx.sql) /\ SamePlans(tx.model, tx.sql)
    BY <2>1 DEF Current, PlansFollow
  <2>3. Timely(tx.sql, e)
    BY <2>1, <2>2, FirstFits
  <2> HIDE DEF e
  <2>4. SamePlans(tx'.model, tx'.sql)
    BY <2>1, <2>2, <2>3, PlansStep
  <2>5. ViewAt(seq)' = ViewAt(seq)
    BY <2>1 DEF ViewAt
  <2> QED
    BY <2>1, <2>4, <2>5 DEF PlansFollow
<1>6. CASE Commit
  <2>1. pc = "append" /\ log' = tx.log /\ model' = tx.model /\ seq' = Len(log') /\ pc' = "publish"
    BY <1>6 DEF Commit, Persist
  <2>2. ViewAt(seq)' = tx.sql
    BY <2>1 DEF ViewAt, Stored, Replay
  <2> QED
    BY <2>1, <2>2 DEF PlansFollow
<1>7. CASE CommitUncertain
  <2>1. /\ pc = "append" /\ tx \in TxRecord /\ log' = tx.log /\ UNCHANGED <<model, seq>>
        /\ pc' = "reconcile" /\ seq = Len(log)
    BY <1>7 DEF CommitUncertain, Persist, AtWork, IInv, Current
  <2>2. /\ tx.log \in Seq(Event) /\ Len(log) <= Len(tx.log)
        /\ \A i \in 1 .. Len(log) : tx.log[i] = log[i]
    BY <2>1 DEF IInv, Staged, StagedFor, TxRecord
  <2>3. seq \in 0 .. Len(log)
    BY <1>a, <2>1
  <2>4. ViewsAlong(EmptyView, tx.log)[seq] = ViewsAlong(EmptyView, log)[seq]
    BY <1>a, <2>2, <2>3, ViewsPrefix
  <2>5. ViewAt(seq)' = ViewAt(seq)
    BY <2>1, <2>4 DEF ViewAt
  <2> QED
    BY <2>1, <2>5 DEF PlansFollow
<1>8. CASE Publish \/ RecordRejection \/ RejectionLost \/ Reply
  BY <1>8, PlansUnmoved DEF Publish, RecordRejection, RejectionLost, Reply, durable
<1>9. CASE Reconcile \/ PublishMissed \/ ReconcileFails
  BY <1>9, PlansUnmoved DEF Reconcile, PublishMissed, ReconcileFails, AfterReconcile, durable
<1>10. CASE CatchUp
  <2>1. /\ pc = "catchUp" /\ pc' = pc /\ log' = log /\ seq < Len(log) /\ seq' = seq + 1
        /\ model' = ProjectInMemory(model, log[seq + 1])
    BY <1>10 DEF CatchUp, durable
  <2>2. seq + 1 \in 1 .. Len(log) /\ seq + 1 - 1 = seq /\ seq \in 0 .. Len(log)
    BY <1>a, <2>1
  <2>3. ViewAt(seq + 1) = ProjectInSql(ViewAt(seq), log[seq + 1])
    BY <1>a, <2>2, ViewsStep DEF ViewAt
  <2>4. /\ Genuine(log[seq + 1]) /\ ViewAt(seq) \in View /\ Agree(model, ViewAt(seq))
        /\ SamePlans(model, ViewAt(seq))
    BY <1>0, <2>1, <2>2, ViewAtTyped DEF AllGenuine, Current, PlansFollow
  <2>5. Timely(ViewAt(seq), log[seq + 1])
    BY <2>2 DEF Current, Sound, ViewAt
  <2>6. SamePlans(model', ViewAt(seq + 1))
    BY <1>a, <2>1, <2>3, <2>4, <2>5, PlansStep
  <2>7. ViewAt(seq)' = ViewAt(seq + 1)
    BY <2>1 DEF ViewAt
  <2> QED
    BY <2>1, <2>6, <2>7 DEF PlansFollow
<1>11. CASE Crash
  <2>1. crashes < MaxCrashes /\ pc' = "down" /\ log' = log
    BY <1>11 DEF Crash, durable
  <2>2. NoReverts
    BY <1>a, <2>1 DEF PlansKept
  <2> QED
    BY <2>1, <2>2 DEF PlansFollow
<1>12. CASE Boot
  <2>1. model' = CommandReadModel(sql) /\ seq' = Len(log) /\ pc' = "idle" /\ log' = log /\ pc = "down"
    BY <1>12 DEF Boot, durable
  <2>2. ViewAt(seq)' = sql
    BY <2>1 DEF ViewAt, Stored, Replay
  <2>3. NoReverts \/ sql = EmptyView
    BY <2>1, ReplayEmpty DEF PlansFollow, Stored
  <2>4. SamePlans(CommandReadModel(sql), sql)
    BY <1>a, <2>3, LoadedPlans
  <2> QED
    BY <2>1, <2>2, <2>4 DEF PlansFollow
<1>13. CASE UNCHANGED vars
  BY <1>13 DEF vars, durable, PlansFollow, ViewAt
<1> QED
  BY <1>1, <1>2, <1>3, <1>4, <1>5, <1>6, <1>7, <1>8, <1>9, <1>10, <1>11, <1>12, <1>13
     DEF Next, WorkerStep

LEMMA SpecPlansFollow ==
  ASSUME NeverStale, PlansKept PROVE Spec => [](IInv /\ Stored /\ Current /\ PlansFollow)
<1>1. Init => PlansFollow
  BY DEF Init, PlansFollow
<1>2. (IInv /\ Stored /\ Current) /\ PlansFollow /\ [Next]_vars => PlansFollow'
  BY PlansFollowStep
<1> QED
  BY <1>1, <1>2, SpecCurrent, PTL DEF Spec

\* Between commands the model's proposed plans are those of the tables.
THEOREM PlansCurrent == ASSUME NeverStale, PlansKept PROVE Spec => []PlansAreCurrent
<1>1. Stored /\ Current /\ PlansFollow => PlansAreCurrent
  BY DEF Current, Stored, PlansFollow, Deciding, PlansAreCurrent, SamePlans, SamePlan, ViewAt, Replay
<1> QED
  BY <1>1, SpecPlansFollow, PTL

-----------------------------------------------------------------------------
(* The engine implements CommandLog.                                       *)

\* No turn is started from a proposed plan.
NoSources ==
  \A c \in CommandIds : CommandOf[c].type = "thread.turn.start" => CommandOf[c].source = NoSource

\* Two views a decision cannot tell apart.
Alike(v, w) == Agree(v, w) /\ (NoSources \/ SamePlans(v, w))

LEMMA AlikeAccept ==
  ASSUME NEW v, NEW w, Alike(v, w), NEW c \in CommandIds
  PROVE  Accepts(v, CommandOf[c]) <=> Accepts(w, CommandOf[c])
<1> DEFINE k == CommandOf[c]
<1>1. k \in Command
  BY CommandsAssumption
<1>2. \A p : HasProject(v, p) <=> HasProject(w, p)
  BY DEF Alike, Agree, HasProject
<1>3. \A p : ActiveThreads(v, p) = ActiveThreads(w, p)
  BY DEF Alike, Agree, SameBasics, ActiveThreads
<1>4. \A t \in Threads : /\ HasThread(v, t) <=> HasThread(w, t)
                         /\ HasThread(v, t) => SameBasics(v.threads[t], w.threads[t])
  BY DEF Alike, Agree
<1>5. CASE k.type \in {"project.create", "project.meta.update", "project.delete"}
  BY <1>2, <1>3, <1>5 DEF Accepts, PlainCommands, PlainEvent
<1>6. CASE k.type \notin {"project.create", "project.meta.update", "project.delete", "thread.turn.start"}
  <2>1. k.thread \in Threads
    BY <1>1, <1>6, CommandFields
  <2>2. CASE k.type = "thread.create"
    BY <1>2, <1>4, <2>1, <2>2 DEF Accepts, PlainCommands, PlainEvent
  <2>3. CASE k.type \in {"thread.archive", "thread.unarchive"}
    BY <1>4, <2>1, <2>3 DEF Accepts, SameBasics, PlainCommands, PlainEvent
  <2>4. CASE k.type \notin {"thread.create", "thread.archive", "thread.unarchive"}
    BY <1>4, <1>6, <2>1, <2>4 DEF Accepts
  <2> QED
    BY <2>2, <2>3, <2>4
<1>7. CASE k.type = "thread.turn.start"
  <2>1. k.thread \in Threads /\ k.source \in [thread : Threads, plan : Plans] \cup {NoSource}
    BY <1>1, <1>7 DEF Command, PlainCommands, PlainEvent
  <2>2. HasThread(v, k.thread) => (SourcePlanOK(v, k) <=> SourcePlanOK(w, k))
    <3>1. CASE k.source = NoSource
      BY <3>1 DEF SourcePlanOK
    <3>2. CASE k.source # NoSource
      <4>1. k.source.thread \in Threads /\ SamePlans(v, w)
        BY <1>7, <2>1, <3>2 DEF NoSources, Alike
      <4>2. HasThread(v, k.source.thread)
              => v.threads[k.source.thread].plans = w.threads[k.source.thread].plans
        BY <4>1 DEF SamePlans, SamePlan
      <4> HIDE DEF k
      <4> QED
        BY <1>4, <2>1, <3>2, <4>1, <4>2 DEF SourcePlanOK, SameBasics
    <3> QED
      BY <3>1, <3>2
  <2>3. \A x : Accepts(x, k) <=> HasThread(x, k.thread) /\ SourcePlanOK(x, k)
    BY <1>7 DEF Accepts, PlainCommands, PlainEvent
  <2> QED
    BY <1>4, <2>1, <2>2, <2>3
<1> QED
  BY <1>5, <1>6, <1>7

LEMMA AlikeDecide ==
  ASSUME NEW v, NEW w, Alike(v, w), NEW c \in CommandIds
  PROVE  Decisions(v, c) = Decisions(w, c)
<1> DEFINE k == CommandOf[c]
<1>1. Accepts(v, k) <=> Accepts(w, k)
  BY AlikeAccept
<1>2. ASSUME Accepts(v, k) PROVE EventsOf(v, c) = EventsOf(w, c)
  <2>1. CASE k.type = "project.delete"
    <3>1. ActiveThreads(v, k.project) = ActiveThreads(w, k.project)
      BY DEF Alike, Agree, SameBasics, ActiveThreads
    <3> QED
      BY <2>1, <3>1 DEF EventsOf, ProjectDeletion
  <2>2. CASE k.type = "thread.turn.start"
    <3>1. HasThread(v, k.thread) /\ k.thread \in Threads
      BY <1>2, <2>2, CommandsAssumption, CommandFields DEF Accepts, PlainCommands, PlainEvent
    <3>2. v.threads[k.thread].mode = w.threads[k.thread].mode
      BY <3>1 DEF Alike, Agree, SameBasics
    <3> QED
      BY <2>2, <3>2 DEF EventsOf, TurnStart
  <2>3. CASE k.type \notin {"project.delete", "thread.turn.start"}
    BY <2>3, Zenon DEF EventsOf
  <2> QED
    BY <2>1, <2>2, <2>3
<1> QED
  BY <1>1, <1>2 DEF Decisions

\* What is staged is the beginning of a decision that the store allows, the rest is to
\* do; what is being refused has no decision there.
Planned ==
  /\ pc = "append" => \E done \in Seq(Event) :
       /\ done \o tx.todo \in Decisions(sql, cmd)
       /\ tx.log = log \o done /\ tx.sql = Replay(sql, done)
  /\ pc \in {"reconcile", "catchUp", "reject"} /\ answer.status = "rejected" => Decisions(sql, cmd) = {}

\* The first event of the rest moves to what is done.
LEMMA MoveFirst ==
  ASSUME NEW s \in Seq(Event), NEW done \in Seq(Event), NEW todo \in Seq(Event), todo # <<>>
  PROVE  /\ Append(done, Head(todo)) \o Tail(todo) = done \o todo
         /\ s \o Append(done, Head(todo)) = Append(s \o done, Head(todo))
         /\ Append(done, Head(todo)) \in Seq(Event)
<1>1. Append(done, Head(todo)) \in Seq(Event)
  OBVIOUS
<1>2. s \o Append(done, Head(todo)) = Append(s \o done, Head(todo))
  OBVIOUS
<1>3. Append(done, Head(todo)) \o Tail(todo) = done \o todo
  OBVIOUS
<1> QED
  BY <1>1, <1>2, <1>3

\* A step that leaves the store, the command and the answer alone.
LEMMA PlannedKept ==
  ASSUME Planned, UNCHANGED <<log, sql, cur>>, pc' = "append" => pc = "append" /\ UNCHANGED tx,
         pc' \in {"reconcile", "catchUp", "reject"} =>
           \/ pc \in {"reconcile", "catchUp", "reject"} /\ UNCHANGED answer
           \/ answer'.status # "rejected"
  PROVE  Planned'
<1>1. cmd' = cmd
  BY DEF cmd
<1> QED
  BY <1>1 DEF Planned

LEMMA PlannedStep ==
  ASSUME IInv, Stored, Current, NoSources \/ PlansFollow, Planned, [Next]_vars
  PROVE  Planned'
<1>0. TypeOK /\ AtWork
  BY DEF IInv, Typed
<1>a. pc = "decide" => Decisions(model, cmd) = Decisions(sql, cmd) /\ cmd \in CommandIds
  <2> SUFFICES ASSUME pc = "decide" PROVE Decisions(model, cmd) = Decisions(sql, cmd) /\ cmd \in CommandIds
    OBVIOUS
  <2>1. seq = Len(log) /\ Agree(model, ViewAt(seq)) /\ (NoSources \/ SamePlans(model, ViewAt(seq)))
    BY DEF Current, PlansFollow
  <2>2. ViewAt(seq) = sql
    BY <2>1 DEF Stored, ViewAt, Replay
  <2>3. cmd \in CommandIds
    BY <1>0, AttemptsAssumption DEF AtWork, cmd
  <2> QED
    BY <2>1, <2>2, <2>3, AlikeDecide DEF Alike
<1>1. CASE \E a \in Attempts : Dispatch(a)
  BY <1>1, PlannedKept DEF Dispatch, durable
<1>2. CASE Take
  BY <1>2 DEF Take, Planned
<1>3. CASE KnownCommand \/ NewCommand
  BY <1>3 DEF KnownCommand, NewCommand, Planned
<1>4. CASE LookupFails \/ TxFails
  BY <1>4, PlannedKept DEF LookupFails, TxFails, durable, Told
<1>5. CASE Decide
  <2>1. /\ tx'.log = log /\ tx'.sql = sql /\ tx'.todo \in Decisions(sql, cmd) /\ cmd' = cmd
        /\ UNCHANGED <<log, sql>> /\ pc' = "append" /\ pc = "decide" /\ cmd \in CommandIds
    BY <1>5, <1>a, DecideIs
  <2>2. sql \in View /\ log \in Seq(Event)
    BY <1>0 DEF TypeOK
  <2>3. tx'.todo \in Seq(Event)
    BY <2>1, <2>2, DecisionBlock DEF Block
  <2>4. <<>> \in Seq(Event) /\ <<>> \o tx'.todo = tx'.todo /\ log \o <<>> = log
    BY <2>2, <2>3
  <2>5. Replay(sql, <<>>) = sql
    BY ReplayEmpty
  <2> QED
    BY <2>1, <2>4, <2>5 DEF Planned
<1>6. CASE Refuse
  BY <1>6, <1>a DEF Refuse, durable, Planned, cmd
<1>7. CASE AppendEvent
  <2> DEFINE e == Head(tx.todo)
  <2>1. /\ tx \in TxRecord /\ tx.todo # <<>> /\ e \in Event /\ pc = "append" /\ pc' = pc
        /\ tx'.log = Append(tx.log, e) /\ tx'.todo = Tail(tx.todo)
        /\ tx'.sql = ProjectInSql(tx.sql, e) /\ UNCHANGED <<log, sql, cur>>
    BY <1>7, AppendEventIs
  <2>2. cmd' = cmd /\ log \in Seq(Event) /\ tx.todo \in Seq(Event)
    BY <1>0, <2>1 DEF TypeOK, cmd, TxRecord
  <2>3. PICK done \in Seq(Event) : /\ done \o tx.todo \in Decisions(sql, cmd)
                                   /\ tx.log = log \o done /\ tx.sql = Replay(sql, done)
    BY <2>1 DEF Planned
  <2> DEFINE more == Append(done, e)
  <2>4. more \in Seq(Event) /\ more \o tx'.todo = done \o tx.todo /\ log \o more = tx'.log
    <3> DEFINE todo == tx.todo
    <3>0. log \in Seq(Event) /\ todo \in Seq(Event) /\ todo # <<>>
      BY <2>1, <2>2
    <3>1. /\ Append(done, Head(todo)) \in Seq(Event)
          /\ Append(done, Head(todo)) \o Tail(todo) = done \o todo
          /\ log \o Append(done, Head(todo)) = Append(log \o done, Head(todo))
      <4> HIDE DEF todo
      <4> QED
        BY <3>0, MoveFirst, Zenon
    <3>2. /\ more \in Seq(Event) /\ more \o Tail(tx.todo) = done \o tx.todo
          /\ log \o more = Append(log \o done, e)
      BY <3>1, Zenon
    <3> HIDE DEF more, e
    <3> QED
      BY <2>1, <2>3, <3>2, Zenon
  <2>5. Replay(sql, more) = tx'.sql
    BY <2>1, <2>3, ViewsAppend
  <2>6. /\ more \o tx'.todo \in Decisions(sql', cmd') /\ tx'.log = log' \o more
        /\ tx'.sql = Replay(sql', more)
    BY <2>1, <2>2, <2>3, <2>4, <2>5
  <2> HIDE DEF more
  <2> QED
    BY <2>1, <2>4, <2>6 DEF Planned
<1>8. CASE Commit \/ CommitUncertain
  BY <1>8 DEF Commit, CommitUncertain, Planned, Told
<1>9. CASE Publish \/ RecordRejection \/ RejectionLost \/ Reply
  BY <1>9 DEF Publish, RecordRejection, RejectionLost, Reply, Planned
<1>10. CASE Reconcile \/ CatchUp \/ PublishMissed \/ ReconcileFails
  BY <1>10, PlannedKept DEF Reconcile, CatchUp, PublishMissed, ReconcileFails, AfterReconcile, durable
<1>11. CASE Crash \/ Boot
  BY <1>11 DEF Crash, Boot, Planned
<1>12. CASE UNCHANGED vars
  BY <1>12, PlannedKept DEF vars, durable
<1> QED
  BY <1>1, <1>2, <1>3, <1>4, <1>5, <1>6, <1>7, <1>8, <1>9, <1>10, <1>11, <1>12
     DEF Next, WorkerStep

-----------------------------------------------------------------------------
\* The outcome of each command: what its receipt says.
Outcome == [c \in CommandIds |-> receipts[c].status]

\* One receipt is one outcome.
LEMMA OutcomeStep ==
  ASSUME TypeOK, NEW c \in CommandIds, NEW s \in {"accepted", "rejected"}, NEW n \in Nat,
         receipts' = [receipts EXCEPT ![c] = [status |-> s, seq |-> n]]
  PROVE  Outcome' = [Outcome EXCEPT ![c] = s]
  BY DEF TypeOK, Outcome, Receipt

\* A commit, reported or not, is the moment the command takes effect.
LEMMA CommitIsAccept ==
  ASSUME IInv, Planned, Commit \/ CommitUncertain
  PROVE  \E c \in CommandIds : Promised!Accept(c)
<1>1. /\ pc = "append" /\ tx \in TxRecord /\ tx.todo = <<>> /\ Persist
      /\ cur \in Attempts /\ TypeOK /\ receipts[cmd].status = "none"
  BY DEF Commit, CommitUncertain, IInv, Typed, AtWork, Undecided
<1>2. cmd \in CommandIds
  BY <1>1, AttemptsAssumption DEF cmd
<1>3. PICK done \in Seq(Event) : /\ done \o tx.todo \in Decisions(sql, cmd)
                                 /\ tx.log = log \o done /\ tx.sql = Replay(sql, done)
  BY <1>1 DEF Planned
<1>4. done \in Decisions(sql, cmd)
  BY <1>1, <1>3
<1>5. log' = log \o done /\ sql' = Replay(sql, done)
  BY <1>1, <1>3 DEF Persist
<1>6. Outcome' = [Outcome EXCEPT ![cmd] = "accepted"]
  <2>1. receipts' = [receipts EXCEPT ![cmd] = [status |-> "accepted", seq |-> Len(tx.log)]]
    BY <1>1 DEF Persist
  <2>2. Len(tx.log) \in Nat
    BY <1>1 DEF TxRecord
  <2> QED
    BY <1>1, <1>2, <2>1, <2>2, OutcomeStep
<1>7. Outcome[cmd] = "none"
  BY <1>1, <1>2 DEF Outcome
<1>8. PICK c \in CommandIds : c = cmd
  BY <1>2
<1>9. Promised!Accept(c)
  BY <1>4, <1>5, <1>6, <1>7, <1>8 DEF Promised!Accept, Outcome
<1> QED
  BY <1>9

\* A rejection's receipt is the moment the command is refused.
LEMMA RejectionIsRefuse ==
  ASSUME IInv, Planned, RecordRejection
  PROVE  \E c \in CommandIds : Promised!Refuse(c)
<1>1. /\ pc = "reject" /\ receipts' = [receipts EXCEPT ![cmd] = [status |-> "rejected", seq |-> seq]]
      /\ UNCHANGED <<log, sql>> /\ cur \in Attempts /\ TypeOK
      /\ answer.status = "rejected" /\ receipts[cmd].status = "none"
  BY DEF RecordRejection, IInv, Typed, AtWork, Undecided
<1>2. cmd \in CommandIds /\ seq \in Nat
  BY <1>1, AttemptsAssumption DEF cmd, TypeOK
<1>3. Decisions(sql, cmd) = {}
  BY <1>1 DEF Planned
<1>4. Outcome' = [Outcome EXCEPT ![cmd] = "rejected"]
  BY <1>1, <1>2, OutcomeStep
<1>5. Outcome[cmd] = "none"
  BY <1>1, <1>2 DEF Outcome
<1>6. PICK c \in CommandIds : c = cmd
  BY <1>2
<1>7. Promised!Refuse(c)
  BY <1>1, <1>3, <1>4, <1>5, <1>6 DEF Promised!Refuse, Outcome
<1> QED
  BY <1>7

\* Every other step is a stutter for the clients.
LEMMA StepsPromised ==
  ASSUME IInv, Planned, [Next]_vars
  PROVE  [Promised!Next]_(Promised!vars)
<1>1. CASE Commit \/ CommitUncertain
  <2>1. PICK c \in CommandIds : Promised!Accept(c)
    BY <1>1, CommitIsAccept
  <2>2. Promised!Next
    BY <2>1 DEF Promised!Next
  <2> QED
    BY <2>2
<1>2. CASE RecordRejection
  <2>1. PICK c \in CommandIds : Promised!Refuse(c)
    BY <1>2, RejectionIsRefuse
  <2>2. Promised!Next
    BY <2>1 DEF Promised!Next
  <2> QED
    BY <2>2
<1>3. CASE UNCHANGED durable
  BY <1>3 DEF durable, Promised!vars
<1> QED
  BY <1>1, <1>2, <1>3 DEF Next, WorkerStep, vars, Dispatch, Take, KnownCommand, NewCommand,
     LookupFails, Decide, Refuse, AppendEvent, TxFails, Publish, Reconcile, CatchUp, PublishMissed,
     ReconcileFails, RejectionLost, Reply, Crash, Boot

\* The engine implements CommandLog: what is queued, retried, rolled back, cut off by a
\* crash or refused takes effect once, at one moment, as a decision on the whole log.
\* Assumed: no reconciliation fails after an uncertain commit, and either no turn is
\* started from a plan or no revert can make the model's plans differ.
THEOREM Implements ==
  ASSUME NeverStale, NoSources \/ PlansKept PROVE Spec => ImplementsCommandLog
<1>1. Init => Promised!Init
  BY DEF Init, Promised!Init, NoReceipt
<1>2. Init => Planned
  BY DEF Init, Planned, Told
<1>3. Spec => [](IInv /\ Stored /\ Current /\ (NoSources \/ PlansFollow))
  <2>1. CASE NoSources
    BY <2>1, SpecCurrent, PTL
  <2>2. CASE PlansKept
    BY <2>2, SpecPlansFollow, PTL
  <2> QED
    BY <2>1, <2>2
<1>4. (IInv /\ Stored /\ Current /\ (NoSources \/ PlansFollow)) /\ Planned /\ [Next]_vars => Planned'
  BY PlannedStep
<1>5. IInv /\ Planned /\ [Next]_vars => [Promised!Next]_(Promised!vars)
  BY StepsPromised
<1> QED
  BY <1>1, <1>2, <1>3, <1>4, <1>5, PTL DEF Spec, Promised!Spec, ImplementsCommandLog
=============================================================================
