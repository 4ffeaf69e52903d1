----------------------------- MODULE CommandModel -----------------------------
(***************************************************************************)
(* The pure core of the orchestration engine: what a command is            *)
(* (packages/contracts), the part of the read model its decision depends   *)
(* on, the decision itself (decider.ts over commandInvariants.ts), the     *)
(* in-memory projection of an event (projector.ts) and the same part of    *)
(* the SQL projection (ProjectionPipeline.ts).                             *)
(*                                                                         *)
(* Kept of a thread: its project, its archived and deleted marks, its      *)
(* runtime mode, its proposed plans and its turn checkpoints.  Titles,     *)
(* messages, activities, sessions and timestamps never reach a decision    *)
(* and are left out; the commands that only change those are PlainCommands.*)
(***************************************************************************)
EXTENDS Naturals, SequencesExt

CONSTANTS
  Projects, Threads, Turns, Plans, Modes,
  Absent,      \* no such project, no such thread
  NoTurn,      \* a plan bound to no turn
  NoSource,    \* a turn started from no proposed plan
  NoMode,      \* an event that carries no runtime mode
  CommandIds,
  CommandOf    \* the command behind each command id: a retry sends the same one

Statuses == {"ready", "missing", "error"}
TurnCounts == 0 .. 9    \* bound: the turn counts a command may carry

-----------------------------------------------------------------------------
(* Commands and events.                                                    *)

\* Commands that check only that their thread exists and whose one event leaves
\* everything a decision depends on unchanged, with the type of that event.
\* (interaction-mode.set is kept by the code the way runtime-mode.set is.)
PlainEvent ==
  [type \in {"thread.meta.update", "thread.interaction-mode.set", "thread.turn.interrupt",
             "thread.approval.respond", "thread.user-input.respond",
             "thread.checkpoint.revert", "thread.session.stop", "thread.session.set",
             "thread.message.assistant.delta", "thread.message.assistant.complete",
             "thread.activity.append"} |->
     CASE type = "thread.meta.update"          -> "thread.meta-updated"
       [] type = "thread.interaction-mode.set" -> "thread.interaction-mode-set"
       [] type = "thread.turn.interrupt"       -> "thread.turn-interrupt-requested"
       [] type = "thread.approval.respond"     -> "thread.approval-response-requested"
       [] type = "thread.user-input.respond"   -> "thread.user-input-response-requested"
       [] type = "thread.checkpoint.revert"    -> "thread.checkpoint-revert-requested"
       [] type = "thread.session.stop"         -> "thread.session-stop-requested"
       [] type = "thread.session.set"          -> "thread.session-set"
       [] type = "thread.activity.append"      -> "thread.activity-appended"
       [] OTHER                                -> "thread.message-sent"]
PlainCommands == DOMAIN PlainEvent

Command ==
  [type : {"project.create", "project.meta.update"}, project : Projects]
  \cup [type : {"project.delete"}, project : Projects, force : BOOLEAN]
  \cup [type : {"thread.create"}, thread : Threads, project : Projects, mode : Modes]
  \cup [type : {"thread.delete", "thread.archive", "thread.unarchive"} \cup PlainCommands,
        thread : Threads]
  \cup [type : {"thread.runtime-mode.set"}, thread : Threads, mode : Modes]
  \cup [type : {"thread.turn.start"}, thread : Threads,
        source : [thread : Threads, plan : Plans] \cup {NoSource}]
  \cup [type : {"thread.proposed-plan.upsert"}, thread : Threads, plan : Plans,
        turn : Turns \cup {NoTurn}]
  \cup [type : {"thread.turn.diff.complete"}, thread : Threads, turn : Turns,
        count : TurnCounts, status : Statuses]
  \cup [type : {"thread.revert.complete"}, thread : Threads, count : TurnCounts]

ASSUME ThreadsAssumption == IsFiniteSet(Threads)
ASSUME CommandsAssumption == \A c \in CommandIds : CommandOf[c] \in Command

\* An event names its command, its type and its aggregate; the rest of its
\* payload is that command's.  A turn start also copies its thread's mode.
EventTypes ==
  {"project.created", "project.meta-updated", "project.deleted", "thread.created",
   "thread.deleted", "thread.archived", "thread.unarchived", "thread.runtime-mode-set",
   "thread.turn-start-requested", "thread.proposed-plan-upserted",
   "thread.turn-diff-completed", "thread.reverted"}
  \cup {PlainEvent[type] : type \in PlainCommands}
Event == [cmd : CommandIds, type : EventTypes, id : Projects \cup Threads,
          mode : Modes \cup {NoMode}]
Ev(c, type, id) == [cmd |-> c, type |-> type, id |-> id, mode |-> NoMode]

-----------------------------------------------------------------------------
(* The decision-relevant view of the world.                                *)

Plan == [id : Plans, turn : Turns \cup {NoTurn}]
Checkpoint == [turn : Turns, count : TurnCounts, status : Statuses]
Thread == [project : Projects, archived : BOOLEAN, deleted : BOOLEAN, mode : Modes,
           plans : SUBSET Plan, checkpoints : SUBSET Checkpoint]
View == [projects : [Projects -> {Absent, "live", "deleted"}],
         threads : [Threads -> Thread \cup {Absent}]]

ASSUME AbsentAssumption == Absent \notin Thread

\* createEmptyReadModel, and the empty projection tables.
EmptyView == [projects |-> [p \in Projects |-> Absent], threads |-> [t \in Threads |-> Absent]]

HasProject(v, p) == v.projects[p] # Absent
HasThread(v, t) == v.threads[t] # Absent

\* listThreadsByProjectId, without the deleted ones.
ActiveThreads(v, p) ==
  {t \in Threads : HasThread(v, t) /\ v.threads[t].project = p /\ ~v.threads[t].deleted}

-----------------------------------------------------------------------------
(* decideOrchestrationCommand.                                             *)

\* A turn may be started from a plan of an existing thread of the same project.
SourcePlanOK(v, k) ==
  \/ k.source = NoSource
  \/ /\ HasThread(v, k.source.thread)
     /\ \E plan \in v.threads[k.source.thread].plans : plan.id = k.source.plan
     /\ v.threads[k.source.thread].project = v.threads[k.thread].project

\* The invariants a command needs; a deleted project or thread still exists.
Accepts(v, k) ==
  \/ k.type = "project.create" /\ ~HasProject(v, k.project)
  \/ k.type = "project.meta.update" /\ HasProject(v, k.project)
  \/ /\ k.type = "project.delete" /\ HasProject(v, k.project)
     /\ k.force \/ ActiveThreads(v, k.project) = {}
  \/ k.type = "thread.create" /\ HasProject(v, k.project) /\ ~HasThread(v, k.thread)
  \/ k.type = "thread.archive" /\ HasThread(v, k.thread) /\ ~v.threads[k.thread].archived
  \/ k.type = "thread.unarchive" /\ HasThread(v, k.thread) /\ v.threads[k.thread].archived
  \/ k.type = "thread.turn.start" /\ HasThread(v, k.thread) /\ SourcePlanOK(v, k)
  \/ /\ k.type \in {"thread.delete", "thread.runtime-mode.set", "thread.proposed-plan.upsert",
                    "thread.turn.diff.complete", "thread.revert.complete"} \cup PlainCommands
     /\ HasThread(v, k.thread)

\* (Variants named ...Bug stand for plausible mistakes; nothing here uses them.)
ProjectDeletionBug(v, c, p) == {<<Ev(c, "project.deleted", p)>>}  \* leaves the threads

\* The events of an accepted command.  A forced project.delete decides one
\* thread.delete per active thread, each on the model the earlier ones leave
\* (decideCommandSequence), then the delete of the emptied project; the order of
\* the threads is that of an array the model does not keep, so any order.
ProjectDeletion(v, c, p) ==
  {[i \in 1 .. Len(order) |-> Ev(c, "thread.deleted", order[i])] \o <<Ev(c, "project.deleted", p)>> :
     order \in SetToSeqs(ActiveThreads(v, p))}

TurnStart(v, c, t) ==
  <<Ev(c, "thread.message-sent", t),
    [cmd |-> c, type |-> "thread.turn-start-requested", id |-> t, mode |-> v.threads[t].mode]>>

EventsOf(v, c) ==
  LET k == CommandOf[c]
      One(type, id) == {<<Ev(c, type, id)>>}
  IN CASE k.type = "project.create"              -> One("project.created", k.project)
       [] k.type = "project.meta.update"         -> One("project.meta-updated", k.project)
       [] k.type = "project.delete"              -> ProjectDeletion(v, c, k.project)
       [] k.type = "thread.create"               -> One("thread.created", k.thread)
       [] k.type = "thread.delete"               -> One("thread.deleted", k.thread)
       [] k.type = "thread.archive"              -> One("thread.archived", k.thread)
       [] k.type = "thread.unarchive"            -> One("thread.unarchived", k.thread)
       [] k.type = "thread.runtime-mode.set"     -> One("thread.runtime-mode-set", k.thread)
       [] k.type = "thread.turn.start"           -> {TurnStart(v, c, k.thread)}
       [] k.type = "thread.proposed-plan.upsert" -> One("thread.proposed-plan-upserted", k.thread)
       [] k.type = "thread.turn.diff.complete"   -> One("thread.turn-diff-completed", k.thread)
       [] k.type = "thread.revert.complete"      -> One("thread.reverted", k.thread)
       [] OTHER                                  -> One(PlainEvent[k.type], k.thread)

\* The event sequences a command may be decided into; none is the invariant error.
Decisions(v, c) == IF Accepts(v, CommandOf[c]) THEN EventsOf(v, c) ELSE {}

-----------------------------------------------------------------------------
(* Projections.                                                            *)

NewThreadBug(k) == [project |-> k.project, archived |-> FALSE, deleted |-> FALSE,
                    mode |-> NoMode, plans |-> {}, checkpoints |-> {}]

NewThread(k) == [project |-> k.project, archived |-> FALSE, deleted |-> FALSE,
                 mode |-> k.mode, plans |-> {}, checkpoints |-> {}]

CheckpointOf(k) == [turn |-> k.turn, count |-> k.count, status |-> k.status]

\* thread.reverted keeps the checkpoints up to the turn count, and the plans
\* that are bound to no turn or to a turn of a kept checkpoint.
Reverted(th, count) ==
  LET kept == {cp \in th.checkpoints : cp.count <= count}
      turns == {cp.turn : cp \in kept}
  IN [th EXCEPT !.checkpoints = kept,
                !.plans = {plan \in @ : plan.turn = NoTurn \/ plan.turn \in turns}]

\* What projector.ts and ProjectionPipeline.ts do alike to an existing thread.
ThreadAfter(th, e) ==
  LET k == CommandOf[e.cmd]
  IN CASE e.type = "thread.deleted"          -> [th EXCEPT !.deleted = TRUE]
       [] e.type = "thread.archived"         -> [th EXCEPT !.archived = TRUE]
       [] e.type = "thread.unarchived"       -> [th EXCEPT !.archived = FALSE]
       [] e.type = "thread.runtime-mode-set" -> [th EXCEPT !.mode = k.mode]
       [] e.type = "thread.proposed-plan-upserted" ->
            [th EXCEPT !.plans = {plan \in @ : plan.id # k.plan}
                                 \cup {[id |-> k.plan, turn |-> k.turn]}]
       [] e.type = "thread.reverted"         -> Reverted(th, k.count)
       [] OTHER                              -> th

CheckpointInMemoryBug(th, cp) ==  \* placeholders only
  IF cp.status # "missing" THEN th
  ELSE [th EXCEPT !.checkpoints = {old \in @ : old.turn # cp.turn} \cup {cp}]

\* projector.ts: a placeholder ("missing") never replaces a captured checkpoint.
CheckpointInMemory(th, cp) ==
  IF cp.status = "missing" /\ \E old \in th.checkpoints : old.turn = cp.turn /\ old.status # "missing"
    THEN th
    ELSE [th EXCEPT !.checkpoints = {old \in @ : old.turn # cp.turn} \cup {cp}]

\* ProjectionPipeline.ts: the last one wins, and a turn loses a count it shared.
CheckpointInSql(th, cp) ==
  [th EXCEPT !.checkpoints = {old \in @ : old.turn # cp.turn /\ old.count # cp.count} \cup {cp}]

WithProject(v, p, mark) == [v EXCEPT !.projects[p] = mark]
WithThread(v, t, th) == [v EXCEPT !.threads[t] = th]

\* projectEvent of projector.ts on the view ...
ProjectInMemory(v, e) ==
  LET k == CommandOf[e.cmd]
  IN CASE e.type = "project.created" -> WithProject(v, e.id, "live")
       [] e.type = "project.deleted" /\ HasProject(v, e.id) -> WithProject(v, e.id, "deleted")
       [] e.type = "thread.created" -> WithThread(v, e.id, NewThread(k))
       [] e.type = "thread.turn-diff-completed" /\ HasThread(v, e.id) ->
            WithThread(v, e.id, CheckpointInMemory(v.threads[e.id], CheckpointOf(k)))
       [] e.id \in Threads /\ HasThread(v, e.id)
            /\ e.type \notin {"project.created", "project.deleted", "thread.created",
                             "thread.turn-diff-completed"} ->
            WithThread(v, e.id, ThreadAfter(v.threads[e.id], e))
       [] OTHER -> v

\* ... and projectEvent of ProjectionPipeline.ts: every projector, in order.  A
\* row created again keeps the plan and turn rows of the thread it replaces.
ProjectInSql(v, e) ==
  LET k == CommandOf[e.cmd]
  IN CASE e.type = "thread.turn-diff-completed" /\ HasThread(v, e.id) ->
            WithThread(v, e.id, CheckpointInSql(v.threads[e.id], CheckpointOf(k)))
       [] e.type = "thread.created" /\ HasThread(v, e.id) ->
            WithThread(v, e.id, [NewThread(k) EXCEPT !.plans = v.threads[e.id].plans,
                                                     !.checkpoints = v.threads[e.id].checkpoints])
       [] OTHER -> ProjectInMemory(v, e)

\* The views that the events of s lead to, one after another, from v.
ViewsAlong(v, s) ==
  LET at[n \in 0 .. Len(s)] == IF n = 0 THEN v ELSE ProjectInSql(at[n - 1], s[n])
  IN at
Replay(v, s) == ViewsAlong(v, s)[Len(s)]

\* getCommandReadModel: the projection tables, but no checkpoints.
CommandReadModel(sql) ==
  [projects |-> sql.projects,
   threads |-> [t \in Threads |-> IF sql.threads[t] = Absent THEN Absent
                                 ELSE [sql.threads[t] EXCEPT !.checkpoints = {}]]]
=============================================================================
