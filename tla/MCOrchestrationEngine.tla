------------------------ MODULE MCOrchestrationEngine ------------------------
(* Instances of the engine: which commands there are, and which calls of     *)
(* dispatch carry them.  Two calls with one command id are a client's retry. *)
EXTENDS OrchestrationEngine, TLC

CONSTANTS p1, t1, t2, plan1, turn1, m1, m2

CreateProject == [type |-> "project.create", project |-> p1]
CreateThread(t) == [type |-> "thread.create", thread |-> t, project |-> p1, mode |-> m1]
OnThread(type, t) == [type |-> type, thread |-> t]
StartTurn(t, source) == [type |-> "thread.turn.start", thread |-> t, source |-> source]
Delete(force) == [type |-> "project.delete", project |-> p1, force |-> force]

\* Create a project and a thread, change its mode, start a turn, delete by force.
LifecycleCommands ==
  [newProject |-> CreateProject,
   newThread  |-> CreateThread(t1),
   setMode    |-> [type |-> "thread.runtime-mode.set", thread |-> t1, mode |-> m2],
   startTurn  |-> StartTurn(t1, NoSource),
   delete     |-> Delete(TRUE)]
LifecycleIds == DOMAIN LifecycleCommands
LifecycleAttempts ==
  [a1 |-> "newProject", a2 |-> "newThread", a3 |-> "newThread", a4 |-> "setMode",
   a5 |-> "startTurn", a6 |-> "delete"]
LifecycleAttemptIds == DOMAIN LifecycleAttempts

\* A thread sent twice and a turn of two events, each refused when it comes too
\* early: little enough for every fault.
RetryCommands ==
  [newProject |-> CreateProject,
   newThread  |-> CreateThread(t1),
   startTurn  |-> StartTurn(t1, NoSource)]
RetryIds == DOMAIN RetryCommands
RetryAttempts ==
  [a1 |-> "newProject", a2 |-> "newThread", a3 |-> "newThread", a4 |-> "startTurn"]
RetryAttemptIds == DOMAIN RetryAttempts

\* Two threads: one is captured, reverted, archived, deleted and created again, a
\* plan of it starts a turn of the other, and the project is deleted by force.
ThreadCommands ==
  [newProject  |-> CreateProject,
   newThread   |-> CreateThread(t1),
   otherThread |-> CreateThread(t2),
   diff        |-> [type |-> "thread.turn.diff.complete", thread |-> t1, turn |-> turn1,
                    count |-> 1, status |-> "ready"],
   plan        |-> [type |-> "thread.proposed-plan.upsert", thread |-> t1, plan |-> plan1,
                    turn |-> turn1],
   keep        |-> [type |-> "thread.revert.complete", thread |-> t1, count |-> 1],
   implement   |-> StartTurn(t2, [thread |-> t1, plan |-> plan1]),
   archive     |-> OnThread("thread.archive", t1),
   unarchive   |-> OnThread("thread.unarchive", t1),
   remove      |-> OnThread("thread.delete", t1),
   again       |-> CreateThread(t1),
   interrupt   |-> OnThread("thread.turn.interrupt", t1),
   delete      |-> Delete(TRUE)]
ThreadIds == DOMAIN ThreadCommands
ThreadAttempts == [c \in ThreadIds |-> c]
PlanIds == {"newProject", "newThread", "otherThread", "diff", "plan", "keep", "implement"}
PlanAttempts == [c \in PlanIds |-> c]

\* Bound: calls that wait at the same time.  An order of arrival is an order of
\* handling, so a longer queue only delays what this one reaches.
ShortQueue == Len(queue) <= 1

\* Bound: the project and the threads are asked for first, one after another, and
\* then any Further of the other commands, in any order.
Further == 4
Sent == {c \in ThreadIds : reply[c] # Told("none")}
SetUp == {"newProject", "newThread", "otherThread"}
InOrder ==
  /\ "newThread" \in Sent => "newProject" \in Sent
  /\ "otherThread" \in Sent => "newThread" \in Sent
  /\ Sent \subseteq SetUp \/ SetUp \subseteq Sent
  /\ Cardinality(Sent \ SetUp) <= Further
=============================================================================
