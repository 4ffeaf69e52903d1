------------------------------ MODULE CommandGate ------------------------------
(***************************************************************************)
(* How commands reach the engine.  Those of the clients' sockets pass the  *)
(* gate of serverRuntimeStartup.ts, which holds them back until the server *)
(* has started or failed to, and then ws.ts runs them.  Most are one       *)
(* dispatch.  A turn with a bootstrap is several: create the thread, make  *)
(* a worktree and note it, start the turn; when one of these fails the     *)
(* thread is deleted again.  Two kinds of command pass the gate by: what   *)
(* a client posts to the HTTP route of orchestration/http.ts, and what the *)
(* server does of its own accord, in its startup and in its reactors.      *)
(*                                                                         *)
(* A call of enqueueCommand has the name of its command.  The engine is    *)
(* the log it writes: a dispatch appends its events at once, and they are  *)
(* published one by one before it takes the next command.                  *)
(***************************************************************************)
EXTENDS Integers, Sequences, FiniteSets

CONSTANTS
  Commands, Threads,
  Creates,     \* turns with a bootstrap that creates the thread
  Worktrees,   \* turns with a bootstrap that makes a worktree
  ThreadOf,    \* the thread of such a turn; the other commands are on any
  Posts,       \* commands sent to the HTTP route, which ignores a bootstrap
  InitialLog,  \* what the server finds in its store
  MaxFaults,   \* bound: steps that fail although nothing is wrong with the command
  MaxInputs    \* bound: commands sent, and events that the server writes by itself

Bootstraps == Creates \cup Worktrees

Events == [cmd : Commands \cup {"none"}, thread : Threads,
           kind : {"created", "updated", "message", "turn", "deleted"}, time : Nat]

ASSUME GateAssumption ==
  /\ Bootstraps \subseteq Commands /\ Posts \subseteq Commands \ Bootstraps
  /\ ThreadOf \in [Bootstraps -> Threads]
  /\ InitialLog \in Seq(Events)
  /\ \A i \in 1 .. Len(InitialLog) : InitialLog[i].time = 0  \* from before the server's time
  /\ "none" \notin Commands /\ MaxFaults \in Nat /\ MaxInputs \in Nat

VARIABLES
  gate,       \* commandReadinessState, and commandReady with it
  held,       \* commandQueue
  worker,     \* the call that the gate's worker runs
  call,       \* where each call is
  created,    \* createdThread of each call
  issued,     \* the command's createdAt
  clock,      \* the server's time
  log,        \* events in the store
  published,  \* how many of them have been published
  faults      \* how many faults there have been

gateVars == <<gate, held, worker, call, created, issued, clock, log, published, faults>>

None == "none"
Ended == {"done", "refused", "failed", "left", "interrupted"}
Running == {"create", "worktree", "meta", "final", "cleanup"}

Sent == {c \in Commands : call[c] # "idle"}
Written == {i \in Len(InitialLog) + 1 .. Len(log) : log[i].cmd = None}
MoreInputs == Cardinality(Sent) + Cardinality(Written) < MaxInputs

GateInit ==
  /\ gate = "pending" /\ held = <<>> /\ worker = None
  /\ call = [c \in Commands |-> "idle"] /\ created = [c \in Commands |-> FALSE]
  /\ issued = [c \in Commands |-> 0] /\ clock = 0
  /\ log = InitialLog /\ published = Len(InitialLog) /\ faults = 0

-----------------------------------------------------------------------------
(* The engine                                                              *)

Exists(t) == \E i \in 1 .. Len(log) : log[i].thread = t
Deleted(t) == \E i \in 1 .. Len(log) : log[i].thread = t /\ log[i].kind = "deleted"

Event(c, t, kind, time) == [cmd |-> c, thread |-> t, kind |-> kind, time |-> time]

\* A creation and a turn have the time at which the client made the command, the
\* other events the server's.
Block(c, t, kind, now) ==
  CASE kind = "turn"    -> <<Event(c, t, "message", issued[c]), Event(c, t, "turn", issued[c])>>
    [] kind = "created" -> <<Event(c, t, kind, issued[c])>>
    [] OTHER            -> <<Event(c, t, kind, now)>>

\* A deleted thread still exists, for a creation as for everything else.
Accepts(t, kind) == IF kind = "created" THEN ~Exists(t) ELSE Exists(t)

Fault == faults < MaxFaults /\ faults' = faults + 1

Commit(c, t, kind) ==
  /\ published = Len(log)
  /\ Accepts(t, kind)
  /\ clock' = clock + 1
  /\ log' = log \o Block(c, t, kind, clock')
  /\ UNCHANGED faults

\* A dispatch fails when the command is not accepted, or the store is at fault.
Refuse(t, kind) ==
  /\ published = Len(log)
  /\ IF Accepts(t, kind) THEN Fault ELSE UNCHANGED faults
  /\ UNCHANGED <<clock, log>>

\* Whatever the gate's state: autoBootstrapProjectFromCwd creates a thread of an id
\* of its own, a reactor writes of a thread that is there, maybe with the time of
\* what it has heard.
ServerWrites ==
  /\ published = Len(log) /\ MoreInputs
  /\ clock' = clock + 1
  /\ \E t \in Threads, kind \in {"created", "updated"}, time \in 0 .. clock' :
       /\ Accepts(t, kind)
       /\ kind = "created" => \A c \in Bootstraps : t # ThreadOf[c]
       /\ log' = Append(log, Event(None, t, kind, time))
  /\ UNCHANGED <<gate, held, worker, call, created, issued, published, faults>>

Publish ==
  /\ published < Len(log)
  /\ published' = published + 1
  /\ UNCHANGED <<gate, held, worker, call, created, issued, clock, log, faults>>

-----------------------------------------------------------------------------
(* The gate                                                                *)

FirstStep(c) ==
  CASE c \in Creates -> "create" [] c \in Worktrees \ Creates -> "worktree" [] OTHER -> "final"

\* enqueueCommand looks at the state, and not at who is held.
Enqueue(c) ==
  /\ call[c] = "idle" /\ c \notin Posts /\ MoreInputs
  /\ issued' = [issued EXCEPT ![c] = clock]
  /\ \/ gate = "ready" /\ call' = [call EXCEPT ![c] = FirstStep(c)] /\ UNCHANGED held
     \/ gate = "failed" /\ call' = [call EXCEPT ![c] = "refused"] /\ UNCHANGED held
     \/ gate = "pending" /\ call' = [call EXCEPT ![c] = "held"] /\ held' = Append(held, c)
  /\ UNCHANGED <<gate, worker, created, clock, log, published, faults>>

\* orchestrationDispatchRouteLayer does not look at the state.
Post(c) ==
  /\ call[c] = "idle" /\ c \in Posts /\ MoreInputs
  /\ issued' = [issued EXCEPT ![c] = clock]
  /\ call' = [call EXCEPT ![c] = "final"]
  /\ UNCHANGED <<gate, held, worker, created, clock, log, published, faults>>

\* signalCommandReady, or failCommandReady; in either case the worker hears of it.
StartupEnds ==
  /\ gate = "pending"
  /\ gate' \in {"ready", "failed"}
  /\ UNCHANGED <<held, worker, call, created, issued, clock, log, published, faults>>

WorkerTakes ==
  /\ worker = None /\ held # <<>>
  /\ worker' = Head(held) /\ held' = Tail(held)
  /\ UNCHANGED <<gate, call, created, issued, clock, log, published, faults>>

WorkerBeginsBug ==  \* waits for the startup to end, not for it to succeed
  /\ worker # None /\ call[worker] = "held" /\ gate # "pending"
  /\ call' = [call EXCEPT ![worker] = FirstStep(worker)]
  /\ UNCHANGED <<gate, held, worker, created, issued, clock, log, published, faults>>

\* The worker waits for the server, then runs the command or settles it at once.
WorkerBegins ==
  /\ worker # None /\ call[worker] = "held"
  /\ \/ /\ gate = "ready"
        /\ call' = [call EXCEPT ![worker] = FirstStep(worker)]
        /\ UNCHANGED worker
     \/ /\ gate = "failed"
        /\ call' = [call EXCEPT ![worker] = "refused"]
        /\ worker' = None
  /\ UNCHANGED <<gate, held, created, issued, clock, log, published, faults>>

-----------------------------------------------------------------------------
(* dispatchNormalizedCommand, dispatchBootstrapTurnStart                   *)

GoBug(c, pc) ==  \* a command that fails ends the worker
  /\ call' = [call EXCEPT ![c] = pc]
  /\ worker' = IF worker = c /\ pc = "done" THEN None ELSE worker

\* The call goes on to pc; the gate's worker is free when it has ended.
Go(c, pc) ==
  /\ call' = [call EXCEPT ![c] = pc]
  /\ worker' = IF worker = c /\ pc \in Ended THEN None ELSE worker

FailsBug(c) == Go(c, "failed")  \* forgets the thread it has created

\* catchCause: the created thread is deleted again.
Fails(c) == Go(c, IF created[c] THEN "cleanup" ELSE "failed")

CreateThread(c) ==
  /\ call[c] = "create"
  /\ \/ /\ Commit(c, ThreadOf[c], "created")
        /\ created' = [created EXCEPT ![c] = TRUE]
        /\ Go(c, IF c \in Worktrees THEN "worktree" ELSE "final")
     \/ Refuse(ThreadOf[c], "created") /\ Fails(c) /\ UNCHANGED created
  /\ UNCHANGED <<gate, held, issued, published>>

\* git, which may fail.
MakeWorktree(c) ==
  /\ call[c] = "worktree"
  /\ \/ Go(c, "meta") /\ UNCHANGED faults
     \/ Fails(c) /\ Fault
  /\ UNCHANGED <<gate, held, created, issued, clock, log, published>>

NoteWorktree(c) ==
  /\ call[c] = "meta"
  /\ \/ Commit(c, ThreadOf[c], "updated") /\ Go(c, "final")
     \/ Refuse(ThreadOf[c], "updated") /\ Fails(c)
  /\ UNCHANGED <<gate, held, created, issued, published>>

\* What the command itself may be: a turn, or some other command on any thread.
Final(c) ==
  IF c \in Bootstraps THEN {<<ThreadOf[c], "turn">>} ELSE Threads \X {"turn", "updated", "deleted"}

DispatchFinal(c) ==
  /\ call[c] = "final"
  /\ \E k \in Final(c) : \/ Commit(c, k[1], k[2]) /\ Go(c, "done")
                         \/ Refuse(k[1], k[2]) /\ Fails(c)
  /\ UNCHANGED <<gate, held, created, issued, published>>

\* cleanupCreatedThread, whose failure is only logged.
Cleanup(c) ==
  /\ call[c] = "cleanup"
  /\ \/ Commit(c, ThreadOf[c], "deleted") /\ Go(c, "failed")
     \/ Refuse(ThreadOf[c], "deleted") /\ Go(c, "left")
  /\ UNCHANGED <<gate, held, created, issued, published>>

\* The client disconnects: its calls are interrupted, not those the worker runs.
Interrupt(c) ==
  /\ call[c] \in Running /\ worker # c
  /\ Go(c, "interrupted")
  /\ UNCHANGED <<gate, held, created, issued, clock, log, published, faults>>

RunStep(c) ==
  CreateThread(c) \/ MakeWorktree(c) \/ NoteWorktree(c) \/ DispatchFinal(c) \/ Cleanup(c)

GateWorker == WorkerTakes \/ WorkerBegins

GateNext ==
  \/ \E c \in Commands : Enqueue(c) \/ Post(c) \/ RunStep(c) \/ Interrupt(c)
  \/ StartupEnds \/ GateWorker \/ ServerWrites \/ Publish

GateSpec == GateInit /\ [][GateNext]_gateVars

-----------------------------------------------------------------------------
GateTypeOK ==
  /\ gate \in {"pending", "ready", "failed"}
  /\ held \in Seq(Commands) /\ worker \in Commands \cup {None}
  /\ call \in [Commands -> {"idle", "held"} \cup Running \cup Ended]
  /\ created \in [Commands -> BOOLEAN] /\ issued \in [Commands -> Nat] /\ clock \in Nat
  /\ log \in Seq(Events) /\ published \in 0 .. Len(log)
  /\ faults \in 0 .. MaxFaults

\* When a bootstrap that has created its thread is over, the thread has its turn
\* or is deleted; unless the client went away, which stops the bootstrap where
\* it is, or the deletion itself failed.
BootstrapIsWhole ==
  \A c \in Creates :
    created[c] /\ call[c] \in Ended =>
      \/ call[c] \in {"interrupted", "left"}
      \/ Deleted(ThreadOf[c])
      \/ \E i \in 1 .. Len(log) : log[i].cmd = c /\ log[i].kind = "turn"

\* Nothing is written for a command of a client's socket before the server has
\* started, nor after it has failed to, whether the command was held or came later.
\* What is posted to the HTTP route is written in any state of the gate, and so is
\* what the server writes of its own accord.
OnlyWhenReady ==
  [][\A i \in Len(log) + 1 .. Len(log') :
       log'[i].cmd \in Commands \ Posts => gate = "ready"]_gateVars

\* Once the startup has ended one way or the other, every call ends, those held
\* back included: one that fails lets the next one run.  A command is sent once, so
\* this is that at last no call is under way any more.
EveryCallEnds == <>[](\A c \in Commands : call[c] \in {"idle"} \cup Ended)

=============================================================================
