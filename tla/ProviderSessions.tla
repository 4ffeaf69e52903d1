---------------------------- MODULE ProviderSessions ----------------------------
(***************************************************************************)
(* The provider sessions of one thread, and who starts and stops them.     *)
(*                                                                         *)
(* ProviderCommandReactor.ts works on the thread's requests one at a time: *)
(* it starts, restarts and stops sessions, and forks a fiber that sends a  *)
(* turn.  ThreadDeletionReactor.ts and ProviderSessionReaper.ts stop       *)
(* sessions too.  All of them go through ProviderService.ts, which reads   *)
(* the directory of bindings, calls an adapter and writes the directory,   *)
(* and nothing keeps two of them apart.  ProviderRuntimeIngestion.ts       *)
(* brings what the adapters report into the projected session, which the   *)
(* reactor writes as well.                                                 *)
(*                                                                         *)
(* Every caller is a record of where it is.  An adapter behaves as         *)
(* ClaudeAdapter.ts does: sendTurn looks the session up, waits for the     *)
(* agent, and starts the turn in the session it holds, whatever has become *)
(* of it; and an agent may begin turns of its own.  The instances are of   *)
(* one driver and can resume each other's conversations.                   *)
(***************************************************************************)
EXTENDS Naturals, Sequences, FiniteSets, SequencesExt

CONSTANTS
  Instances, NoInstance, Default,  \* provider instances; thread.modelSelection's
  Modes, InitialMode,              \* runtime modes
  MaxTurns, MaxOwn,                \* bounds: turn start requests, and turns that agents
                                   \* begin of their own
  Commands,                        \* other commands of the user
  Faults,                          \* what may go wrong
  MaxInputs, HastyInputs           \* bounds: all of these together, when the user waits
                                   \* for the server and when not

ASSUME SessionsAssumption ==
  /\ Default \in Instances /\ InitialMode \in Modes /\ "none" \notin Modes
  /\ Commands \subseteq {"mode", "stop", "interrupt", "delete"}
  /\ NoInstance \notin Instances /\ MaxTurns \in Nat /\ MaxOwn \in Nat /\ MaxInputs \in Nat
  /\ HastyInputs \in 0 .. MaxInputs
  /\ Faults \subseteq {"start", "deliver", "exit", "crash"}

Turns == 1 .. MaxTurns
OwnTurns == MaxTurns + 1 .. MaxTurns + MaxOwn
NoTurn == 0
None == [status |-> "none"]
NoEvent == [type |-> "none"]

Reactor == <<"reactor", 0>>
Deletion == <<"deletion", 0>>
Reaper == <<"reaper", 0>>
Fiber(t) == <<"send", t>>
Callers == {Reactor, Deletion, Reaper} \cup {Fiber(t) : t \in Turns}

VARIABLES
  patient,       \* the user asks for nothing before everything is handled
  alive, mode,   \* the thread: not deleted; its runtime mode
  session,       \* its projected session
  issued,        \* how many of those are given
  own,           \* how many turns the agents have begun of their own
  outcome,       \* what became of each turn start request
  queue,         \* the reactor's
  chosen,        \* threadModelSelections
  calls,         \* where each caller is
  live,          \* the session of each instance
  orphans,       \* of each instance the sessions over which another was entered
  binding,       \* the directory's row
  events,        \* what each adapter reported and ingestion has not taken
  ingest,        \* the event ingestion works on, and the session it read
  faults, crashed,
  clobbered,     \* observation: ingestion has overwritten a session it had not read
  switched,      \* observation: a session has been started on another instance than
                 \* the binding's
  raced          \* observation: turns that a turn sent meanwhile has overwritten, and
                 \* turns started in a session that was no longer at work

vars == <<patient, alive, mode, session, issued, own, outcome, queue, chosen, calls, live,
          orphans, binding, events, ingest, faults, crashed, clobbered, switched, raced>>
client == <<patient, alive, mode, issued, own>>
observed == <<clobbered, switched, raced>>
env == <<client, faults, crashed, observed>>

Idle == [pc |-> "idle", event |-> NoEvent, at |-> NoInstance, mode |-> InitialMode, stale |-> {}]
NotIngesting == [event |-> NoEvent, seen |-> None]
Projected(status, turn, m) == [status |-> status, turn |-> turn, mode |-> m]
\* A session has a turn or none, and the calls of sendTurn that have looked it up.
Session(m) == [turn |-> NoTurn, mode |-> m, sends |-> {}]
NoSession == [turn |-> NoTurn, mode |-> "none", sends |-> {}]

Init ==
  /\ patient \in BOOLEAN
  /\ alive = TRUE /\ mode = InitialMode /\ session = None
  /\ issued = 0 /\ own = 0 /\ outcome = [t \in Turns |-> "none"]
  /\ queue = <<>> /\ chosen = NoInstance
  /\ calls = [c \in Callers |-> Idle]
  /\ live = [i \in Instances |-> NoSession] /\ orphans = [i \in Instances |-> {}]
  /\ binding = None /\ events = [i \in Instances |-> <<>>] /\ ingest = NotIngesting
  /\ faults = 0 /\ crashed = FALSE /\ clobbered = FALSE /\ switched = FALSE
  /\ raced = {}

-----------------------------------------------------------------------------
Live(i) == live[i] # NoSession
AtWork(i) == orphans[i] \cup ({live[i]} \ {NoSession})
Active == session # None /\ session.status # "stopped"

\* A turn of an agent's own counts as two inputs.
Room(n) ==
  issued + 2 * own + Cardinality({t \in Turns : outcome[t] # "none"}) + faults + n
    <= IF patient THEN MaxInputs ELSE HastyInputs
InputLeft == Room(1)

Goto(c, pc) == calls' = [calls EXCEPT ![c].pc = pc]
Return(c) == calls' = [calls EXCEPT ![c] = Idle]

\* The adapters' events reach ingestion on streams of their own.
Reported(i, news) == events' = [events EXCEPT ![i] = @ \o news]

\* A session of an instance, the one it has or an orphan, goes on as another record.
Continues(i, s, r) ==
  \/ s = live[i] /\ live' = [live EXCEPT ![i] = r] /\ UNCHANGED orphans
  \/ s \in orphans[i] /\ orphans' = [orphans EXCEPT ![i] = (@ \ {s}) \cup {r}] /\ UNCHANGED live

\* session.started, and session.state.changed (ready) right after it.
Started == <<[type |-> "session.started"]>>
Begun(t) == <<[type |-> "turn.started", turn |-> t]>>
Completed(t) == IF t = NoTurn THEN <<>> ELSE <<[type |-> "turn.completed", turn |-> t]>>
Exited == <<[type |-> "session.exited"]>>

\* The turn of a caller that fails, if it has one.
TurnOf(c) == IF c[1] = "send" THEN c[2]
             ELSE IF calls[c].event.type = "turn" THEN calls[c].event.turn ELSE NoTurn

Recovering(c) == c # Reactor \/ calls[c].event.type = "interrupt"
Bound(c) == [status |-> "running", at |-> calls[c].at, mode |-> calls[c].mode, idle |-> FALSE]

\* (Variants named ...Bug stand for plausible mistakes; nothing here uses them.)
FailBug(c) == Return(c)  \* a failure is only logged

\* A turn that cannot start is reported, anything else is logged.
Fail(c) == IF TurnOf(c) = NoTurn THEN Return(c) ELSE Goto(c, "report")

Fault(kind) == kind \in Faults /\ InputLeft /\ faults' = faults + 1

Handled ==
  /\ \A c \in Callers : calls[c] = Idle
  /\ queue = <<>> /\ (\A i \in Instances : events[i] = <<>>) /\ ingest = NotIngesting

-----------------------------------------------------------------------------
(* The user.                                                               *)

Queued(e) ==
  /\ queue' = Append(queue, e)
  /\ UNCHANGED <<session, chosen, calls, live, orphans, binding, events, ingest,
                 faults, crashed, observed>>

MayAsk == alive /\ InputLeft /\ (patient => Handled)

\* thread.turn.start, on some instance.
RequestTurn(t, i) ==
  /\ MayAsk /\ outcome[t] = "none" /\ \A u \in 1 .. t - 1 : outcome[u] # "none"
  /\ outcome' = [outcome EXCEPT ![t] = "requested"]
  /\ Queued([type |-> "turn", turn |-> t, at |-> i])
  /\ UNCHANGED client

Command(name) ==
  /\ MayAsk /\ name \in Commands
  /\ issued' = issued + 1

SetMode ==
  /\ Command("mode")
  /\ mode' \in Modes \ {mode}
  /\ Queued([type |-> "mode"])
  /\ UNCHANGED <<patient, alive, own, outcome>>

RequestStop ==
  /\ Command("stop")
  /\ Queued([type |-> "stop"])
  /\ UNCHANGED <<patient, alive, mode, own, outcome>>

RequestInterrupt ==
  /\ Command("interrupt")
  /\ Queued([type |-> "interrupt"])
  /\ UNCHANGED <<patient, alive, mode, own, outcome>>

\* thread.delete; the deletion reactor has a queue of its own.
DeleteThread ==
  /\ Command("delete")
  /\ alive' = FALSE
  /\ calls' = [calls EXCEPT ![Deletion].pc = "stopRoute"]
  /\ UNCHANGED <<patient, mode, own, session, outcome, queue, chosen, live, orphans, binding,
                 events, ingest, faults, crashed, observed>>

-----------------------------------------------------------------------------
(* ProviderCommandReactor                                                  *)

FirstStepBug(e) ==  \* a stop only writes the projected session
  CASE ~alive -> "idle"
    [] e.type = "turn" -> "ensure"
    [] e.type = "mode" -> IF Active THEN "ensure" ELSE "idle"
    [] e.type = "interrupt" -> IF Active THEN "route" ELSE "idle"
    [] e.type = "stop" -> "setStopped"

FirstStep(e) ==
  CASE ~alive -> "idle"
    [] e.type = "turn" -> "ensure"
    [] e.type = "mode" -> IF Active THEN "ensure" ELSE "idle"
    [] e.type = "interrupt" -> IF Active THEN "route" ELSE "idle"
    [] e.type = "stop" -> IF Active THEN "stopRoute" ELSE "setStopped"

\* processDomainEvent, up to the first call.
Take ==
  /\ calls[Reactor] = Idle /\ queue # <<>>
  /\ queue' = Tail(queue)
  /\ LET e == Head(queue) IN
       calls' = [calls EXCEPT ![Reactor] =
                   IF FirstStep(e) = "idle" THEN Idle
                   ELSE [pc |-> FirstStep(e), event |-> e, at |-> NoInstance, stale |-> {},
                         mode |-> IF session = None THEN InitialMode ELSE session.mode]]
  /\ UNCHANGED <<session, outcome, chosen, live, orphans, binding, events, ingest, env>>

\* listSessions dies of a session that its binding does not name.
ListSessionsDies == binding # None /\ \E i \in Instances : Live(i) /\ binding.at # i

Wanted(e) ==
  IF e.type = "turn" THEN e.at ELSE IF chosen # NoInstance THEN chosen ELSE Default

\* Nothing asks for another session.
Reusable(e) ==
  /\ Active /\ mode = session.mode
  /\ \E i \in Instances : Live(i) /\ (e.type = "turn" \/ chosen # NoInstance => i = Wanted(e))

\* The rest of processTurnStartRequested: a fiber sends the turn, if the
\* sessions can be listed once more.  Other requests are done.
Proceed ==
  LET e == calls[Reactor].event IN
  IF e.type # "turn" THEN Return(Reactor) /\ UNCHANGED chosen
  ELSE /\ chosen' = e.at
       /\ IF ListSessionsDies THEN Fail(Reactor)
          ELSE calls' = [calls EXCEPT ![Reactor] = Idle, ![Fiber(e.turn)].pc = "route"]

\* ensureSessionForThread: reuse the session, or start one.  It is also
\* restarted when the model or the directory of work has changed.
Ensure ==
  /\ calls[Reactor].pc = "ensure"
  /\ LET e == calls[Reactor].event IN
       \/ (~alive \/ ListSessionsDies) /\ Fail(Reactor) /\ UNCHANGED chosen
       \/ alive /\ ~ListSessionsDies /\ Reusable(e) /\ Proceed
       \/ /\ alive /\ ~ListSessionsDies
          /\ calls' = [calls EXCEPT ![Reactor].pc = "start", ![Reactor].at = Wanted(e),
                                    ![Reactor].mode = mode]
          /\ UNCHANGED chosen
  /\ UNCHANGED <<session, outcome, queue, live, orphans, binding, events, ingest, env>>

\* stopStaleSessionsForThread: the adapters' sessions are looked at one by one ...
StopStale(i) ==
  /\ calls[Reactor].pc = "record" /\ i \in calls[Reactor].stale
  /\ calls' = [calls EXCEPT ![Reactor].stale = @ \ {i}]
  /\ IF Live(i) THEN /\ live' = [live EXCEPT ![i] = NoSession]
                    /\ Reported(i, Completed(live[i].turn) \o Exited)
     ELSE UNCHANGED <<live, events>>
  /\ UNCHANGED <<session, outcome, queue, chosen, orphans, binding, ingest, env>>

\* ... then upsertSessionBinding.
RecordNewSession ==
  /\ calls[Reactor].pc = "record" /\ ~Recovering(Reactor) /\ calls[Reactor].stale = {}
  /\ binding' = Bound(Reactor)
  /\ Goto(Reactor, "bind")
  /\ UNCHANGED <<session, outcome, queue, chosen, live, orphans, events, ingest, env>>

\* bindSessionToThread
Bind ==
  /\ calls[Reactor].pc = "bind"
  /\ session' = Projected("ready", NoTurn, calls[Reactor].mode)
  /\ Proceed
  /\ UNCHANGED <<outcome, queue, live, orphans, binding, events, ingest, env>>

\* The rest of processSessionStopRequested.
SetStopped ==
  /\ calls[Reactor].pc = "setStopped"
  /\ session' = Projected("stopped", NoTurn, calls[Reactor].mode)
  /\ Return(Reactor)
  /\ UNCHANGED <<outcome, queue, chosen, live, orphans, binding, events, ingest, env>>

\* handleTurnStartFailure
Report(c) ==
  /\ calls[c].pc = "report"
  /\ outcome' = [outcome EXCEPT ![TurnOf(c)] = "reported"]
  /\ session' = IF alive /\ session # None
                THEN Projected(IF session.status = "stopped" THEN "stopped" ELSE "ready",
                               NoTurn, session.mode)
                ELSE session
  /\ Return(c)
  /\ UNCHANGED <<queue, chosen, live, orphans, binding, events, ingest, env>>

-----------------------------------------------------------------------------
(* ProviderService: startSession, also to recover a session.               *)

StartBeginsBug(c) ==  \* does not complete the turn of the session it stops
  /\ calls[c].pc = "start"
  /\ live' = [live EXCEPT ![calls[c].at] = NoSession]
  /\ Goto(c, "spawn")
  /\ UNCHANGED <<session, outcome, queue, chosen, orphans, binding, events, ingest, env>>

\* adapter.startSession first stops the session that is there ...
StartBegins(c) ==
  /\ calls[c].pc = "start"
  /\ LET i == calls[c].at IN
       /\ Reported(i, Completed(live[i].turn))
       /\ live' = [live EXCEPT ![i] = NoSession]
  /\ Goto(c, "spawn")
  /\ UNCHANGED <<session, outcome, queue, chosen, orphans, binding, ingest, env>>

\* ... and enters the new one when it is up, whatever has been entered since.
StartEnds(c) ==
  /\ calls[c].pc = "spawn"
  /\ LET i == calls[c].at IN
       /\ orphans' = [orphans EXCEPT ![i] = AtWork(i)]
       /\ live' = [live EXCEPT ![i] = Session(calls[c].mode)]
       /\ Reported(i, Started)
       /\ calls' = [calls EXCEPT ![c].pc = "record",
                                 ![c].stale = IF Recovering(c) THEN {} ELSE Instances \ {i}]
       /\ switched' = (switched \/ (binding # None /\ binding.at # i))
  /\ UNCHANGED <<session, outcome, queue, chosen, binding, ingest, client,
                 faults, crashed, clobbered, raced>>

StartFails(c) ==
  /\ calls[c].pc = "spawn" /\ Fault("start")
  /\ Fail(c)
  /\ UNCHANGED <<session, outcome, queue, chosen, live, orphans, binding, events, ingest,
                 client, crashed, observed>>

\* upsertSessionBinding, of a recovered session.
RecordRecovered(c) ==
  /\ calls[c].pc = "record" /\ Recovering(c)
  /\ binding' = Bound(c)
  /\ Goto(c, "deliver")
  /\ UNCHANGED <<session, outcome, queue, chosen, live, orphans, events, ingest, env>>

-----------------------------------------------------------------------------
(* ProviderService: sendTurn and interruptTurn                             *)

RouteBug(c) ==  \* recovers in the default mode
  /\ calls[c].pc = "route"
  /\ IF binding = None THEN Fail(c)
     ELSE calls' = [calls EXCEPT ![c].at = binding.at, ![c].mode = InitialMode,
                                 ![c].pc = IF Live(binding.at) THEN "deliver" ELSE "recover"]
  /\ UNCHANGED <<session, outcome, queue, chosen, live, orphans, binding, events, ingest, env>>

\* resolveRoutableSession, with recovery.
Route(c) ==
  /\ calls[c].pc = "route"
  /\ IF binding = None THEN Fail(c)
     ELSE calls' = [calls EXCEPT ![c].at = binding.at, ![c].mode = binding.mode,
                                 ![c].pc = IF Live(binding.at) THEN "deliver" ELSE "recover"]
  /\ UNCHANGED <<session, outcome, queue, chosen, live, orphans, binding, events, ingest, env>>

\* recoverSessionForThread: adopt a session, or resume.
Recover(c) ==
  /\ calls[c].pc = "recover"
  /\ LET i == calls[c].at IN
       IF Live(i) THEN calls' = [calls EXCEPT ![c].pc = "record", ![c].mode = live[i].mode]
       ELSE Goto(c, "start")
  /\ UNCHANGED <<session, outcome, queue, chosen, live, orphans, binding, events, ingest, env>>

\* adapter.sendTurn looks the session up and completes the turn that is there ...
SendBegins(t) ==
  /\ calls[Fiber(t)].pc = "deliver"
  /\ LET i == calls[Fiber(t)].at IN
       /\ Live(i)
       /\ Reported(i, Completed(live[i].turn))
       /\ live' = [live EXCEPT ![i].turn = NoTurn, ![i].sends = @ \cup {t}]
  /\ Goto(Fiber(t), "sending")
  /\ UNCHANGED <<session, outcome, queue, chosen, orphans, binding, ingest, env>>

\* ... waits for the agent to take model and permission mode, starts the turn in the
\* session that it holds, without another look at it ...
Holds(t, s) == s \in AtWork(calls[Fiber(t)].at) /\ t \in s.sends
Gone(t) == \A s \in AtWork(calls[Fiber(t)].at) : ~Holds(t, s)

Begin(t) ==
  LET i == calls[Fiber(t)].at IN
  /\ Reported(i, Begun(t))
  /\ \/ \E s \in AtWork(i) : /\ Holds(t, s)
                             /\ Continues(i, s, [s EXCEPT !.turn = t])
                             /\ raced' = raced \cup ({s.turn} \ {NoTurn})
     \/ Gone(t) /\ raced' = raced \cup {t} /\ UNCHANGED <<live, orphans>>

\* ... and offers the prompt.
Deliver(t) ==
  /\ calls[Fiber(t)].pc = "sending"
  /\ Begin(t)
  /\ outcome' = [outcome EXCEPT ![t] = "sent"]
  /\ Goto(Fiber(t), "recordTurn")
  /\ UNCHANGED <<session, queue, chosen, binding, ingest, client, faults, crashed,
                 clobbered, switched>>

\* There is no session; or it is gone meanwhile, the provider refuses or an
\* attachment cannot be read, be it before or after the turn was started.
DeliveryFails(t) ==
  /\ \/ /\ calls[Fiber(t)].pc = "deliver" /\ ~Live(calls[Fiber(t)].at)
        /\ UNCHANGED <<live, orphans, events, raced, faults>>
     \/ /\ calls[Fiber(t)].pc = "sending"
        /\ (Gone(t) /\ UNCHANGED faults) \/ Fault("deliver")
        /\ Begin(t) \/ UNCHANGED <<live, orphans, events, raced>>
  /\ Fail(Fiber(t))
  /\ UNCHANGED <<session, outcome, queue, chosen, binding, ingest, client, crashed,
                 clobbered, switched>>

RecordTurn(t) ==
  /\ calls[Fiber(t)].pc = "recordTurn"
  /\ binding' = [binding EXCEPT !.status = "running", !.at = calls[Fiber(t)].at, !.idle = FALSE]
  /\ Return(Fiber(t))
  /\ UNCHANGED <<session, outcome, queue, chosen, live, orphans, events, ingest, env>>

\* adapter.interruptTurn: the turn ends, if there is one.
Interrupt ==
  /\ calls[Reactor].pc = "deliver"
  /\ LET i == calls[Reactor].at IN
       /\ Reported(i, Completed(live[i].turn))
       /\ live' = IF Live(i) THEN [live EXCEPT ![i].turn = NoTurn] ELSE live
  /\ Return(Reactor)
  /\ UNCHANGED <<session, outcome, queue, chosen, orphans, binding, ingest, env>>

-----------------------------------------------------------------------------
(* ProviderService: stopSession, for reactor, deletion and reaper          *)

\* resolveRoutableSession, without recovery.
StopRoute(c) ==
  /\ calls[c].pc = "stopRoute"
  /\ IF binding = None THEN Return(c)
     ELSE calls' = [calls EXCEPT ![c].at = binding.at,
                                 ![c].pc = IF Live(binding.at) THEN "stop" ELSE "stopRecord"]
  /\ UNCHANGED <<session, outcome, queue, chosen, live, orphans, binding, events, ingest, env>>

\* adapter.stopSession, which fails when the session is gone.
StopAdapter(c) ==
  /\ calls[c].pc = "stop"
  /\ LET i == calls[c].at IN
       IF Live(i) THEN /\ live' = [live EXCEPT ![i] = NoSession]
                       /\ Reported(i, Completed(live[i].turn) \o Exited)
                       /\ Goto(c, "stopRecord")
       ELSE Return(c) /\ UNCHANGED <<live, events>>
  /\ UNCHANGED <<session, outcome, queue, chosen, orphans, binding, ingest, env>>

StopRecord(c) ==
  /\ calls[c].pc = "stopRecord"
  /\ binding' = [binding EXCEPT !.status = "stopped", !.at = calls[c].at, !.idle = FALSE]
  /\ IF c = Reactor THEN Goto(c, "setStopped") ELSE Return(c)
  /\ UNCHANGED <<session, outcome, queue, chosen, live, orphans, events, ingest, env>>

-----------------------------------------------------------------------------
(* ProviderSessionReaper                                                   *)

Sweep ==
  /\ calls[Reaper] = Idle
  /\ binding # None /\ binding.status # "stopped" /\ binding.idle
  /\ Goto(Reaper, "check")
  /\ UNCHANGED <<session, outcome, queue, chosen, live, orphans, binding, events, ingest, env>>

\* A thread that is shown with an active turn is left alone.
CheckTurn ==
  /\ calls[Reaper].pc = "check"
  /\ IF alive /\ session # None /\ session.turn # NoTurn
     THEN Return(Reaper) ELSE Goto(Reaper, "stopRoute")
  /\ UNCHANGED <<session, outcome, queue, chosen, live, orphans, binding, events, ingest, env>>

-----------------------------------------------------------------------------
(* ProviderRuntimeIngestion: the session's lifecycle.                      *)

IngestRead(i) ==
  /\ ingest = NotIngesting /\ events[i] # <<>>
  /\ events' = [events EXCEPT ![i] = Tail(@)]
  /\ ingest' = IF alive THEN [event |-> Head(events[i]), seen |-> session] ELSE NotIngesting
  /\ UNCHANGED <<session, outcome, queue, chosen, calls, live, orphans, binding, env>>

\* The session after an event, given the one before.
Applied(e, s) ==
  LET turn == IF s = None THEN NoTurn ELSE s.turn
      m == IF s = None THEN InitialMode ELSE s.mode
  IN CASE e.type = "turn.started" -> Projected("running", e.turn, m)
       [] e.type = "turn.completed" -> Projected("ready", NoTurn, m)
       [] e.type = "session.exited" -> Projected("stopped", NoTurn, m)
       [] e.type = "session.started" -> Projected("ready", turn, m)

ConflictsBug(e, s) ==  \* also those of the active turn
  e.type \in {"turn.started", "turn.completed"} /\ s # None /\ s.turn # NoTurn

\* Turn events of another turn than the active one change nothing.
Conflicts(e, s) ==
  /\ e.type \in {"turn.started", "turn.completed"}
  /\ s # None /\ s.turn \notin {NoTurn, e.turn}

IngestWrite ==
  /\ ingest # NotIngesting
  /\ session' = IF Conflicts(ingest.event, ingest.seen) THEN session
                ELSE Applied(ingest.event, ingest.seen)
  /\ ingest' = NotIngesting
  /\ clobbered' = (clobbered \/ session # ingest.seen)
  /\ UNCHANGED <<outcome, queue, chosen, calls, live, orphans, binding, events, client,
                 faults, crashed, switched, raced>>

-----------------------------------------------------------------------------
(* The agent, the clock and the server.                                    *)

TurnEnds(i, s) ==
  /\ s.turn # NoTurn
  /\ Continues(i, s, [s EXCEPT !.turn = NoTurn])
  /\ Reported(i, Completed(s.turn))
  /\ UNCHANGED <<session, outcome, queue, chosen, calls, binding, ingest, env>>

\* An agent that speaks without a turn, of work in the background, begins one.
OwnTurn(i, s) ==
  /\ s.turn = NoTurn /\ own < MaxOwn /\ Room(2)
  /\ own' = own + 1
  /\ Continues(i, s, [s EXCEPT !.turn = MaxTurns + own'])
  /\ Reported(i, Begun(MaxTurns + own'))
  /\ UNCHANGED <<session, outcome, queue, chosen, calls, binding, ingest, patient, alive, mode,
                 issued, faults, crashed, observed>>

\* The provider's process exits.
SessionExits(i) ==
  /\ Live(i) /\ Fault("exit")
  /\ live' = [live EXCEPT ![i] = NoSession]
  /\ Reported(i, Completed(live[i].turn) \o Exited)
  /\ UNCHANGED <<session, outcome, queue, chosen, calls, orphans, binding, ingest,
                 client, crashed, observed>>

\* Half an hour passes without a call that writes the binding.
IdleTime ==
  /\ Handled /\ binding # None /\ ~binding.idle
  /\ binding' = [binding EXCEPT !.idle = TRUE]
  /\ UNCHANGED <<session, outcome, queue, chosen, calls, live, orphans, events, ingest, env>>

\* The server goes down and comes up; the projections and the binding stay.
\* If it went down in order, runStopAll has marked the binding.
Restart ==
  /\ Fault("crash") /\ crashed' = TRUE
  /\ outcome' = [t \in Turns |-> IF outcome[t] = "requested" THEN "lost" ELSE outcome[t]]
  /\ queue' = <<>> /\ chosen' = NoInstance /\ calls' = [c \in Callers |-> Idle]
  /\ live' = [i \in Instances |-> NoSession] /\ orphans' = [i \in Instances |-> {}]
  /\ events' = [i \in Instances |-> <<>>] /\ ingest' = NotIngesting
  /\ \/ UNCHANGED binding
     \/ binding # None /\ binding' = [binding EXCEPT !.status = "stopped", !.idle = FALSE]
  /\ UNCHANGED <<session, client, observed>>

-----------------------------------------------------------------------------
User == \/ \E t \in Turns, i \in Instances : RequestTurn(t, i)
        \/ SetMode \/ RequestStop \/ RequestInterrupt \/ DeleteThread

ReactorStep == \/ Take \/ Ensure \/ RecordNewSession \/ Bind \/ SetStopped \/ Interrupt
               \/ \E i \in Instances : StopStale(i)

Call(c) == StartBegins(c) \/ StartEnds(c) \/ RecordRecovered(c) \/ Route(c) \/ Recover(c)
           \/ StopRoute(c) \/ StopAdapter(c) \/ StopRecord(c) \/ Report(c)

Send(t) == SendBegins(t) \/ Deliver(t) \/ DeliveryFails(t) \/ RecordTurn(t)

ReaperStep == Sweep \/ CheckTurn

Ingestion == (\E i \in Instances : IngestRead(i)) \/ IngestWrite

Agent == \E i \in Instances : \E s \in AtWork(i) : TurnEnds(i, s) \/ OwnTurn(i, s)

Next == \/ User \/ ReactorStep \/ ReaperStep \/ Ingestion \/ Agent \/ IdleTime \/ Restart
        \/ \E c \in Callers : Call(c) \/ StartFails(c)
        \/ \E t \in Turns : Send(t)
        \/ \E i \in Instances : SessionExits(i)

Spec == Init /\ [][Next]_vars

-----------------------------------------------------------------------------
\* Once everything is handled, a turn that the thread shows as active is one
\* that a provider works on: no thread is left busy with nothing.  (A server
\* that went down leaves its projected sessions as they were.)  Excepted are the
\* turns whose end nobody reports: sendTurn waits between the look at the session
\* and the start of its turn, which may come in a session that is over by then,
\* or take the place of a turn that began meanwhile.
NoPhantomTurn ==
  Handled /\ ~crashed /\ alive /\ session # None /\ session.turn # NoTurn =>
    \/ session.turn \in raced
    \/ \E i \in Instances : \E s \in AtWork(i) : session.turn = s.turn

\* A requested turn reaches a provider or is reported as failed: when nothing
\* is left to be done, none has been forgotten by the worker or by a fiber.
TurnsAreAnswered ==
  Handled /\ alive => \A t \in Turns : outcome[t] # "requested"

\* A requested turn that a provider works on is shown as active, so that the
\* reaper leaves its session alone, as long as the user waits for the server, no
\* turn has failed to start or has been overwritten, as above, and the thread has
\* stayed with its instance: the exit of the session it leaves is taken for an
\* exit of the one it has moved to.
RunningIsShown ==
  Handled /\ patient /\ ~switched /\ alive /\ ~crashed /\ raced = {}
  /\ (\A t \in Turns : outcome[t] # "reported") =>
    \A i \in Instances :
      live[i].turn \in Turns => session # None /\ session.turn = live[i].turn

\* When the user waits for the server, the runtime mode that the thread's
\* session shows is the mode its provider session is in, so that a change of
\* mode restarts it, whatever exits, is reaped or recovered meanwhile; but for
\* ingestion overwriting a session that the reactor has bound since it read.
ShownModeIsReal ==
  Handled /\ patient /\ ~clobbered /\ ~crashed /\ alive /\ Active =>
    \A i \in Instances : Live(i) => live[i].mode = session.mode

\* When the user waits for the server, a thread that shows no session, or a
\* stopped one, has none at work; but for a thread that has moved to another
\* instance, as above.
StoppedIsStopped ==
  Handled /\ patient /\ ~switched /\ alive /\ ~Active => \A i \in Instances : ~Live(i)

=============================================================================
