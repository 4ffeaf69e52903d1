--------------------------- MODULE TerminalSessions ---------------------------
(***************************************************************************)
(* terminal/Layers/Manager.ts: the sessions of the terminals, their shell  *)
(* processes, and the transcripts that outlive them in files.              *)
(*                                                                         *)
(* A session is an object: a call, or a fiber that drains the events of    *)
(* its process, can hold one that is in the manager's map no more.  The    *)
(* calls of a terminal run one at a time (withThreadLock; a terminal here  *)
(* is the one of its thread) and give way where they wait: for the worker  *)
(* that writes the files, for a file, for the shell to be spawned.  There  *)
(* a lost connection can also interrupt them.  A draining fiber runs as    *)
(* long as there is output and may give way at any step.                   *)
(*                                                                         *)
(* A piece of output is a number and a transcript the sequence of them,    *)
(* which capHistory does not cut here.  A missing file reads as an empty   *)
(* one.  The worker that writes the files is a KeyedCoalescingWorker,      *)
(* reduced to what that module shows of it: it writes one key at a time    *)
(* and always the latest value, and a drain of a key waits for both.       *)
(***************************************************************************)
EXTENDS Integers, FiniteSets, SequencesExt

CONSTANTS
  Terminals,
  MaxRetained,  \* maxRetainedInactiveSessions
  MaxSessions, MaxProcesses, MaxOutputs, MaxCalls, MaxFibers  \* bounds

ASSUME TerminalAssumption ==
  /\ MaxRetained \in Nat
  /\ MaxSessions \in Nat /\ MaxProcesses \in Nat /\ MaxOutputs \in Nat
  /\ MaxCalls \in Nat /\ MaxFibers \in Nat

None == 0
Sessions == 1 .. MaxSessions
Processes == 1 .. MaxProcesses
Fibers == 1 .. MaxFibers
Exit == 0  \* the event that the process has exited; the others are outputs

VARIABLES
  sessions,  \* the manager's map: the session of each terminal
  session,   \* the session objects
  recent,    \* the terminals in the map by updatedAt, the latest last
  process,   \* the processes: "none", "alive" or "dead"
  killing,   \* the processes with a kill escalation
  fiber,     \* the fibers that drain a session's events
  call,      \* the call of each terminal that holds its lock
  file,      \* the transcript in its file
  queued,    \* the persist worker: what is to be written of each terminal,
  writing,   \* and what is being written
  counts,    \* how many calls, sessions, processes and outputs there have been
  kept,      \* observation: the transcript of a terminal without a session
  stale,     \* observation: terminals whose transcript was persisted out of date
  dropped,   \* observation: processes whose exit was discarded unread
  displaced  \* observation: sessions evicted while a call was to start them

manager == <<sessions, session, recent, kept, displaced>>
store == <<file, queued, writing, stale>>
vars == <<manager, process, killing, fiber, call, store, counts, dropped>>

NoSession == [terminal |-> None, status |-> "none", process |-> None, history |-> <<>>,
              events |-> <<>>, draining |-> FALSE]
NoFiber == [pc |-> "none", session |-> None, process |-> None, history |-> <<>>]
NoCall == [pc |-> "idle", session |-> None]
Nothing == [is |-> FALSE, history |-> <<>>]
Value(history) == [is |-> TRUE, history |-> history]

Init ==
  /\ sessions = [t \in Terminals |-> None] /\ session = [s \in Sessions |-> NoSession]
  /\ recent = <<>>
  /\ process = [p \in Processes |-> "none"] /\ killing = {}
  /\ fiber = [f \in Fibers |-> NoFiber] /\ call = [t \in Terminals |-> NoCall]
  /\ file = [t \in Terminals |-> <<>>]
  /\ queued = [t \in Terminals |-> Nothing] /\ writing = [t \in Terminals |-> Nothing]
  /\ counts = [calls |-> 0, sessions |-> 0, processes |-> 0, outputs |-> 0]
  /\ kept = [t \in Terminals |-> <<>>]
  /\ stale = {} /\ dropped = {} /\ displaced = {}

-----------------------------------------------------------------------------
(* The map and its objects                                                 *)

\* (Variants named ...Bug stand for plausible mistakes; nothing here uses them.)
QuietedBug(object) == [object EXCEPT !.events = <<>>]  \* leaves the mark of the fiber

\* clear, stopProcess and startSession discard the events that wait.
Quieted(object) == [object EXCEPT !.events = <<>>, !.draining = FALSE]
Cleared(object) == Quieted([object EXCEPT !.history = <<>>])
Stopped(object) ==
  IF object.process = None THEN object
  ELSE Quieted([object EXCEPT !.process = None, !.status = "exited"])

Transcript(t) == IF sessions[t] = None THEN kept[t] ELSE session[sessions[t]].history

ExcessBug(map, objects, order) ==  \* counts a session that runs as inactive
  LET present == {t \in Terminals : map[t] # None}
      Before(t, u) == \E i, j \in DOMAIN order : i < j /\ order[i] = t /\ order[j] = u
  IN {t \in present : Cardinality({u \in present : Before(t, u)}) >= MaxRetained}

\* evictInactiveSessionsIfNeeded: the sessions that do not run, those being started
\* among them, but for the MaxRetained that changed last.
Excess(map, objects, order) ==
  LET inactive == {t \in Terminals : map[t] # None /\ objects[map[t]].status # "running"}
      Before(t, u) == \E i, j \in DOMAIN order : i < j /\ order[i] = t /\ order[j] = u
  IN {t \in inactive : Cardinality({u \in inactive : Before(t, u)}) >= MaxRetained}

\* The sessions that the calls, as this step leaves them, are going to start.
ToStart == {call'[t].session : t \in {u \in Terminals : call'[u].pc \in {"renew", "spawn"}}}

Keep(map, objects, order) ==
  /\ sessions' = map /\ session' = objects /\ recent' = order
  /\ UNCHANGED <<kept, displaced>>

Evict(map, objects, order) ==
  LET excess == Excess(map, objects, order)
  IN /\ sessions' = [t \in Terminals |-> IF t \in excess THEN None ELSE map[t]]
     /\ session' = objects
     /\ recent' = SelectSeq(order, LAMBDA t : t \notin excess)
     /\ kept' = [t \in Terminals |-> IF t \in excess THEN objects[map[t]].history ELSE kept[t]]
     /\ displaced' = displaced \cup ({map[t] : t \in excess} \cap ToStart)

\* updatedAt is now.
Latest(s) ==
  LET t == session[s].terminal
  IN IF sessions[t] = s THEN Append(Remove(recent, t), t) ELSE recent

\* stopProcess lets the process go and starts to kill it, with SIGTERM and, after a
\* grace period, SIGKILL.
Kill(s) == killing \cup {p \in Processes : p = session[s].process /\ process[p] = "alive"}

-----------------------------------------------------------------------------
(* The persist worker                                                      *)

DrainedBug(t) == ~queued[t].is  \* does not wait for the write

Drained(t) == ~queued[t].is /\ ~writing[t].is

\* history is the transcript that t has after this step.
Persist(t, history) ==
  /\ queued' = [queued EXCEPT ![t] = Value(history)] /\ stale' = stale \ {t}
  /\ UNCHANGED <<file, writing>>

WriteBegins(t) ==
  /\ queued[t].is /\ \A u \in Terminals : ~writing[u].is
  /\ writing' = [writing EXCEPT ![t] = queued[t]]
  /\ queued' = [queued EXCEPT ![t] = Nothing]
  /\ UNCHANGED <<manager, process, killing, fiber, call, file, stale, counts, dropped>>

WriteEnds(t) ==
  /\ writing[t].is
  /\ file' = [file EXCEPT ![t] = writing[t].history]
  /\ writing' = [writing EXCEPT ![t] = Nothing]
  /\ UNCHANGED <<manager, process, killing, fiber, call, queued, stale, counts, dropped>>

-----------------------------------------------------------------------------
(* Calls                                                                   *)

Begin(t, pc, s) ==
  /\ call[t].pc = "idle" /\ counts.calls < MaxCalls
  /\ call' = [call EXCEPT ![t] = [pc |-> pc, session |-> s]]
Return(t) == call' = [call EXCEPT ![t] = NoCall]
Proceed(t, pc, s) == call' = [call EXCEPT ![t] = [pc |-> pc, session |-> s]]
Count(what) == counts' = [counts EXCEPT ![what] = @ + 1]

\* A new session enters the map; what it exceeds leaves it.
Create(t, history) ==
  LET s == counts.sessions + 1
  IN Evict([sessions EXCEPT ![t] = s],
           [session EXCEPT ![s] = [NoSession EXCEPT !.terminal = t, !.status = "starting",
                                                    !.history = history]],
           Append(recent, t))

\* open without a session: flushPersist, then readHistory.
Open(t) ==
  /\ sessions[t] = None /\ counts.sessions < MaxSessions
  /\ Begin(t, "open", None) /\ Count("calls")
  /\ UNCHANGED <<manager, process, killing, fiber, store, dropped>>

Opened(t) ==
  /\ call[t].pc = "open" /\ Drained(t) /\ counts.sessions < MaxSessions
  /\ Proceed(t, "spawn", counts.sessions + 1) /\ Count("sessions")
  /\ Create(t, file[t])
  /\ stale' = stale \ {t}
  /\ UNCHANGED <<process, killing, fiber, file, queued, writing, dropped>>

\* restart without a session.
RestartNew(t) ==
  /\ sessions[t] = None /\ counts.sessions < MaxSessions
  /\ Begin(t, "renew", counts.sessions + 1)
  /\ counts' = [counts EXCEPT !.calls = @ + 1, !.sessions = @ + 1]
  /\ Create(t, <<>>) /\ Persist(t, <<>>)
  /\ UNCHANGED <<process, killing, fiber, dropped>>

\* restart, open in another directory or environment, and open of a session that has
\* ended: the process is stopped, the transcript emptied and persisted.
Renew(t) ==
  LET s == sessions[t]
      objects == [session EXCEPT ![s] = Cleared(Stopped(@))]
  IN /\ s # None
     /\ Begin(t, "renew", s) /\ Count("calls")
     /\ killing' = Kill(s)
     /\ IF session[s].process # None THEN Evict(sessions, objects, Latest(s))
        ELSE Keep(sessions, objects, recent)
     /\ Persist(t, <<>>)
     /\ UNCHANGED <<process, fiber, dropped>>

\* startSession, once the transcript is in its file.
Starting(t, s) ==
  /\ Proceed(t, "spawn", s)
  /\ Keep(sessions, [session EXCEPT ![s] = Quieted([@ EXCEPT !.status = "starting"])], Latest(s))
  /\ UNCHANGED <<process, killing, fiber, store, dropped>>

Renewed(t) ==
  /\ call[t].pc = "renew" /\ Drained(t)
  /\ Starting(t, call[t].session) /\ UNCHANGED counts

\* open of a session that an interrupted call has left without a process.
OpenLeft(t) ==
  /\ sessions[t] # None /\ session[sessions[t]].status = "starting"
  /\ Begin(t, "spawn", sessions[t]) /\ Count("calls")
  /\ Starting(t, sessions[t])

Spawned(t) ==
  LET s == call[t].session
      p == counts.processes + 1
  IN /\ call[t].pc = "spawn" /\ counts.processes < MaxProcesses
     /\ Return(t) /\ Count("processes")
     /\ process' = [process EXCEPT ![p] = "alive"]
     /\ Keep(sessions, [session EXCEPT ![s].process = p, ![s].status = "running"], Latest(s))
     /\ UNCHANGED <<killing, fiber, store, dropped>>

SpawnFails(t) ==
  LET s == call[t].session
  IN /\ call[t].pc = "spawn"
     /\ Return(t)
     /\ Evict(sessions, [session EXCEPT ![s] = Quieted([@ EXCEPT !.status = "error"])], Latest(s))
     /\ UNCHANGED <<process, killing, fiber, store, counts, dropped>>

\* The events discarded with the transcript may hold the exit of the process.
Unread(s) == {p \in Processes : p = session[s].process /\ Exit \in Range(session[s].events)}

Clear(t) ==
  LET s == sessions[t]
  IN /\ s # None
     /\ Begin(t, "clear", s) /\ Count("calls")
     /\ Keep(sessions, [session EXCEPT ![s] = Cleared(@)], Latest(s))
     /\ Persist(t, <<>>)
     /\ dropped' = dropped \cup Unread(s)
     /\ UNCHANGED <<process, killing, fiber>>

ClearEnds(t) ==
  /\ call[t].pc = "clear" /\ Drained(t)
  /\ Return(t)
  /\ UNCHANGED <<manager, process, killing, fiber, store, counts, dropped>>

\* closeSession, with deleteHistoryOnClose ("delete") or without it ("close").
Close(t, pc) ==
  LET s == sessions[t]
      objects == [session EXCEPT ![s] = Stopped(@)]
  IN /\ Begin(t, pc, s) /\ Count("calls")
     /\ IF s = None THEN UNCHANGED <<manager, killing, store>>
        ELSE /\ killing' = Kill(s) /\ Persist(t, session[s].history)
             /\ IF session[s].process # None THEN Evict(sessions, objects, Latest(s))
                ELSE UNCHANGED manager
     /\ UNCHANGED <<process, fiber, dropped>>

Closed(t) ==
  LET deletes == call[t].pc = "delete"
  IN /\ call[t].pc \in {"close", "delete"} /\ Drained(t)
     /\ Return(t)
     /\ sessions' = [sessions EXCEPT ![t] = None] /\ recent' = Remove(recent, t)
     /\ kept' = [kept EXCEPT ![t] = IF deletes THEN <<>> ELSE Transcript(t)]
     /\ file' = IF deletes THEN [file EXCEPT ![t] = <<>>] ELSE file
     /\ stale' = IF deletes THEN stale \ {t} ELSE stale
     /\ UNCHANGED <<session, displaced, process, killing, fiber, queued, writing, counts, dropped>>

\* close of a thread, with deleteHistory, when it has no session: the files go at once,
\* and what the worker has of them is written afterwards.
DeleteThread(t) ==
  /\ sessions[t] = None /\ call[t].pc = "idle" /\ counts.calls < MaxCalls
  /\ Count("calls")
  /\ kept' = [kept EXCEPT ![t] = <<>>] /\ file' = [file EXCEPT ![t] = <<>>]
  /\ stale' = IF Drained(t) THEN stale \ {t} ELSE stale \cup {t}
  /\ UNCHANGED <<sessions, session, recent, displaced, process, killing, fiber, call, queued,
                 writing, dropped>>

\* The connection of the caller is lost while the call waits.
Interrupt(t) ==
  /\ call[t].pc # "idle"
  /\ Return(t)
  /\ UNCHANGED <<manager, process, killing, fiber, store, counts, dropped>>

-----------------------------------------------------------------------------
(* Processes and the fibers that drain their events                        *)

Drains(f, s, p) == fiber[f].pc # "none" /\ fiber[f].session = s /\ fiber[f].process = p

Free == {f \in Fibers : fiber[f].pc = "none"}

\* enqueueProcessEvent, and the fiber that its caller starts.
Enqueue(s, event) ==
  /\ session' = [session EXCEPT ![s].events = Append(@, event), ![s].draining = TRUE]
  /\ \/ session[s].draining /\ UNCHANGED fiber
     \/ /\ ~session[s].draining
        /\ \E f \in Free : /\ \A g \in Free : f <= g
                           /\ fiber' = [fiber EXCEPT ![f] = [NoFiber EXCEPT
                                !.pc = "take", !.session = s, !.process = session[s].process]]

Output(s) ==
  /\ session[s].process # None /\ process[session[s].process] = "alive"
  /\ counts.outputs < MaxOutputs
  /\ Enqueue(s, counts.outputs + 1) /\ Count("outputs")
  /\ UNCHANGED <<sessions, recent, kept, displaced, process, killing, call, store, dropped>>

\* The events of a process that has been let go are ignored.
Exits(p) ==
  /\ process[p] = "alive"
  /\ process' = [process EXCEPT ![p] = "dead"] /\ killing' = killing \ {p}
  /\ IF \E s \in Sessions : session[s].process = p
     THEN \E s \in Sessions : session[s].process = p /\ Enqueue(s, Exit)
     ELSE UNCHANGED <<session, fiber>>
  /\ UNCHANGED <<sessions, recent, kept, displaced, call, store, counts, dropped>>

\* The session is no longer of this process, or nothing waits: the fiber ends, and
\* leaves the session with no event and no fiber either way.
TakeNothing(f) ==
  LET s == fiber[f].session
  IN /\ fiber[f].pc = "take"
     /\ session[s].process # fiber[f].process \/ session[s].events = <<>>
     /\ session' = [session EXCEPT ![s] = Quieted(@)]
     /\ fiber' = [fiber EXCEPT ![f] = NoFiber]
     /\ dropped' = dropped \cup Unread(s)
     /\ UNCHANGED <<sessions, recent, kept, displaced, process, killing, call, store, counts>>

TakeOutput(f) ==
  LET s == fiber[f].session
      events == session[s].events
      history == Append(session[s].history, Head(events))
  IN /\ fiber[f].pc = "take" /\ session[s].process = fiber[f].process
     /\ events # <<>> /\ Head(events) # Exit
     /\ Keep(sessions, [session EXCEPT ![s].events = Tail(events), ![s].history = history],
             Latest(s))
     /\ fiber' = [fiber EXCEPT ![f].pc = "persist", ![f].history = history]
     /\ UNCHANGED <<process, killing, call, store, counts, dropped>>

\* queuePersist of the transcript as it was when the output was taken.
PersistOutput(f) ==
  LET t == session[fiber[f].session].terminal
  IN /\ fiber[f].pc = "persist"
     /\ queued' = [queued EXCEPT ![t] = Value(fiber[f].history)]
     /\ stale' = IF fiber[f].history = Transcript(t) THEN stale \ {t} ELSE stale \cup {t}
     /\ fiber' = [fiber EXCEPT ![f].pc = "take", ![f].history = <<>>]
     /\ UNCHANGED <<manager, process, killing, call, file, writing, counts, dropped>>

TakeExit(f) ==
  LET s == fiber[f].session
      events == session[s].events
  IN /\ fiber[f].pc = "take" /\ session[s].process = fiber[f].process
     /\ events # <<>> /\ Head(events) = Exit
     /\ Keep(sessions, [session EXCEPT ![s] = Stopped(@)], Latest(s))
     /\ fiber' = [fiber EXCEPT ![f].pc = "evict"]
     /\ UNCHANGED <<process, killing, call, store, counts, dropped>>

EvictAfterExit(f) ==
  /\ fiber[f].pc = "evict"
  /\ fiber' = [fiber EXCEPT ![f] = NoFiber]
  /\ UNCHANGED call /\ Evict(sessions, session, recent)
  /\ UNCHANGED <<process, killing, store, counts, dropped>>

-----------------------------------------------------------------------------

Next ==
  \/ \E t \in Terminals :
       \/ Open(t) \/ Opened(t) \/ RestartNew(t) \/ Renew(t) \/ Renewed(t) \/ OpenLeft(t)
       \/ Spawned(t) \/ SpawnFails(t) \/ Clear(t) \/ ClearEnds(t)
       \/ (\E pc \in {"close", "delete"} : Close(t, pc)) \/ Closed(t) \/ DeleteThread(t)
       \/ Interrupt(t)
       \/ WriteBegins(t) \/ WriteEnds(t)
  \/ \E s \in Sessions : Output(s)
  \/ \E p \in Processes : Exits(p)
  \/ \E f \in Fibers :
       TakeNothing(f) \/ TakeOutput(f) \/ PersistOutput(f) \/ TakeExit(f) \/ EvictAfterExit(f)

Spec == Init /\ [][Next]_vars

-----------------------------------------------------------------------------
(* Properties                                                              *)

Objects == [terminal : Terminals \cup {None}, process : Processes \cup {None},
            status : {"none", "starting", "running", "exited", "error"},
            history : Seq(Nat), events : Seq(Nat), draining : BOOLEAN]
Values == [is : BOOLEAN, history : Seq(Nat)]

\* Type correctness, but for recent: eviction may take the sessions in any order.
TypeOK ==
  /\ sessions \in [Terminals -> Sessions \cup {None}] /\ session \in [Sessions -> Objects]
  /\ process \in [Processes -> {"none", "alive", "dead"}] /\ killing \subseteq Processes
  /\ fiber \in [Fibers -> [pc : {"none", "take", "persist", "evict"}, history : Seq(Nat),
                          session : Sessions \cup {None}, process : Processes \cup {None}]]
  /\ call \in [Terminals -> [pc : {"idle", "open", "renew", "spawn", "clear", "close", "delete"},
                            session : Sessions \cup {None}]]
  /\ file \in [Terminals -> Seq(Nat)] /\ kept \in [Terminals -> Seq(Nat)]
  /\ queued \in [Terminals -> Values] /\ writing \in [Terminals -> Values]
  /\ counts \in [calls : Nat, sessions : 0 .. MaxSessions, processes : 0 .. MaxProcesses,
                 outputs : Nat]
  /\ stale \subseteq Terminals /\ dropped \subseteq Processes /\ displaced \subseteq Sessions

\* No shell is lost: a living process is that of a session in the map, where close and
\* restart find it, or it is being killed.  The exception is a session that was evicted
\* between two steps of the call that starts it (Manager.ts:1131 counts it inactive).
NoneAtLarge ==
  \A p \in Processes : process[p] = "alive" =>
    \/ p \in killing
    \/ \E t \in Terminals : sessions[t] # None /\ session[sessions[t]].process = p
    \/ \E s \in displaced : session[s].process = p

\* No output of t that a fiber has taken waits to be handed to the persist worker.
NonePending(t) ==
  \A f \in Fibers : fiber[f].pc = "persist" => session[fiber[f].session].terminal # t

\* The file of a terminal at rest holds what the terminal shows, or showed when it was
\* closed or evicted, which the next open reads back: unless the last value handed to
\* the worker was out of date, the output of a fiber overtaken by a clear, a close or
\* another fiber (Manager.ts:1236), or what was queued when a thread without a session
\* was deleted (Manager.ts:1890).
TranscriptIsStored ==
  \A t \in Terminals : Drained(t) /\ NonePending(t) /\ t \notin stale => file[t] = Transcript(t)

Notices(s) ==
  LET p == session[s].process
  IN p # None =>
       /\ process[p] = "dead" /\ p \notin dropped => Exit \in Range(session[s].events)
       /\ session[s].events # <<>> => \E f \in Fibers : Drains(f, s, p)

\* A session that shows a dead process as running finds out: the exit waits among its
\* events and a fiber of this process is at work on them, unless the exit was discarded
\* by a clear (Manager.ts:1784) or by the fiber of an earlier process (Manager.ts:1165).
DeathIsNoticed == \A s \in Sessions : Notices(s)

=============================================================================
