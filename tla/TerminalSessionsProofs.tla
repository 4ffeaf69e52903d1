------------------------ MODULE TerminalSessionsProofs ------------------------
(***************************************************************************)
(* Proofs about TerminalSessions.  How eviction chooses plays no part in   *)
(* them: what they need of a step of the manager is Sheds, that whatever   *)
(* leaves the map does not run and, if a call is going to start it, is     *)
(* marked as displaced.                                                    *)
(***************************************************************************)
EXTENDS TerminalSessions, TLAPS

USE TerminalAssumption

\* The map and the objects become map and objects, but for sessions that do not run.
Sheds(map, objects) ==
  /\ session' = objects
  /\ sessions' \in [Terminals -> Sessions \cup {None}]
  /\ displaced \subseteq displaced' /\ displaced' \subseteq displaced \cup Sessions
  /\ kept' = [t \in Terminals |->
                IF sessions'[t] = map[t] THEN kept[t] ELSE objects[map[t]].history]
  /\ \A t \in Terminals : sessions'[t] # map[t] =>
       /\ sessions'[t] = None /\ map[t] # None
       /\ objects[map[t]].status # "running"
       /\ map[t] \in ToStart => map[t] \in displaced'

\* A step that keeps all of the map, of the sessions, is such a step.
LEMMA KeepSheds ==
  ASSUME TypeOK, NEW objects, NEW order, Keep(sessions, objects, order)
  PROVE  Sheds(sessions, objects)
BY DEF TypeOK, Keep, Sheds

\* An eviction is such a step, too.
LEMMA EvictSheds ==
  ASSUME TypeOK, NEW map \in [Terminals -> Sessions \cup {None}], NEW objects, NEW order,
         Evict(map, objects, order)
  PROVE  Sheds(map, objects)
<1> DEFINE excess == Excess(map, objects, order)
<1>1. excess \subseteq {t \in Terminals : map[t] # None /\ objects[map[t]].status # "running"}
  BY DEF Excess
<1>2. /\ sessions' = [t \in Terminals |-> IF t \in excess THEN None ELSE map[t]]
      /\ session' = objects
      /\ kept' = [t \in Terminals |-> IF t \in excess THEN objects[map[t]].history ELSE kept[t]]
      /\ displaced' = displaced \cup ({map[t] : t \in excess} \cap ToStart)
  BY DEF Evict
<1> HIDE DEF excess
<1>3. \A t \in Terminals : t \in excess <=> sessions'[t] # map[t]
  BY <1>1, <1>2
<1> QED
  BY <1>1, <1>2, <1>3 DEF Sheds

\* The parts of TypeOK.
ManagerTypes ==
  /\ sessions \in [Terminals -> Sessions \cup {None}] /\ session \in [Sessions -> Objects]
  /\ kept \in [Terminals -> Seq(Nat)] /\ displaced \subseteq Sessions
StoreTypes ==
  /\ file \in [Terminals -> Seq(Nat)] /\ stale \subseteq Terminals
  /\ queued \in [Terminals -> Values] /\ writing \in [Terminals -> Values]
ProcessTypes ==
  /\ process \in [Processes -> {"none", "alive", "dead"}]
  /\ killing \subseteq Processes /\ dropped \subseteq Processes
FiberTypes ==
  fiber \in [Fibers -> [pc : {"none", "take", "persist", "evict"}, history : Seq(Nat),
                        session : Sessions \cup {None}, process : Processes \cup {None}]]
CallTypes ==
  call \in [Terminals -> [pc : {"idle", "open", "renew", "spawn", "clear", "close", "delete"},
                          session : Sessions \cup {None}]]
CountTypes ==
  counts \in [calls : Nat, sessions : 0 .. MaxSessions, processes : 0 .. MaxProcesses,
              outputs : Nat]

\* They make up TypeOK, before and after a step.
LEMMA TypeParts ==
  /\ TypeOK <=> /\ ManagerTypes /\ StoreTypes /\ ProcessTypes
               /\ FiberTypes /\ CallTypes /\ CountTypes
  /\ TypeOK' <=> /\ ManagerTypes' /\ StoreTypes' /\ ProcessTypes'
                /\ FiberTypes' /\ CallTypes' /\ CountTypes'
BY DEF TypeOK, ManagerTypes, StoreTypes, ProcessTypes, FiberTypes, CallTypes, CountTypes

\* What is handed to the persist worker has the type of what is there.
LEMMA PersistTypes ==
  ASSUME TypeOK, NEW t \in Terminals, NEW history \in Seq(Nat), Persist(t, history)
  PROVE  StoreTypes'
<1>1. Value(history) \in Values
  BY DEF Value, Values
<1> QED
  BY <1>1 DEF TypeOK, StoreTypes, Persist

\* The types of what a step of the manager changes.
LEMMA ShedTypes ==
  ASSUME TypeOK, NEW map \in [Terminals -> Sessions \cup {None}],
         NEW objects \in [Sessions -> Objects], Sheds(map, objects)
  PROVE  ManagerTypes'
<1>1. \A t \in Terminals : sessions'[t] # map[t] => objects[map[t]].history \in Seq(Nat)
  BY DEF Sheds, TypeOK, Objects, None, Sessions
<1> QED
  BY <1>1 DEF Sheds, TypeOK, ManagerTypes

\* An object whose events are discarded stays of its type.
LEMMA QuietedType ==
  ASSUME NEW o \in Objects
  PROVE  Quieted(o) \in Objects
<1> DEFINE empty == <<>>
           r == [o EXCEPT !.events = empty]
<1>1. empty \in Seq(Nat)
  OBVIOUS
<1> HIDE DEF empty
<1>2. r \in Objects
  BY <1>1 DEF Objects
<1> HIDE DEF r
<1>3. [r EXCEPT !.draining = FALSE] \in Objects
  BY <1>2 DEF Objects
<1> QED
  BY <1>3 DEF Quieted, r, empty

\* The objects of the sessions stay of their type, whatever is done to them.
LEMMA ObjectTypes ==
  ASSUME NEW o \in Objects
  PROVE  /\ Quieted(o) \in Objects /\ Cleared(o) \in Objects /\ Stopped(o) \in Objects
         /\ Quieted(o).terminal = o.terminal /\ Cleared(o).terminal = o.terminal
         /\ Stopped(o).terminal = o.terminal
         /\ Quieted(o).events = <<>> /\ ~Quieted(o).draining
         /\ Quieted(o).process = o.process /\ Quieted(o).status = o.status
         /\ Quieted(o).history = o.history
         /\ Cleared(o).events = <<>> /\ ~Cleared(o).draining
         /\ Cleared(o).process = o.process /\ Cleared(o).status = o.status
         /\ Cleared(o).history = <<>>
         /\ Stopped(o).process = None /\ Stopped(o).history = o.history
         /\ o.process = None => Stopped(o) = o
         /\ o.process # None => Stopped(o).status = "exited" /\ Stopped(o).events = <<>>
                                /\ ~Stopped(o).draining
<1>1. Cleared(o) \in Objects
  <2> DEFINE empty == <<>>
             r == [o EXCEPT !.history = empty]
  <2>1. empty \in Seq(Nat)
    OBVIOUS
  <2> HIDE DEF empty
  <2>2. r \in Objects
    BY <2>1 DEF Objects
  <2> HIDE DEF r
  <2>3. Quieted(r) \in Objects
    BY <2>2, QuietedType
  <2> QED
    BY <2>3 DEF Cleared, r, empty
<1>2. Stopped(o) \in Objects
  <2> DEFINE r == [o EXCEPT !.process = None, !.status = "exited"]
  <2>1. r \in Objects
    BY DEF Objects
  <2> HIDE DEF r
  <2>2. Quieted(r) \in Objects
    BY <2>1, QuietedType
  <2> QED
    BY <2>2 DEF Stopped, r
<1>3. Quieted(o) \in Objects
  BY QuietedType
<1> QED
  BY <1>1, <1>2, <1>3 DEF Objects, Quieted, Cleared, Stopped

-----------------------------------------------------------------------------
(* Types                                                                   *)

\* An empty transcript has the type of a transcript.
LEMMA EmptyPersistTypes ==
  ASSUME TypeOK, NEW t \in Terminals, Persist(t, <<>>)
  PROVE  StoreTypes'
<1>1. <<>> \in Seq(Nat)
  OBVIOUS
<1> QED
  BY <1>1, PersistTypes

\* A call that begins is counted.
LEMMA CallCounts ==
  ASSUME CountTypes, counts' = [counts EXCEPT !.calls = @ + 1]
  PROVE  /\ CountTypes' /\ counts'.sessions = counts.sessions
         /\ counts'.processes = counts.processes
BY DEF CountTypes

\* Initially.
LEMMA TypeInit == Init => TypeOK
<1> SUFFICES ASSUME Init PROVE TypeOK
  OBVIOUS
<1>1. NoSession \in Objects
  BY DEF NoSession, Objects, None
<1> QED
  BY <1>1 DEF Init, TypeOK, NoFiber, NoCall, Nothing, Values, None

-----------------------------------------------------------------------------
(* The inductive invariant                                                 *)

\* A session in the map is one that was created, for its terminal.
MapIsOfTerminals ==
  \A t \in Terminals : sessions[t] # None =>
    sessions[t] <= counts.sessions /\ session[sessions[t]].terminal = t

\* A session that was created is that of a terminal.
AreOfTerminals == \A s \in Sessions : s <= counts.sessions => session[s].terminal \in Terminals

\* Sessions and processes are taken in order.
RestIsNew ==
  /\ \A s \in Sessions : s > counts.sessions => session[s] = NoSession
  /\ \A p \in Processes : p > counts.processes => process[p] = "none"

\* A session with a process shows it as running, and no other session has this process.
ProcessesRun ==
  \A s \in Sessions : session[s].process # None =>
    session[s].status = "running" /\ process[session[s].process] # "none"
ProcessesAreSingle ==
  \A r, s \in Sessions :
    session[r].process # None /\ session[r].process = session[s].process => r = s

\* What the lock of a terminal keeps for the call that holds it.
CallHolds(t) ==
  LET s == call[t].session
  IN /\ call[t].pc = "open" => sessions[t] = None
     /\ call[t].pc \in {"renew", "spawn"} =>
          /\ s # None /\ s <= counts.sessions
          /\ session[s].terminal = t /\ session[s].process = None
          /\ sessions[t] = s \/ s \in displaced
     /\ call[t].pc \in {"close", "delete"} /\ sessions[t] # None =>
          session[sessions[t]].process = None
CallsHold == \A t \in Terminals : CallHolds(t)

FibersHold ==
  \A f \in Fibers : fiber[f].pc # "none" =>
    fiber[f].session # None /\ fiber[f].session <= counts.sessions

\* Where events wait a fiber is at work, and an exit among them is that of the process.
AreDrained(s) ==
  LET p == session[s].process
  IN /\ session[s].events # <<>> => session[s].draining
     /\ session[s].draining =>
          p # None /\ \E f \in Fibers : Drains(f, s, p) /\ fiber[f].pc \in {"take", "persist"}
     /\ p # None /\ Exit \in Range(session[s].events) => process[p] = "dead"
EventsAreDrained == \A s \in Sessions : AreDrained(s)

\* The last transcript of t that was handed to the persist worker.
Handed(t) ==
  IF queued[t].is THEN queued[t].history
  ELSE IF writing[t].is THEN writing[t].history ELSE file[t]

HandedIsShown ==
  \A t \in Terminals : NonePending(t) /\ t \notin stale => Handed(t) = Transcript(t)

MapInv == MapIsOfTerminals /\ AreOfTerminals /\ RestIsNew /\ ProcessesRun /\ ProcessesAreSingle
Inv ==
  /\ TypeOK /\ MapInv /\ CallsHold /\ FibersHold /\ EventsAreDrained
  /\ NoneAtLarge /\ DeathIsNoticed /\ HandedIsShown

\* It holds initially.
LEMMA InvInit == Init => Inv
<1> SUFFICES ASSUME Init PROVE Inv
  OBVIOUS
<1>1. TypeOK
  BY TypeInit
<1>2. MapInv
  BY DEF Init, MapInv, MapIsOfTerminals, AreOfTerminals, Sessions, RestIsNew, ProcessesRun, ProcessesAreSingle, NoSession
<1>3. CallsHold /\ FibersHold
  BY DEF Init, CallsHold, CallHolds, FibersHold, NoCall, NoFiber
<1>4. EventsAreDrained /\ NoneAtLarge /\ DeathIsNoticed
  BY DEF Init, EventsAreDrained, AreDrained, NoneAtLarge, DeathIsNoticed, Notices, NoSession, Range
<1>5. HandedIsShown
  BY DEF Init, HandedIsShown, Handed, Transcript, Nothing
<1> QED
  BY <1>1, <1>2, <1>3, <1>4, <1>5 DEF Inv

-----------------------------------------------------------------------------
(* Steps that change one object                                            *)

\* One session becomes o, keeps its terminal and at most lets its process go.
Changes(s, o) ==
  /\ s \in Sessions /\ s <= counts.sessions /\ o \in Objects
  /\ o.terminal = session[s].terminal
  /\ o.process # None => o.process = session[s].process /\ o.status = "running"
  /\ Sheds(sessions, [session EXCEPT ![s] = o])
  /\ counts'.sessions = counts.sessions /\ counts'.processes = counts.processes
  /\ \A p \in Processes : process'[p] = process[p] \/ (process[p] = "alive" /\ process'[p] = "dead")

\* Such a step keeps the types of the manager.
LEMMA ChangeTypes ==
  ASSUME TypeOK, NEW s, NEW o, Changes(s, o)
  PROVE  ManagerTypes'
<1>1. [session EXCEPT ![s] = o] \in [Sessions -> Objects]
  BY DEF TypeOK, Changes
<1> QED
  BY <1>1, ShedTypes DEF Changes, TypeOK

\* It keeps what the map and the processes are to be.
LEMMA ChangeMap ==
  ASSUME TypeOK, MapInv, NEW s, NEW o, Changes(s, o)
  PROVE  MapInv'
<1> USE DEF TypeOK, MapInv, Changes, Sheds
<1>1. MapIsOfTerminals' /\ AreOfTerminals'
  BY DEF MapIsOfTerminals, AreOfTerminals
<1>2. RestIsNew'
  BY DEF RestIsNew, Sessions, Processes
<1>3. ProcessesRun'
  BY DEF ProcessesRun, Objects
<1>4. ProcessesAreSingle'
  BY DEF ProcessesAreSingle
<1> QED
  BY <1>1, <1>2, <1>3, <1>4

\* The calls that do not move keep what they hold.
LEMMA ChangeCall ==
  ASSUME TypeOK, MapInv, NEW s, NEW o, Changes(s, o),
         NEW t \in Terminals, CallHolds(t), call'[t] = call[t]
  PROVE  CallHolds(t)'
<1>1. call'[t].pc \in {"renew", "spawn"} => call'[t].session \in ToStart
  BY DEF ToStart
<1> QED
  BY <1>1 DEF TypeOK, MapInv, MapIsOfTerminals, CallHolds, Changes, Sheds

\* A living process that is let go is being killed.
LEMMA ChangeAtLarge ==
  ASSUME TypeOK, MapInv, NoneAtLarge, NEW s, NEW o, Changes(s, o),
         \A p \in Processes :
           /\ process'[p] = "alive"
           /\ p \in killing \/ (p = session[s].process /\ o.process = None)
           => p \in killing'
  PROVE  NoneAtLarge'
<1> SUFFICES ASSUME NEW p \in Processes, process'[p] = "alive", p \notin killing'
             PROVE  \/ \E t \in Terminals : sessions'[t] # None /\ session'[sessions'[t]].process = p
                    \/ \E r \in displaced' : session'[r].process = p
  BY DEF NoneAtLarge
<1>1. process[p] = "alive" /\ p \notin killing /\ (p = session[s].process => o.process = p)
  BY DEF Changes
<1>2. \A r \in Sessions : session[r].process = p =>
        session'[r].process = p /\ session'[r].status = "running"
  BY <1>1 DEF TypeOK, Objects, MapInv, ProcessesRun, Changes, Sheds, None, Processes
<1>3. CASE \E t \in Terminals : sessions[t] # None /\ session[sessions[t]].process = p
  <2>1. PICK t \in Terminals : sessions[t] # None /\ session[sessions[t]].process = p
    BY <1>3
  <2>2. sessions[t] \in Sessions
    BY <2>1 DEF TypeOK
  <2>3. session'[sessions[t]].process = p /\ session'[sessions[t]].status = "running"
    BY <1>2, <2>1, <2>2
  <2>4. sessions'[t] = sessions[t]
    BY <2>3 DEF Changes, Sheds
  <2> QED
    BY <2>1, <2>3, <2>4
<1>4. CASE \E r \in displaced : session[r].process = p
  BY <1>2, <1>4 DEF TypeOK, Changes, Sheds
<1> QED
  BY <1>1, <1>3, <1>4 DEF NoneAtLarge

\* The transcripts: that of the terminal of s is that of o now.
LEMMA ChangeTranscript ==
  ASSUME TypeOK, MapInv, NEW s, NEW o, Changes(s, o), NEW t \in Terminals
  PROVE  /\ sessions[t] # s => Transcript(t)' = Transcript(t)
         /\ sessions[t] = s => Transcript(t)' = o.history
<1>1. CASE sessions[t] = None
  BY <1>1 DEF TypeOK, Changes, Sheds, Transcript, Sessions, None
<1>2. CASE sessions[t] # None
  <2>1. sessions[t] \in Sessions
    BY <1>2 DEF TypeOK
  <2>2. session'[sessions[t]] = IF sessions[t] = s THEN o ELSE session[sessions[t]]
    BY <2>1 DEF TypeOK, Changes, Sheds
  <2>3. CASE sessions'[t] = sessions[t]
    BY <1>2, <2>2, <2>3 DEF Transcript
  <2>4. CASE sessions'[t] # sessions[t]
    BY <1>2, <2>2, <2>4 DEF Changes, Sheds, Transcript
  <2> QED
    BY <2>3, <2>4
<1> QED
  BY <1>1, <1>2

\* It takes from no fiber the output that it is to persist.
LEMMA ChangePending ==
  ASSUME TypeOK, FibersHold, NEW s, NEW o, Changes(s, o), NEW t \in Terminals,
         \A f \in Fibers : fiber[f].pc = "persist" =>
           fiber'[f].pc = "persist" /\ fiber'[f].session = fiber[f].session,
         NonePending(t)'
  PROVE  NonePending(t)
<1>1. \A r \in Sessions : session'[r].terminal = session[r].terminal
  BY DEF TypeOK, Changes, Sheds
<1>2. \A f \in Fibers : fiber[f].pc = "persist" => fiber[f].session \in Sessions
  BY DEF TypeOK, FibersHold
<1> QED
  BY <1>1, <1>2 DEF NonePending

\* Nothing that a terminal shows changes.
LEMMA ChangeShown ==
  ASSUME TypeOK, MapInv, FibersHold, HandedIsShown, NEW s, NEW o, Changes(s, o),
         o.history = session[s].history,
         \A f \in Fibers : fiber[f].pc = "persist" =>
           fiber'[f].pc = "persist" /\ fiber'[f].session = fiber[f].session,
         UNCHANGED store
  PROVE  HandedIsShown'
<1> SUFFICES ASSUME NEW t \in Terminals, NonePending(t)', t \notin stale'
             PROVE  Handed(t)' = Transcript(t)'
  BY DEF HandedIsShown
<1>1. NonePending(t)
  BY ChangePending
<1>2. Handed(t) = Transcript(t) /\ Handed(t)' = Handed(t)
  BY <1>1 DEF HandedIsShown, Handed, store
<1>3. Transcript(t)' = Transcript(t)
  <2>1. CASE sessions[t] # s
    BY <2>1, ChangeTranscript
  <2>2. CASE sessions[t] = s
    <3>1. Transcript(t) = session[s].history
      BY <2>2 DEF Changes, Transcript, Sessions, None
    <3> QED
      BY <2>2, <3>1, ChangeTranscript
  <2> QED
    BY <2>1, <2>2
<1> QED
  BY <1>2, <1>3

\* The transcript of the terminal of s is handed over as it is now.
LEMMA ChangePersisted ==
  ASSUME TypeOK, MapInv, FibersHold, HandedIsShown, NEW s, NEW o, Changes(s, o),
         NEW t \in Terminals, sessions[t] = s, Persist(t, o.history),
         \A f \in Fibers : fiber[f].pc = "persist" =>
           fiber'[f].pc = "persist" /\ fiber'[f].session = fiber[f].session
  PROVE  HandedIsShown'
<1> SUFFICES ASSUME NEW u \in Terminals, NonePending(u)', u \notin stale'
             PROVE  Handed(u)' = Transcript(u)'
  BY DEF HandedIsShown
<1>1. CASE u = t
  <2>1. Transcript(u)' = o.history
    BY <1>1, ChangeTranscript
  <2>2. Handed(u)' = o.history
    BY <1>1 DEF Persist, Handed, Value, TypeOK
  <2> QED
    BY <2>1, <2>2
<1>2. CASE u # t
  <2>1. NonePending(u)
    BY ChangePending
  <2>2. Handed(u) = Transcript(u) /\ Handed(u)' = Handed(u)
    BY <1>2, <2>1 DEF HandedIsShown, Handed, Persist, TypeOK
  <2>3. sessions[u] # s
    BY <1>2 DEF MapInv, MapIsOfTerminals, Changes, None, Sessions
  <2> QED
    BY <2>2, <2>3, ChangeTranscript
<1> QED
  BY <1>1, <1>2

\* The object is left without events, and its exit is not forgotten.
LEMMA ChangeQuiets ==
  ASSUME TypeOK, MapInv, EventsAreDrained, DeathIsNoticed, NEW s, NEW o, Changes(s, o),
         o.events = <<>>, ~o.draining, o.process # None => Unread(s) \subseteq dropped',
         dropped \subseteq dropped', process' = process,
         \A f \in Fibers : fiber'[f] = fiber[f] \/ fiber[f].session = s
  PROVE  EventsAreDrained' /\ DeathIsNoticed'
<1>1. session' = [session EXCEPT ![s] = o] /\ session'[s] = o
  BY DEF Changes, Sheds, TypeOK
<1>2. Exit \notin Range(o.events)
  BY DEF Range
<1>3. EventsAreDrained'
  <2> SUFFICES ASSUME NEW r \in Sessions PROVE AreDrained(r)'
    BY DEF EventsAreDrained
  <2>1. CASE r = s
    BY <1>1, <1>2, <2>1 DEF AreDrained
  <2>2. CASE r # s
    <3>1. session'[r] = session[r]
      BY <1>1, <2>2 DEF TypeOK
    <3>2. AreDrained(r)
      BY DEF EventsAreDrained
    <3>3. \A f \in Fibers, p \in Processes \cup {None} : Drains(f, r, p) => fiber'[f] = fiber[f]
      BY <2>2 DEF Drains
    <3>4. session[r].process \in Processes \cup {None}
      BY DEF TypeOK, Objects
    <3> QED
      BY <3>1, <3>2, <3>3, <3>4 DEF AreDrained, Drains
  <2> QED
    BY <2>1, <2>2
<1>4. DeathIsNoticed'
  <2> SUFFICES ASSUME NEW r \in Sessions PROVE Notices(r)'
    BY DEF DeathIsNoticed
  <2>1. CASE r = s /\ o.process # None
    <3>1. session[s].process = o.process /\ o.process \in Processes
      BY <2>1 DEF Changes, Objects
    <3>2. process[o.process] = "dead" => o.process \in dropped'
      BY <2>1, <3>1 DEF DeathIsNoticed, Notices, Unread, Changes
    <3> QED
      BY <1>1, <2>1, <3>2 DEF Notices
  <2>2. CASE r = s /\ o.process = None
    BY <1>1, <2>2 DEF Notices
  <2>3. CASE r # s
    <3>1. session'[r] = session[r]
      BY <1>1, <2>3 DEF TypeOK
    <3>2. Notices(r) /\ AreDrained(r)'
      BY <1>3 DEF DeathIsNoticed, EventsAreDrained
    <3> QED
      BY <3>1, <3>2 DEF Notices, AreDrained
  <2> QED
    BY <2>1, <2>2, <2>3
<1> QED
  BY <1>3, <1>4

-----------------------------------------------------------------------------
(* The actions                                                             *)

\* An object of the map is one that was created.
LEMMA InMap ==
  ASSUME TypeOK, MapInv, NEW t \in Terminals, sessions[t] # None
  PROVE  /\ sessions[t] \in Sessions /\ sessions[t] <= counts.sessions
         /\ session[sessions[t]] \in Objects /\ session[sessions[t]].terminal = t
BY DEF TypeOK, MapInv, MapIsOfTerminals

\* What a call that begins, or goes on, without a session of its own leaves as it is.
LEMMA OthersHold ==
  ASSUME TypeOK, MapInv, CallsHold, NEW s, NEW o, Changes(s, o), NEW t \in Terminals,
         \A u \in Terminals \ {t} : call'[u] = call[u], CallHolds(t)'
  PROVE  CallsHold'
<1>1. \A u \in Terminals \ {t} : CallHolds(u)'
  BY ChangeCall DEF CallsHold
<1> QED
  BY <1>1 DEF CallsHold

\* A step of a call that leaves one object without events.
LEMMA CallKeeps ==
  ASSUME Inv, NEW t \in Terminals, NEW s, NEW o, Changes(s, o), o.events = <<>>, ~o.draining,
         NEW c, call' = [call EXCEPT ![t] = c], CallTypes', CallHolds(t)',
         CountTypes', StoreTypes', HandedIsShown',
         UNCHANGED <<process, fiber>>,
         killing' = IF o.process = None THEN Kill(s) ELSE killing,
         dropped \subseteq dropped', dropped' \subseteq Processes,
         o.process # None => Unread(s) \subseteq dropped'
  PROVE  Inv'
<1>1. TypeOK'
  <2>1. ManagerTypes'
    BY ChangeTypes DEF Inv
  <2>2. ProcessTypes' /\ FiberTypes'
    BY DEF ProcessTypes, FiberTypes, Kill, Inv, TypeOK
  <2> QED
    BY <2>1, <2>2, TypeParts
<1>2. MapInv'
  BY ChangeMap DEF Inv
<1>3. CallsHold'
  BY OthersHold DEF Inv, TypeOK
<1>4. FibersHold'
  BY DEF FibersHold, Inv, Changes
<1>5. EventsAreDrained' /\ DeathIsNoticed'
  BY ChangeQuiets DEF Inv
<1>6. NoneAtLarge'
  BY ChangeAtLarge DEF Kill, Inv
<1> QED
  BY <1>1, <1>2, <1>3, <1>4, <1>5, <1>6 DEF Inv

\* restart of a session, or open of one that has ended.
LEMMA RenewKeeps ==
  ASSUME Inv, NEW t \in Terminals, Renew(t)
  PROVE  Inv'
<1> DEFINE s == sessions[t]
           o == Cleared(Stopped(session[s]))
           c == [pc |-> "renew", session |-> s]
<1>1. s # None /\ s \in Sessions /\ s <= counts.sessions
      /\ session[s] \in Objects /\ session[s].terminal = t
  BY InMap DEF Renew, Inv
<1>2. /\ o \in Objects /\ o.terminal = t /\ o.process = None /\ o.history = <<>>
      /\ o.events = <<>> /\ ~o.draining
  <2>1. Stopped(session[s]) \in Objects
    BY <1>1, ObjectTypes
  <2> QED
    BY <1>1, <2>1, ObjectTypes
<1>3. Sheds(sessions, [session EXCEPT ![s] = o])
  BY KeepSheds, EvictSheds DEF Renew, Inv, TypeOK
<1>4. /\ call' = [call EXCEPT ![t] = c] /\ killing' = Kill(s)
      /\ counts' = [counts EXCEPT !.calls = @ + 1] /\ Persist(t, <<>>)
      /\ UNCHANGED <<process, fiber, dropped>>
  BY DEF Renew, Begin, Count
<1> HIDE DEF s, o
<1>5. CountTypes' /\ counts'.sessions = counts.sessions /\ counts'.processes = counts.processes
  BY <1>4, TypeParts, CallCounts DEF Inv
<1>6. Changes(s, o)
  BY <1>1, <1>2, <1>3, <1>4, <1>5 DEF Changes, Inv, TypeOK
<1>7. CallHolds(t)' /\ CallTypes'
  BY <1>1, <1>2, <1>3, <1>4, <1>5 DEF s, CallHolds, CallTypes, Sheds, ToStart, Inv, TypeOK
<1>8. StoreTypes'
  BY <1>4, EmptyPersistTypes DEF Inv
<1>9. HandedIsShown'
  BY <1>2, <1>4, <1>6, ChangePersisted DEF s, Inv
<1> HIDE DEF c
<1> QED
  BY <1>2, <1>4, <1>5, <1>6, <1>7, <1>8, <1>9, CallKeeps DEF Inv, TypeOK

\* startSession: what the call holds is a session without a process.
LEMMA StartingKeeps ==
  ASSUME Inv, NEW t \in Terminals, NEW s \in Sessions, s <= counts.sessions,
         session[s].terminal = t, session[s].process = None,
         sessions[t] = s \/ s \in displaced,
         Starting(t, s), CountTypes',
         counts'.sessions = counts.sessions, counts'.processes = counts.processes
  PROVE  Inv'
<1> DEFINE r == [session[s] EXCEPT !.status = "starting"]
           o == Quieted(r)
           c == [pc |-> "spawn", session |-> s]
<1>1. r \in Objects /\ r.terminal = t /\ r.process = None /\ r.history = session[s].history
  <2>1. session[s] \in Objects
    BY DEF Inv, TypeOK
  <2> QED
    BY <2>1 DEF Objects
<1>2. /\ Sheds(sessions, [session EXCEPT ![s] = o]) /\ call' = [call EXCEPT ![t] = c]
      /\ UNCHANGED <<process, killing, fiber, store, dropped>>
  BY KeepSheds DEF Starting, Proceed, Inv
<1> HIDE DEF r
<1>3. /\ o \in Objects /\ o.terminal = t /\ o.process = None /\ o.history = session[s].history
      /\ o.events = <<>> /\ ~o.draining
  BY <1>1, ObjectTypes
<1> HIDE DEF o
<1>4. Changes(s, o)
  BY <1>2, <1>3 DEF Changes
<1>5. CallHolds(t)' /\ CallTypes'
  <2>1. call'[t] = c /\ CallTypes'
    BY <1>2 DEF CallTypes, Inv, TypeOK
  <2>2. s # None /\ session'[s] = o
    BY <1>2 DEF Sheds, Sessions, None, Inv, TypeOK
  <2>3. s \in ToStart
    BY <2>1 DEF ToStart
  <2>4. sessions'[t] = s \/ s \in displaced'
    BY <1>2, <2>3 DEF Sheds
  <2> QED
    BY <1>3, <2>1, <2>2, <2>4 DEF CallHolds
<1>6. StoreTypes'
  BY <1>2, TypeParts DEF StoreTypes, store, Inv
<1>7. HandedIsShown'
  BY <1>2, <1>3, <1>4, ChangeShown DEF Inv
<1>8. killing = Kill(s)
  BY DEF Kill, Processes, None
<1> HIDE DEF c
<1> QED
  BY <1>2, <1>3, <1>4, <1>5, <1>6, <1>7, <1>8, CallKeeps DEF Inv, TypeOK

\* A call starts its session again, or finds one that was left to be started.
LEMMA StartKeeps ==
  ASSUME Inv, NEW t \in Terminals, Renewed(t) \/ OpenLeft(t)
  PROVE  Inv'
<1>1. CASE Renewed(t)
  <2>1. CallHolds(t) /\ call[t].session \in Sessions \cup {None}
    BY DEF Inv, CallsHold, TypeOK
  <2>2. CountTypes'
    BY <1>1, TypeParts DEF Renewed, Inv, CountTypes
  <2> QED
    BY <1>1, <2>1, <2>2, StartingKeeps DEF Renewed, CallHolds
<1>2. CASE OpenLeft(t)
  <2>1. session[sessions[t]].process = None
    BY <1>2, InMap DEF OpenLeft, Inv, MapInv, ProcessesRun
  <2>2. CountTypes' /\ counts'.sessions = counts.sessions /\ counts'.processes = counts.processes
    BY <1>2, TypeParts, CallCounts DEF OpenLeft, Count, Inv
  <2> QED
    BY <1>2, <2>1, <2>2, InMap, StartingKeeps DEF OpenLeft, Inv
<1> QED
  BY <1>1, <1>2

\* The shell cannot be spawned.
LEMMA SpawnFailsKeeps ==
  ASSUME Inv, NEW t \in Terminals, SpawnFails(t)
  PROVE  Inv'
<1> DEFINE s == call[t].session
           r == [session[s] EXCEPT !.status = "error"]
           o == Quieted(r)
<1>1. /\ s \in Sessions /\ s <= counts.sessions
      /\ session[s] \in Objects /\ session[s].terminal = t /\ session[s].process = None
  BY DEF SpawnFails, Inv, CallsHold, CallHolds, TypeOK
<1>2. r \in Objects /\ r.terminal = t /\ r.process = None /\ r.history = session[s].history
  BY <1>1 DEF Objects
<1>3. /\ Sheds(sessions, [session EXCEPT ![s] = o]) /\ call' = [call EXCEPT ![t] = NoCall]
      /\ UNCHANGED <<process, killing, fiber, store, counts, dropped>>
  BY EvictSheds DEF SpawnFails, Return, Inv, TypeOK
<1> HIDE DEF r
<1>4. /\ o \in Objects /\ o.terminal = t /\ o.process = None /\ o.history = session[s].history
      /\ o.events = <<>> /\ ~o.draining
  BY <1>2, ObjectTypes
<1> HIDE DEF s, o
<1>5. Changes(s, o)
  BY <1>1, <1>3, <1>4 DEF Changes
<1>6. CallHolds(t)' /\ CallTypes'
  BY <1>3 DEF CallHolds, CallTypes, NoCall, Inv, TypeOK
<1>7. StoreTypes' /\ CountTypes'
  BY <1>3, TypeParts DEF StoreTypes, CountTypes, store, Inv
<1>8. HandedIsShown'
  BY <1>3, <1>4, <1>5, ChangeShown DEF Inv
<1>9. killing = Kill(s)
  BY <1>1 DEF Kill, Processes, None
<1> QED
  BY <1>3, <1>4, <1>5, <1>6, <1>7, <1>8, <1>9, CallKeeps DEF Inv, TypeOK

\* clear discards the transcript and the events that wait.
LEMMA ClearKeeps ==
  ASSUME Inv, NEW t \in Terminals, Clear(t)
  PROVE  Inv'
<1> DEFINE s == sessions[t]
           o == Cleared(session[s])
           c == [pc |-> "clear", session |-> s]
<1>1. s \in Sessions /\ s <= counts.sessions /\ session[s] \in Objects /\ session[s].terminal = t
  BY InMap DEF Clear, Inv
<1>2. /\ o \in Objects /\ o.terminal = t /\ o.process = session[s].process /\ o.history = <<>>
      /\ o.status = session[s].status /\ o.events = <<>> /\ ~o.draining
  BY <1>1, ObjectTypes
<1>3. /\ Sheds(sessions, [session EXCEPT ![s] = o]) /\ call' = [call EXCEPT ![t] = c]
      /\ counts' = [counts EXCEPT !.calls = @ + 1] /\ Persist(t, <<>>)
      /\ dropped' = dropped \cup Unread(s) /\ UNCHANGED <<process, killing, fiber>>
  BY KeepSheds DEF Clear, Begin, Count, Inv
<1> HIDE DEF o
<1>4. CountTypes' /\ counts'.sessions = counts.sessions /\ counts'.processes = counts.processes
  BY <1>3, TypeParts, CallCounts DEF Inv
<1>5. Changes(s, o)
  BY <1>1, <1>2, <1>3, <1>4 DEF Changes, Inv, TypeOK, MapInv, ProcessesRun
<1>6. CallHolds(t)' /\ CallTypes'
  BY <1>1, <1>3 DEF CallHolds, CallTypes, Inv, TypeOK
<1>7. StoreTypes'
  BY <1>3, EmptyPersistTypes DEF Inv
<1>8. HandedIsShown'
  BY <1>2, <1>3, <1>5, ChangePersisted DEF Inv
<1>9. o.process = None => killing = Kill(s)
  BY <1>2 DEF Kill, Processes, None
<1>10. dropped' \subseteq Processes
  BY <1>3 DEF Unread, Inv, TypeOK
<1> HIDE DEF s, c
<1> QED
  BY <1>2, <1>3, <1>4, <1>5, <1>6, <1>7, <1>8, <1>9, <1>10, CallKeeps

\* close of a session stops its process and hands over the transcript; whether or not
\* there is a session, the call then waits for the worker.
LEMMA CloseKeeps ==
  ASSUME Inv, NEW t \in Terminals, NEW pc \in {"close", "delete"}, Close(t, pc),
         sessions[t] # None
  PROVE  Inv'
<1> DEFINE s == sessions[t]
           o == Stopped(session[s])
           c == [pc |-> pc, session |-> s]
<1>1. s \in Sessions /\ s <= counts.sessions /\ session[s] \in Objects /\ session[s].terminal = t
  BY InMap DEF Inv
<1>2. /\ o \in Objects /\ o.terminal = t /\ o.process = None /\ o.history = session[s].history
      /\ session[s].process = None => o = session[s]
  BY <1>1, ObjectTypes
<1>3. o.events = <<>> /\ ~o.draining
  <2>1. CASE session[s].process = None
    <3>1. AreDrained(s)
      BY <1>1 DEF Inv, EventsAreDrained
    <3> QED
      BY <1>1, <1>2, <2>1, <3>1 DEF AreDrained, Objects
  <2>2. CASE session[s].process # None
    BY <1>1, <2>2, ObjectTypes
  <2> QED
    BY <2>1, <2>2
<1>4. /\ call' = [call EXCEPT ![t] = c] /\ killing' = Kill(s)
      /\ counts' = [counts EXCEPT !.calls = @ + 1] /\ Persist(t, session[s].history)
      /\ UNCHANGED <<process, fiber, dropped>>
  BY DEF Close, Begin, Count
<1>5. Sheds(sessions, [session EXCEPT ![s] = o])
  <2>1. CASE session[s].process # None
    BY <2>1, EvictSheds DEF Close, Inv, TypeOK
  <2>2. CASE session[s].process = None
    <3>1. UNCHANGED manager
      BY <2>2 DEF Close
    <3>2. [session EXCEPT ![s] = o] = session
      BY <1>1, <1>2, <2>2 DEF Inv, TypeOK
    <3> HIDE DEF o
    <3> QED
      BY <3>1, <3>2 DEF Sheds, manager, Inv, TypeOK
  <2> QED
    BY <2>1, <2>2
<1> HIDE DEF s, o
<1>6. CountTypes' /\ counts'.sessions = counts.sessions /\ counts'.processes = counts.processes
  BY <1>4, TypeParts, CallCounts DEF Inv
<1>7. Changes(s, o)
  BY <1>1, <1>2, <1>4, <1>5, <1>6 DEF Changes, Inv, TypeOK
<1>8. CallHolds(t)' /\ CallTypes'
  <2>1. call'[t] = c /\ CallTypes'
    BY <1>1, <1>4 DEF CallTypes, Inv, TypeOK
  <2>2. session'[s] = o /\ sessions'[t] \in {s, None}
    BY <1>1, <1>5 DEF Sheds, s, Inv, TypeOK
  <2> QED
    BY <1>2, <2>1, <2>2 DEF CallHolds
<1>9. StoreTypes'
  <2>1. session[s].history \in Seq(Nat)
    BY <1>1 DEF Objects
  <2> QED
    BY <1>4, <2>1, PersistTypes DEF Inv
<1>10. HandedIsShown'
  BY <1>2, <1>4, <1>7, ChangePersisted DEF s, Inv
<1> HIDE DEF c
<1> QED
  BY <1>2, <1>3, <1>4, <1>6, <1>7, <1>8, <1>9, <1>10, CallKeeps DEF Inv, TypeOK

-----------------------------------------------------------------------------
(* Steps that change no object                                             *)

\* Where no object, no process and no fiber changes, what is said of them stays true.
LEMMA StillKeeps ==
  ASSUME Inv, UNCHANGED <<sessions, session, displaced, process, killing, fiber, dropped>>,
         counts'.sessions = counts.sessions, counts'.processes = counts.processes
  PROVE  /\ MapInv' /\ FibersHold' /\ EventsAreDrained' /\ NoneAtLarge' /\ DeathIsNoticed'
         /\ \A t \in Terminals : NonePending(t)' <=> NonePending(t)
         /\ \A t \in Terminals : CallHolds(t) /\ call'[t] = call[t] => CallHolds(t)'
<1>1. MapInv'
  BY DEF Inv, MapInv, MapIsOfTerminals, AreOfTerminals, RestIsNew, ProcessesRun, ProcessesAreSingle
<1>2. FibersHold' /\ EventsAreDrained'
  BY DEF Inv, FibersHold, EventsAreDrained, AreDrained, Drains
<1>3. NoneAtLarge' /\ DeathIsNoticed'
  BY DEF Inv, NoneAtLarge, DeathIsNoticed, Notices, Drains
<1>4. /\ \A t \in Terminals : NonePending(t)' <=> NonePending(t)
      /\ \A t \in Terminals : CallHolds(t) /\ call'[t] = call[t] => CallHolds(t)'
  BY DEF NonePending, CallHolds
<1> QED
  BY <1>1, <1>2, <1>3, <1>4

\* A call that waits or returns, and touches nothing else.
LEMMA WaitKeeps ==
  ASSUME Inv, NEW t \in Terminals, NEW c, call' = [call EXCEPT ![t] = c], CallTypes',
         c.pc \in {"idle", "open", "close", "delete"}, c.pc # "idle" => sessions[t] = None,
         counts' = counts \/ counts' = [counts EXCEPT !.calls = @ + 1],
         UNCHANGED <<manager, process, killing, fiber, store, dropped>>
  PROVE  Inv'
<1>1. CountTypes' /\ counts'.sessions = counts.sessions /\ counts'.processes = counts.processes
  <2>1. CASE counts' = counts
    BY <2>1, TypeParts DEF Inv, CountTypes
  <2>2. CASE counts' = [counts EXCEPT !.calls = @ + 1]
    BY <2>2, TypeParts, CallCounts DEF Inv
  <2> QED
    BY <2>1, <2>2
<1>2. TypeOK'
  <2>1. ManagerTypes' /\ StoreTypes' /\ ProcessTypes' /\ FiberTypes'
    BY TypeParts DEF Inv, ManagerTypes, StoreTypes, ProcessTypes, FiberTypes, manager, store
  <2> QED
    BY <1>1, <2>1, TypeParts
<1>3. CallsHold'
  <2>1. CallHolds(t)'
    BY DEF CallHolds, Inv, TypeOK, manager
  <2>2. \A u \in Terminals \ {t} : CallHolds(u)'
    BY <1>1, StillKeeps DEF Inv, CallsHold, TypeOK, manager
  <2> QED
    BY <2>1, <2>2 DEF CallsHold
<1>4. HandedIsShown'
  BY <1>1, StillKeeps DEF Inv, HandedIsShown, Handed, Transcript, manager, store
<1> QED
  BY <1>1, <1>2, <1>3, <1>4, StillKeeps DEF Inv, manager

\* A call that begins without a session, or that ends.
LEMMA WaitersKeep ==
  ASSUME Inv, NEW t \in Terminals,
         \/ Open(t) \/ ClearEnds(t) \/ Interrupt(t)
         \/ sessions[t] = None /\ \E pc \in {"close", "delete"} : Close(t, pc)
  PROVE  Inv'
<1>1. CASE ClearEnds(t) \/ Interrupt(t)
  <2>1. call' = [call EXCEPT ![t] = NoCall]
    BY <1>1 DEF ClearEnds, Interrupt, Return
  <2>2. NoCall.pc = "idle" /\ CallTypes'
    BY <2>1, TypeParts DEF NoCall, CallTypes, Inv
  <2> QED
    BY <1>1, <2>1, <2>2, WaitKeeps DEF ClearEnds, Interrupt
<1>2. CASE Open(t)
  <2> DEFINE c == [pc |-> "open", session |-> None]
  <2>1. call' = [call EXCEPT ![t] = c] /\ c.pc = "open" /\ CallTypes'
    BY <1>2 DEF Open, Begin, CallTypes, Inv, TypeOK
  <2> HIDE DEF c
  <2> QED
    BY <1>2, <2>1, WaitKeeps DEF Open, Count
<1>3. CASE sessions[t] = None /\ \E pc \in {"close", "delete"} : Close(t, pc)
  <2>1. PICK pc \in {"close", "delete"} : Close(t, pc)
    BY <1>3
  <2> DEFINE c == [pc |-> pc, session |-> None]
  <2>2. call' = [call EXCEPT ![t] = c] /\ c.pc = pc /\ CallTypes'
    BY <1>3, <2>1 DEF Close, Begin, CallTypes, Inv, TypeOK
  <2> HIDE DEF c
  <2> QED
    BY <1>3, <2>1, <2>2, WaitKeeps DEF Close, Count
<1> QED
  BY <1>1, <1>2, <1>3

\* The worker takes a value, or has written it.
LEMMA WriteKeeps ==
  ASSUME Inv, NEW t \in Terminals, WriteBegins(t) \/ WriteEnds(t)
  PROVE  Inv'
<1>1. UNCHANGED <<manager, process, killing, fiber, call, stale, counts, dropped>>
  BY DEF WriteBegins, WriteEnds
<1>2. StoreTypes'
  <2>1. Nothing \in Values
    BY DEF Nothing, Values
  <2>2. writing[t].history \in Seq(Nat)
    BY DEF Inv, TypeOK, Values
  <2>3. CASE WriteBegins(t)
    BY <2>1, <2>3, TypeParts DEF WriteBegins, StoreTypes, Inv
  <2>4. CASE WriteEnds(t)
    BY <2>1, <2>2, <2>4, TypeParts DEF WriteEnds, StoreTypes, Inv
  <2> QED
    BY <2>3, <2>4
<1>3. TypeOK'
  <2>1. ManagerTypes' /\ ProcessTypes' /\ FiberTypes' /\ CallTypes' /\ CountTypes'
    BY <1>1, TypeParts DEF Inv, ManagerTypes, ProcessTypes, FiberTypes, CallTypes, CountTypes, manager
  <2> QED
    BY <1>2, <2>1, TypeParts
<1>4. \A u \in Terminals : Handed(u)' = Handed(u)
  <2> SUFFICES ASSUME NEW u \in Terminals PROVE Handed(u)' = Handed(u)
    OBVIOUS
  <2>1. ~Nothing.is
    BY DEF Nothing
  <2>2. CASE WriteBegins(t)
    BY <2>1, <2>2, TypeParts DEF WriteBegins, Handed, StoreTypes, Inv
  <2>3. CASE WriteEnds(t)
    BY <2>1, <2>3, TypeParts DEF WriteEnds, Handed, StoreTypes, Inv
  <2> QED
    BY <2>2, <2>3
<1>5. HandedIsShown'
  BY <1>1, <1>4, StillKeeps DEF Inv, HandedIsShown, Transcript, manager
<1>6. CallsHold'
  BY <1>1, StillKeeps DEF Inv, CallsHold, manager
<1> QED
  BY <1>1, <1>3, <1>5, <1>6, StillKeeps DEF Inv, manager

\* A thread without a session is deleted.
LEMMA DeleteKeeps ==
  ASSUME Inv, NEW t \in Terminals, DeleteThread(t)
  PROVE  Inv'
<1>1. /\ UNCHANGED <<sessions, session, displaced, process, killing, fiber, call, dropped>>
      /\ counts' = [counts EXCEPT !.calls = @ + 1]
  BY DEF DeleteThread, Count
<1>2. CountTypes' /\ counts'.sessions = counts.sessions /\ counts'.processes = counts.processes
  BY <1>1, TypeParts, CallCounts DEF Inv
<1>3. ManagerTypes' /\ StoreTypes'
  <2> DEFINE empty == <<>>
  <2>1. empty \in Seq(Nat)
    OBVIOUS
  <2>2. /\ kept' = [kept EXCEPT ![t] = empty] /\ file' = [file EXCEPT ![t] = empty]
        /\ stale' \subseteq Terminals /\ UNCHANGED <<queued, writing>>
    BY DEF DeleteThread, Inv, TypeOK
  <2> HIDE DEF empty
  <2> QED
    BY <1>1, <2>1, <2>2 DEF Inv, TypeOK, ManagerTypes, StoreTypes
<1>4. TypeOK'
  <2>1. ProcessTypes' /\ FiberTypes' /\ CallTypes'
    BY <1>1, TypeParts DEF Inv, ProcessTypes, FiberTypes, CallTypes
  <2> QED
    BY <1>2, <1>3, <2>1, TypeParts
<1>5. HandedIsShown'
  <2> SUFFICES ASSUME NEW u \in Terminals, NonePending(u)', u \notin stale'
               PROVE  Handed(u)' = Transcript(u)'
    BY DEF HandedIsShown
  <2>1. CASE u = t
    BY <2>1 DEF DeleteThread, Drained, Handed, Transcript, Inv, TypeOK, Values
  <2>2. CASE u # t
    <3>1. NonePending(u) /\ u \notin stale
      BY <1>1, <1>2, <2>2, StillKeeps DEF DeleteThread
    <3> QED
      BY <2>2, <3>1 DEF DeleteThread, Inv, HandedIsShown, Handed, Transcript, TypeOK
  <2> QED
    BY <2>1, <2>2
<1>6. CallsHold'
  BY <1>1, <1>2, StillKeeps DEF Inv, CallsHold
<1> QED
  BY <1>1, <1>2, <1>4, <1>5, <1>6, StillKeeps DEF Inv

-----------------------------------------------------------------------------
(* Sessions and processes that are new, and sessions that go               *)

\* A session is created, with the transcript that was last handed over.
LEMMA CreateKeeps ==
  ASSUME Inv, NEW t \in Terminals, sessions[t] = None, NEW history \in Seq(Nat),
         counts.sessions < MaxSessions, Create(t, history),
         NEW pc \in {"renew", "spawn"},
         call' = [call EXCEPT ![t] = [pc |-> pc, session |-> counts.sessions + 1]],
         CountTypes', counts'.sessions = counts.sessions + 1,
         counts'.processes = counts.processes,
         StoreTypes', stale' = stale \ {t}, Handed(t)' = history,
         \A u \in Terminals : u # t => Handed(u)' = Handed(u),
         UNCHANGED <<process, killing, fiber, dropped>>
  PROVE  Inv'
<1> DEFINE s == counts.sessions + 1
           o == [NoSession EXCEPT !.terminal = t, !.status = "starting", !.history = history]
           map == [sessions EXCEPT ![t] = s]
           objects == [session EXCEPT ![s] = o]
           c == [pc |-> pc, session |-> s]
<1>1. /\ s \in Sessions /\ s \in Nat /\ s > counts.sessions /\ counts.sessions \in Nat
      /\ session[s] = NoSession
  BY DEF Inv, MapInv, RestIsNew, TypeOK, Sessions
<1>2. /\ o \in Objects /\ o.terminal = t /\ o.process = None /\ o.history = history
      /\ o.events = <<>> /\ ~o.draining
  <2>1. /\ NoSession \in Objects /\ NoSession.process = None /\ NoSession.events = <<>>
        /\ ~NoSession.draining
    BY DEF NoSession, Objects, None
  <2> QED
    BY <2>1 DEF Objects
<1>3. NoSession.process = None /\ s # None
  BY <1>1 DEF NoSession, None
<1>4. /\ map \in [Terminals -> Sessions \cup {None}] /\ objects \in [Sessions -> Objects]
      /\ Sheds(map, objects)
  BY <1>1, <1>2, EvictSheds DEF Create, Inv, TypeOK
<1>5. call' = [call EXCEPT ![t] = c] /\ counts'.sessions = s /\ s = counts.sessions + 1
  OBVIOUS
<1> HIDE DEF o, s
<1>6. /\ session' = [session EXCEPT ![s] = o] /\ session'[s] = o
      /\ \A r \in Sessions : r # s => session'[r] = session[r]
  BY <1>1, <1>4 DEF Sheds, Inv, TypeOK
<1>7. /\ sessions'[t] # s => s \in displaced' /\ sessions'[t] = None
      /\ \A u \in Terminals \ {t} : sessions'[u] # sessions[u] =>
           /\ sessions'[u] = None /\ sessions[u] # None /\ sessions[u] # s
           /\ session[sessions[u]].status # "running"
           /\ sessions[u] \in ToStart => sessions[u] \in displaced'
  <2>1. s \in ToStart
    BY <1>5 DEF ToStart, Inv, TypeOK
  <2>2. map[t] = s /\ \A u \in Terminals \ {t} : map[u] = sessions[u]
    BY DEF Inv, TypeOK
  <2>3. \A u \in Terminals : sessions[u] # s
    BY <1>1, <1>3 DEF Inv, MapInv, MapIsOfTerminals, TypeOK, Sessions
  <2>4. \A u \in Terminals \ {t} : sessions[u] # None => objects[sessions[u]] = session[sessions[u]]
    BY <2>3 DEF Inv, TypeOK
  <2> HIDE DEF map, objects
  <2> QED
    BY <1>4, <2>1, <2>2, <2>3, <2>4 DEF Sheds
<1>8. /\ sessions' \in [Terminals -> Sessions \cup {None}]
      /\ displaced \subseteq displaced' /\ displaced' \subseteq Sessions
      /\ kept' = [u \in Terminals |->
                    IF sessions'[u] = map[u] THEN kept[u] ELSE objects[map[u]].history]
  BY <1>4 DEF Sheds, Inv, TypeOK
<1>9. TypeOK'
  <2>1. ManagerTypes'
    BY <1>4, ShedTypes DEF Inv
  <2>2. ProcessTypes' /\ FiberTypes'
    BY TypeParts DEF ProcessTypes, FiberTypes, Inv
  <2>3. CallTypes'
    BY <1>1, <1>5, TypeParts DEF CallTypes, Inv
  <2> QED
    BY <2>1, <2>2, <2>3, TypeParts
<1>10. MapInv'
  <2>1. MapIsOfTerminals'
    <3> SUFFICES ASSUME NEW u \in Terminals, sessions'[u] # None
                 PROVE  sessions'[u] <= s /\ session'[sessions'[u]].terminal = u
      BY <1>5 DEF MapIsOfTerminals
    <3>1. CASE u = t
      BY <1>1, <1>2, <1>6, <1>7, <3>1
    <3>2. CASE u # t
      <4>1. sessions'[u] = sessions[u]
        BY <1>7, <3>2
      <4>2. /\ sessions[u] \in Sessions /\ sessions[u] <= counts.sessions
            /\ session[sessions[u]].terminal = u
        BY <4>1, InMap DEF Inv
      <4> QED
        BY <1>1, <1>6, <4>1, <4>2 DEF Sessions
    <3> QED
      BY <3>1, <3>2
  <2>2. RestIsNew'
    BY <1>1, <1>5, <1>6 DEF Inv, MapInv, RestIsNew, Sessions, Processes
  <2>3. ProcessesRun' /\ ProcessesAreSingle'
    BY <1>2, <1>6 DEF Inv, MapInv, ProcessesRun, ProcessesAreSingle
  <2>4. AreOfTerminals'
    BY <1>1, <1>2, <1>5, <1>6 DEF Inv, MapInv, AreOfTerminals, Sessions
  <2> QED
    BY <2>1, <2>2, <2>3, <2>4 DEF MapInv
<1>11. CallsHold'
  <2>1. CallHolds(t)'
    <3>1. call'[t] = c
      BY <1>5 DEF Inv, TypeOK
    <3> QED
      BY <1>1, <1>2, <1>3, <1>5, <1>6, <1>7, <3>1 DEF CallHolds, Sessions
  <2>2. ASSUME NEW u \in Terminals \ {t}
        PROVE  CallHolds(u)'
    <3>1. call'[u] = call[u] /\ CallHolds(u)
      BY <1>5 DEF Inv, CallsHold, TypeOK
    <3>2. call'[u].pc \in {"renew", "spawn"} => call'[u].session \in ToStart
      BY DEF ToStart
    <3>3. call[u].pc \in {"renew", "spawn"} => call[u].session \in Sessions /\ call[u].session # s
      BY <1>1, <3>1 DEF CallHolds, Inv, TypeOK
    <3>4. sessions[u] # None => sessions[u] \in Sessions /\ sessions[u] # s
      BY <1>1, InMap DEF Inv
    <3>5. call[u].pc \in {"renew", "spawn"} => call[u].session <= s
      BY <1>1, <3>1 DEF CallHolds, Inv, TypeOK, Sessions
    <3>6. displaced \subseteq displaced'
      BY <1>8
    <3> QED
      BY <1>5, <1>6, <1>7, <3>1, <3>2, <3>3, <3>4, <3>5, <3>6 DEF CallHolds
  <2> QED
    BY <2>1, <2>2 DEF CallsHold
<1>12. \A f \in Fibers : fiber[f].pc # "none" =>
         fiber[f].session \in Sessions /\ fiber[f].session # s
  BY <1>1 DEF Inv, FibersHold, TypeOK
<1>13. FibersHold'
  BY <1>1, <1>5 DEF Inv, FibersHold, TypeOK, Sessions, None
<1>14. EventsAreDrained' /\ DeathIsNoticed'
  BY <1>2, <1>6 DEF Inv, EventsAreDrained, AreDrained, DeathIsNoticed, Notices, Drains, Range
<1>15. NoneAtLarge'
  <2> SUFFICES ASSUME NEW p \in Processes, process[p] = "alive", p \notin killing
               PROVE  \/ \E u \in Terminals : sessions'[u] # None /\ session'[sessions'[u]].process = p
                      \/ \E r \in displaced' : session'[r].process = p
    BY DEF NoneAtLarge
  <2>1. p # None
    BY DEF Processes, None
  <2>2. CASE \E u \in Terminals : sessions[u] # None /\ session[sessions[u]].process = p
    <3>1. PICK u \in Terminals : sessions[u] # None /\ session[sessions[u]].process = p
      BY <2>2
    <3>2. sessions[u] \in Sessions /\ sessions[u] # s /\ u # t
      BY <1>1, <3>1, InMap DEF Inv
    <3>3. session[sessions[u]].status = "running"
      BY <2>1, <3>1, <3>2 DEF Inv, MapInv, ProcessesRun
    <3> QED
      BY <1>6, <1>7, <3>1, <3>2, <3>3
  <2>3. CASE \E r \in displaced : session[r].process = p
    BY <1>1, <1>3, <1>6, <1>8, <2>1, <2>3 DEF Inv, TypeOK
  <2> QED
    BY <2>2, <2>3 DEF Inv, NoneAtLarge
<1>16. HandedIsShown'
  <2> SUFFICES ASSUME NEW u \in Terminals, NonePending(u)', u \notin stale'
               PROVE  Handed(u)' = Transcript(u)'
    BY DEF HandedIsShown
  <2>1. CASE u = t
    <3>1. map[t] = s /\ objects[s] = o
      BY <1>1 DEF Inv, TypeOK
    <3> QED
      BY <1>2, <1>3, <1>6, <1>7, <1>8, <2>1, <3>1 DEF Transcript
  <2>2. CASE u # t
    <3>1. NonePending(u)
      BY <1>6, <1>12 DEF NonePending
    <3>2. Handed(u)' = Transcript(u)
      BY <2>2, <3>1 DEF Inv, HandedIsShown
    <3>3. map[u] = sessions[u]
      BY <2>2 DEF Inv, TypeOK
    <3>4. sessions[u] # None => sessions[u] \in Sessions /\ sessions[u] # s
      BY <1>1, InMap DEF Inv
    <3>5. sessions[u] # None => objects[sessions[u]] = session[sessions[u]]
      BY <3>4 DEF Inv, TypeOK
    <3> HIDE DEF map, objects
    <3>6. Transcript(u)' = Transcript(u)
      BY <1>6, <1>7, <1>8, <2>2, <3>3, <3>4, <3>5 DEF Transcript
    <3> QED
      BY <3>2, <3>6
  <2> QED
    BY <2>1, <2>2
<1> QED
  BY <1>9, <1>10, <1>11, <1>13, <1>14, <1>15, <1>16 DEF Inv

\* open and restart of a terminal without a session.
LEMMA NewKeeps ==
  ASSUME Inv, NEW t \in Terminals, Opened(t) \/ RestartNew(t)
  PROVE  Inv'
<1>1. CASE Opened(t)
  <2>1. sessions[t] = None /\ file[t] \in Seq(Nat)
    BY <1>1 DEF Opened, Inv, CallsHold, CallHolds, TypeOK
  <2>2. /\ CountTypes' /\ counts'.sessions = counts.sessions + 1
        /\ counts'.processes = counts.processes
    BY <1>1, TypeParts DEF Opened, Count, CountTypes, Inv
  <2>3. StoreTypes'
    BY <1>1, TypeParts DEF Opened, StoreTypes, Inv
  <2>4. Handed(t)' = file[t] /\ \A u \in Terminals : u # t => Handed(u)' = Handed(u)
    BY <1>1 DEF Opened, Drained, Handed
  <2> QED
    BY <1>1, <2>1, <2>2, <2>3, <2>4, CreateKeeps DEF Opened, Proceed
<1>2. CASE RestartNew(t)
  <2> DEFINE empty == <<>>
  <2>1. empty \in Seq(Nat)
    OBVIOUS
  <2>2. /\ CountTypes' /\ counts'.sessions = counts.sessions + 1
        /\ counts'.processes = counts.processes
    <3>1. /\ counts' = [counts EXCEPT !.calls = @ + 1, !.sessions = @ + 1]
          /\ counts.sessions < MaxSessions
      BY <1>2 DEF RestartNew
    <3> DEFINE begun == [counts EXCEPT !.calls = @ + 1]
    <3>2. /\ begun \in [calls : Nat, sessions : 0 .. MaxSessions, processes : 0 .. MaxProcesses,
                        outputs : Nat]
          /\ begun.sessions = counts.sessions /\ begun.processes = counts.processes
      BY TypeParts DEF CountTypes, Inv
    <3>3. counts' = [begun EXCEPT !.sessions = counts.sessions + 1]
      BY <3>1
    <3> HIDE DEF begun
    <3> QED
      BY <3>1, <3>2, <3>3 DEF CountTypes
  <2>3. StoreTypes'
    BY <1>2, EmptyPersistTypes DEF RestartNew, Inv
  <2>4. Persist(t, empty) /\ Create(t, empty)
    BY <1>2 DEF RestartNew
  <2> HIDE DEF empty
  <2>5. /\ Handed(t)' = empty /\ stale' = stale \ {t}
        /\ \A u \in Terminals : u # t => Handed(u)' = Handed(u)
    BY <2>4 DEF Persist, Handed, Value, Inv, TypeOK
  <2> QED
    BY <1>2, <2>1, <2>2, <2>3, <2>4, <2>5, CreateKeeps DEF RestartNew, Begin
<1> QED
  BY <1>1, <1>2

\* The shell of a call is spawned.
LEMMA SpawnedKeeps ==
  ASSUME Inv, NEW t \in Terminals, Spawned(t)
  PROVE  Inv'
<1> DEFINE s == call[t].session
           p == counts.processes + 1
           o == [session[s] EXCEPT !.process = p, !.status = "running"]
<1>1. /\ s \in Sessions /\ s # None /\ s <= counts.sessions
      /\ session[s] \in Objects /\ session[s].terminal = t /\ session[s].process = None
      /\ sessions[t] = s \/ s \in displaced
  BY DEF Spawned, Inv, CallsHold, CallHolds, TypeOK
<1>2. p \in Processes /\ p # None /\ p > counts.processes /\ process[p] = "none"
  BY DEF Spawned, Inv, MapInv, RestIsNew, TypeOK, Processes, None
<1>3. /\ o \in Objects /\ o.terminal = t /\ o.process = p /\ o.status = "running"
      /\ o.history = session[s].history /\ o.events = session[s].events
      /\ o.draining = session[s].draining
  BY <1>1, <1>2 DEF Objects
<1>4. /\ session' = [session EXCEPT ![s] = o] /\ process' = [process EXCEPT ![p] = "alive"]
      /\ call' = [call EXCEPT ![t] = NoCall]
      /\ counts' = [counts EXCEPT !.processes = @ + 1] /\ counts.processes < MaxProcesses
      /\ UNCHANGED <<sessions, kept, displaced, killing, fiber, store, dropped>>
  BY DEF Spawned, Keep, Return, Count
<1>5. /\ CountTypes' /\ counts'.sessions = counts.sessions /\ counts'.processes = p
      /\ counts.processes \in Nat
  BY <1>4, TypeParts DEF CountTypes, Inv
<1> HIDE DEF s, p, o
<1>6. /\ session'[s] = o /\ \A r \in Sessions : r # s => session'[r] = session[r]
      /\ \A r \in Sessions : session'[r].terminal = session[r].terminal
                             /\ session'[r].history = session[r].history
  BY <1>1, <1>3, <1>4 DEF Inv, TypeOK
<1>7. /\ process'[p] = "alive"
      /\ \A q \in Processes : q # p => process'[q] = process[q]
  BY <1>2, <1>4 DEF Inv, TypeOK
<1>8. \A r \in Sessions : session[r].process # p
  BY <1>2 DEF Inv, MapInv, ProcessesRun
<1>9. TypeOK'
  <2>1. ManagerTypes'
    BY <1>1, <1>3, <1>4, TypeParts DEF Inv, ManagerTypes
  <2>2. ProcessTypes' /\ StoreTypes' /\ FiberTypes'
    BY <1>2, <1>4, TypeParts DEF Inv, ProcessTypes, StoreTypes, FiberTypes, store
  <2>3. CallTypes'
    BY <1>4, TypeParts DEF Inv, CallTypes, NoCall
  <2> QED
    BY <1>5, <2>1, <2>2, <2>3, TypeParts
<1>10. MapInv'
  <2>1. MapIsOfTerminals' /\ AreOfTerminals'
    BY <1>4, <1>5, <1>6 DEF Inv, MapInv, MapIsOfTerminals, AreOfTerminals, TypeOK
  <2>2. RestIsNew'
    BY <1>1, <1>2, <1>4, <1>5, <1>6, <1>7 DEF Inv, MapInv, RestIsNew, Sessions, Processes, TypeOK
  <2>3. ProcessesRun' /\ ProcessesAreSingle'
    <3>1. \A r \in Sessions : session[r].process \in Processes \cup {None}
      BY DEF Inv, TypeOK, Objects
    <3>2. ProcessesRun'
      BY <1>2, <1>3, <1>6, <1>7, <1>8, <3>1 DEF Inv, MapInv, ProcessesRun
    <3>3. ProcessesAreSingle'
      BY <1>3, <1>6, <1>8 DEF Inv, MapInv, ProcessesAreSingle
    <3> QED
      BY <3>2, <3>3
  <2> QED
    BY <2>1, <2>2, <2>3 DEF MapInv
<1>11. CallsHold'
  <2>1. CallHolds(t)'
    BY <1>4 DEF CallHolds, NoCall, Inv, TypeOK
  <2>2. ASSUME NEW u \in Terminals \ {t}
        PROVE  CallHolds(u)'
    <3>1. call'[u] = call[u] /\ CallHolds(u)
      BY <1>4 DEF Inv, CallsHold, TypeOK
    <3>2. call[u].pc \in {"renew", "spawn"} => call[u].session \in Sessions /\ call[u].session # s
      BY <1>1, <3>1 DEF CallHolds, Inv, TypeOK
    <3>3. sessions[u] # None => sessions[u] \in Sessions /\ sessions[u] # s
      BY <1>1, InMap DEF Inv
    <3> QED
      BY <1>4, <1>5, <1>6, <3>1, <3>2, <3>3 DEF CallHolds
  <2> QED
    BY <2>1, <2>2 DEF CallsHold
<1>12. FibersHold'
  BY <1>4, <1>5 DEF Inv, FibersHold
<1>13. EventsAreDrained' /\ DeathIsNoticed'
  <2>1. AreDrained(s) /\ o.events = <<>> /\ ~o.draining
    BY <1>1, <1>3 DEF Inv, EventsAreDrained, AreDrained, Objects
  <2> SUFFICES ASSUME NEW r \in Sessions PROVE AreDrained(r)' /\ Notices(r)'
    BY DEF EventsAreDrained, DeathIsNoticed
  <2>2. CASE r = s
    <3>1. Exit \notin Range(o.events)
      BY <2>1 DEF Range
    <3>2. session'[r] = o
      BY <1>6, <2>2
    <3> QED
      BY <1>3, <1>7, <2>1, <3>1, <3>2 DEF AreDrained, Notices
  <2>3. CASE r # s
    <3>1. AreDrained(r) /\ Notices(r)
      BY DEF Inv, EventsAreDrained, DeathIsNoticed
    <3>2. session'[r] = session[r] /\ session[r].process \in Processes \cup {None}
      BY <1>6, <2>3 DEF Inv, TypeOK, Objects
    <3>3. session[r].process # None => process'[session[r].process] = process[session[r].process]
      BY <1>7, <1>8, <3>2
    <3> QED
      BY <1>4, <3>1, <3>2, <3>3 DEF AreDrained, Notices, Drains
  <2> QED
    BY <2>2, <2>3
<1>14. NoneAtLarge'
  <2> SUFFICES ASSUME NEW q \in Processes, process'[q] = "alive", q \notin killing
               PROVE  \/ \E u \in Terminals : sessions[u] # None /\ session'[sessions[u]].process = q
                      \/ \E r \in displaced : session'[r].process = q
    BY <1>4 DEF NoneAtLarge
  <2>1. CASE q = p
    BY <1>1, <1>3, <1>6, <2>1
  <2>2. CASE q # p
    <3>1. process[q] = "alive" /\ q # None
      BY <1>7, <2>2 DEF Processes, None
    <3>2. \A r \in Sessions : session[r].process = q => session'[r].process = q
      BY <1>1, <1>6, <3>1
    <3>3. /\ displaced \subseteq Sessions
          /\ \A u \in Terminals : sessions[u] # None => sessions[u] \in Sessions
      BY DEF Inv, TypeOK
    <3>4. \/ \E u \in Terminals : sessions[u] # None /\ session[sessions[u]].process = q
          \/ \E r \in displaced : session[r].process = q
      BY <3>1 DEF Inv, NoneAtLarge
    <3> QED
      BY <3>2, <3>3, <3>4
  <2> QED
    BY <2>1, <2>2
<1>15. HandedIsShown'
  <2> SUFFICES ASSUME NEW u \in Terminals, NonePending(u)', u \notin stale'
               PROVE  Handed(u)' = Transcript(u)'
    BY DEF HandedIsShown
  <2>1. NonePending(u)
    BY <1>4, <1>6 DEF NonePending, Inv, FibersHold, TypeOK
  <2>2. Handed(u)' = Handed(u) /\ Handed(u) = Transcript(u)
    BY <1>4, <2>1 DEF Inv, HandedIsShown, Handed, store
  <2>3. Transcript(u)' = Transcript(u)
    BY <1>4, <1>6 DEF Transcript, Inv, TypeOK
  <2> QED
    BY <2>2, <2>3
<1> QED
  BY <1>9, <1>10, <1>11, <1>12, <1>13, <1>14, <1>15 DEF Inv

\* The session of a close leaves the map.
LEMMA ClosedKeeps ==
  ASSUME Inv, NEW t \in Terminals, Closed(t)
  PROVE  Inv'
<1>1. /\ sessions' = [sessions EXCEPT ![t] = None] /\ call' = [call EXCEPT ![t] = NoCall]
      /\ UNCHANGED <<session, displaced, process, killing, fiber, queued, writing, counts, dropped>>
  BY DEF Closed, Return
<1>2. TypeOK'
  <2>1. Transcript(t) \in Seq(Nat) /\ <<>> \in Seq(Nat)
    BY DEF Transcript, Inv, TypeOK, Objects
  <2>2. ManagerTypes' /\ StoreTypes'
    <3> DEFINE empty == <<>>
    <3>1. /\ kept' = [kept EXCEPT ![t] = IF call[t].pc = "delete" THEN empty ELSE Transcript(t)]
          /\ file' = IF call[t].pc = "delete" THEN [file EXCEPT ![t] = empty] ELSE file
          /\ stale' \subseteq Terminals
      BY DEF Closed, Inv, TypeOK
    <3>2. empty \in Seq(Nat)
      BY <2>1
    <3> HIDE DEF empty
    <3> QED
      BY <1>1, <2>1, <3>1, <3>2, TypeParts DEF Inv, ManagerTypes, StoreTypes
  <2>3. ProcessTypes' /\ FiberTypes' /\ CallTypes' /\ CountTypes'
    BY <1>1, TypeParts DEF Inv, ProcessTypes, FiberTypes, CallTypes, CountTypes, NoCall
  <2> QED
    BY <2>2, <2>3, TypeParts
<1>3. MapInv'
  BY <1>1 DEF Inv, MapInv, MapIsOfTerminals, AreOfTerminals, RestIsNew, ProcessesRun,
              ProcessesAreSingle, TypeOK
<1>4. CallsHold'
  <2>1. CallHolds(t)'
    BY <1>1 DEF CallHolds, NoCall, Inv, TypeOK
  <2>2. \A u \in Terminals \ {t} : call'[u] = call[u] /\ sessions'[u] = sessions[u] /\ CallHolds(u)
    BY <1>1 DEF Inv, CallsHold, TypeOK
  <2>3. \A u \in Terminals \ {t} : CallHolds(u)'
    BY <1>1, <2>2 DEF CallHolds
  <2> QED
    BY <2>1, <2>3 DEF CallsHold
<1>5. FibersHold' /\ EventsAreDrained' /\ DeathIsNoticed'
  BY <1>1 DEF Inv, FibersHold, EventsAreDrained, AreDrained, DeathIsNoticed, Notices, Drains
<1>6. NoneAtLarge'
  <2>1. sessions[t] # None => session[sessions[t]].process = None
    BY DEF Closed, Inv, CallsHold, CallHolds
  <2>2. \A u \in Terminals : u # t => sessions'[u] = sessions[u]
    BY <1>1 DEF Inv, TypeOK
  <2>3. \A p \in Processes : p # None
    BY DEF Processes, None
  <2> QED
    BY <1>1, <2>1, <2>2, <2>3 DEF Inv, NoneAtLarge
<1>7. HandedIsShown'
  <2> SUFFICES ASSUME NEW u \in Terminals, NonePending(u)', u \notin stale'
               PROVE  Handed(u)' = Transcript(u)'
    BY DEF HandedIsShown
  <2>1. NonePending(u)
    BY <1>1 DEF NonePending
  <2>2. CASE u = t /\ call[t].pc = "delete"
    <3>1. file'[t] = <<>> /\ Transcript(t)' = <<>>
      BY <1>1, <2>2 DEF Closed, Transcript, Inv, TypeOK
    <3> QED
      BY <1>1, <2>2, <3>1 DEF Closed, Drained, Handed
  <2>3. CASE u = t /\ call[t].pc # "delete"
    <3>1. Transcript(t)' = Transcript(t)
      BY <1>1, <2>3 DEF Closed, Transcript, Inv, TypeOK
    <3> QED
      BY <1>1, <2>1, <2>3, <3>1 DEF Closed, Handed, Inv, HandedIsShown
  <2>4. CASE u # t
    <3>1. Transcript(u)' = Transcript(u) /\ file'[u] = file[u] /\ u \notin stale
      BY <1>1, <2>4 DEF Closed, Transcript, Inv, TypeOK
    <3> QED
      BY <1>1, <2>1, <3>1 DEF Handed, Inv, HandedIsShown
  <2> QED
    BY <2>2, <2>3, <2>4
<1> QED
  BY <1>2, <1>3, <1>4, <1>5, <1>6, <1>7 DEF Inv

-----------------------------------------------------------------------------
(* The processes and the fibers                                            *)

\* The elements of a sequence that grows at its end or loses its head.
LEMMA SeqRange ==
  ASSUME NEW q \in Seq(Nat)
  PROVE  /\ \A e \in Nat : /\ Append(q, e) \in Seq(Nat) /\ Append(q, e) # <<>>
                           /\ Range(Append(q, e)) = Range(q) \cup {e}
         /\ q # <<>> => /\ Head(q) \in Nat /\ Head(q) \in Range(q)
                        /\ Tail(q) \in Seq(Nat) /\ Range(q) = {Head(q)} \cup Range(Tail(q))
<1>1. ASSUME NEW e \in Nat
      PROVE  /\ Append(q, e) \in Seq(Nat) /\ Append(q, e) # <<>>
             /\ Range(Append(q, e)) = Range(q) \cup {e}
  <2>1. /\ Append(q, e) \in Seq(Nat) /\ Len(Append(q, e)) = Len(q) + 1 /\ Append(q, e) # <<>>
        /\ DOMAIN q = 1 .. Len(q) /\ DOMAIN Append(q, e) = 1 .. Len(q) + 1 /\ Len(q) \in Nat
        /\ \A j \in 1 .. Len(q) : Append(q, e)[j] = q[j]
        /\ Append(q, e)[Len(q) + 1] = e
    OBVIOUS
  <2>2. 1 .. Len(q) + 1 = (1 .. Len(q)) \cup {Len(q) + 1}
    BY <2>1
  <2>3. \A x : x \in Range(Append(q, e)) <=> \E j \in 1 .. Len(q) + 1 : x = Append(q, e)[j]
    BY <2>1 DEF Range
  <2>4. \A x : x \in Range(q) <=> \E j \in 1 .. Len(q) : x = q[j]
    BY <2>1 DEF Range
  <2>5. \A x : x \in Range(Append(q, e)) <=> x \in Range(q) \/ x = e
    BY <2>1, <2>2, <2>3, <2>4, Zenon
  <2> QED
    BY <2>1, <2>5
<1>2. ASSUME q # <<>>
      PROVE  /\ Head(q) \in Nat /\ Head(q) \in Range(q)
             /\ Tail(q) \in Seq(Nat) /\ Range(q) = {Head(q)} \cup Range(Tail(q))
  <2>1. /\ Len(q) \in Nat /\ Len(q) > 0 /\ DOMAIN q = 1 .. Len(q) /\ Head(q) = q[1]
        /\ Tail(q) \in Seq(Nat) /\ Len(Tail(q)) = Len(q) - 1
        /\ DOMAIN Tail(q) = 1 .. (Len(q) - 1)
        /\ \A j \in 1 .. (Len(q) - 1) : Tail(q)[j] = q[j + 1]
    BY <1>2
  <2>2. \A x : (\E j \in 1 .. Len(q) : x = q[j])
               <=> x = q[1] \/ (\E j \in 1 .. (Len(q) - 1) : x = q[j + 1])
    <3> SUFFICES ASSUME NEW x
                 PROVE  (\E j \in 1 .. Len(q) : x = q[j])
                        <=> x = q[1] \/ (\E j \in 1 .. (Len(q) - 1) : x = q[j + 1])
      OBVIOUS
    <3>1. ASSUME NEW j \in 1 .. Len(q), x = q[j]
          PROVE  x = q[1] \/ (\E k \in 1 .. (Len(q) - 1) : x = q[k + 1])
      <4>1. CASE j = 1
        BY <3>1, <4>1
      <4>2. CASE j # 1
        <5>1. j - 1 \in 1 .. (Len(q) - 1) /\ (j - 1) + 1 = j
          BY <2>1, <4>2
        <5> QED
          BY <3>1, <5>1
      <4> QED
        BY <4>1, <4>2
    <3>2. 1 \in 1 .. Len(q) /\ \A k \in 1 .. (Len(q) - 1) : k + 1 \in 1 .. Len(q)
      BY <2>1
    <3> QED
      BY <3>1, <3>2
  <2>3. q[1] \in Nat
    BY <2>1
  <2>4. \A x : x \in Range(q) <=> \E j \in 1 .. Len(q) : x = q[j]
    BY <2>1 DEF Range
  <2>5. \A x : x \in Range(Tail(q)) <=> \E j \in 1 .. (Len(q) - 1) : x = q[j + 1]
    BY <2>1 DEF Range
  <2>6. \A x : x \in Range(q) <=> x = Head(q) \/ x \in Range(Tail(q))
    BY <2>1, <2>2, <2>4, <2>5, Zenon
  <2> QED
    BY <2>1, <2>3, <2>6
<1> QED
  BY <1>1, <1>2

\* A step of a process or of a fiber that changes one object.
LEMMA FiberStepKeeps ==
  ASSUME Inv, NEW s, NEW o, Changes(s, o), UNCHANGED call,
         CountTypes', StoreTypes', ProcessTypes', FiberTypes', FibersHold',
         EventsAreDrained', DeathIsNoticed', HandedIsShown',
         \A p \in Processes :
           /\ process'[p] = "alive"
           /\ p \in killing \/ (p = session[s].process /\ o.process = None)
           => p \in killing'
  PROVE  Inv'
<1>1. TypeOK'
  <2>1. ManagerTypes'
    BY ChangeTypes DEF Inv
  <2>2. CallTypes'
    BY TypeParts DEF CallTypes, Inv
  <2> QED
    BY <2>1, <2>2, TypeParts
<1>2. MapInv'
  BY ChangeMap DEF Inv
<1>3. CallsHold'
  BY ChangeCall DEF Inv, CallsHold
<1>4. NoneAtLarge'
  BY ChangeAtLarge DEF Inv
<1> QED
  BY <1>1, <1>2, <1>3, <1>4 DEF Inv

\* An event of the process of a session joins the others, and a fiber is at work on them.
LEMMA EnqueueKeeps ==
  ASSUME Inv, NEW s \in Sessions, NEW event \in Nat, Enqueue(s, event),
         session[s].process # None, process[session[s].process] = "alive",
         process' = IF event = Exit THEN [process EXCEPT ![session[s].process] = "dead"]
                    ELSE process,
         killing' = IF event = Exit THEN killing \ {session[s].process} ELSE killing,
         UNCHANGED <<sessions, kept, displaced, call, store, dropped>>,
         CountTypes', counts'.sessions = counts.sessions, counts'.processes = counts.processes
  PROVE  Inv'
<1> DEFINE p == session[s].process
           waiting == Append(session[s].events, event)
           o == [session[s] EXCEPT !.events = waiting, !.draining = TRUE]
<1>1. session[s] \in Objects /\ p \in Processes /\ session[s].status = "running"
  BY DEF Inv, MapInv, ProcessesRun, TypeOK, Objects
<1>2. waiting \in Seq(Nat) /\ Range(waiting) = Range(session[s].events) \cup {event}
  BY <1>1, SeqRange DEF Objects
<1>3. s <= counts.sessions
  <2>1. NoSession.process = None /\ counts.sessions \in Nat
    BY DEF NoSession, Inv, TypeOK
  <2> QED
    BY <2>1 DEF Inv, MapInv, RestIsNew, Sessions
<1>4. session' = [session EXCEPT ![s] = o]
  BY DEF Enqueue
<1> HIDE DEF waiting
<1>5. /\ o \in Objects /\ o.terminal = session[s].terminal /\ o.process = p
      /\ o.status = "running" /\ o.history = session[s].history
      /\ o.events = waiting /\ o.draining
  BY <1>1, <1>2 DEF Objects
<1> HIDE DEF o
<1>6. /\ session'[s] = o /\ \A r \in Sessions : r # s => session'[r] = session[r]
      /\ Sheds(sessions, [session EXCEPT ![s] = o])
  BY <1>4 DEF Sheds, Inv, TypeOK
<1>7. /\ process'[p] = IF event = Exit THEN "dead" ELSE "alive"
      /\ \A q \in Processes : q # p => process'[q] = process[q]
  BY <1>1 DEF Inv, TypeOK
<1>8. Changes(s, o)
  BY <1>1, <1>3, <1>5, <1>6, <1>7 DEF Changes
<1>9. /\ FiberTypes' /\ FibersHold'
      /\ \A f \in Fibers : fiber[f].pc # "none" => fiber'[f] = fiber[f]
      /\ \E f \in Fibers : /\ fiber'[f].pc \in {"take", "persist"}
                           /\ fiber'[f].session = s /\ fiber'[f].process = p
  <2>1. CASE session[s].draining
    <3>1. fiber' = fiber
      BY <2>1 DEF Enqueue
    <3>2. FiberTypes' /\ FibersHold'
      BY <1>8, <3>1, TypeParts DEF FiberTypes, FibersHold, Inv, Changes
    <3> QED
      BY <2>1, <3>1, <3>2 DEF Inv, EventsAreDrained, AreDrained, Drains
  <2>2. CASE ~session[s].draining
    <3> DEFINE Records == [pc : {"none", "take", "persist", "evict"}, history : Seq(Nat),
                           session : Sessions \cup {None}, process : Processes \cup {None}]
               begun == [NoFiber EXCEPT !.pc = "take", !.session = s, !.process = p]
    <3>1. PICK f \in Free : fiber' = [fiber EXCEPT ![f] = begun]
      BY <2>2 DEF Enqueue
    <3>2. NoFiber \in Records
      BY DEF NoFiber
    <3>3. begun \in Records /\ begun.pc = "take" /\ begun.session = s /\ begun.process = p
      BY <1>1, <3>2
    <3> HIDE DEF begun
    <3>4. f \in Fibers /\ fiber[f].pc = "none"
      BY DEF Free
    <3>5. FiberTypes'
      BY <3>1, <3>3, <3>4, TypeParts DEF FiberTypes, Inv
    <3>6. \A g \in Fibers : fiber'[g] = IF g = f THEN begun ELSE fiber[g]
      BY <3>1, <3>4, TypeParts DEF FiberTypes, Inv
    <3>7. FibersHold'
      <4>1. s # None
        BY DEF Sessions, None
      <4> QED
        BY <1>3, <3>3, <3>6, <4>1 DEF FibersHold, Inv
    <3> QED
      BY <3>3, <3>4, <3>5, <3>6, <3>7
  <2> QED
    BY <2>1, <2>2
<1>10. EventsAreDrained' /\ DeathIsNoticed'
  <2> SUFFICES ASSUME NEW r \in Sessions PROVE AreDrained(r)' /\ Notices(r)'
    BY DEF EventsAreDrained, DeathIsNoticed
  <2>1. AreDrained(r) /\ Notices(r)
    BY DEF Inv, EventsAreDrained, DeathIsNoticed
  <2>2. CASE r = s
    <3>1. session'[r].process = p /\ session'[r].events = waiting /\ session'[r].draining
      BY <1>5, <1>6, <2>2
    <3>2. Exit \in Range(waiting) <=> event = Exit
      BY <1>2, <2>1, <2>2 DEF AreDrained
    <3>3. \E f \in Fibers : /\ fiber'[f].pc \in {"take", "persist"} /\ fiber'[f].pc # "none"
                            /\ fiber'[f].session = r /\ fiber'[f].process = p
      BY <1>9, <2>2
    <3> HIDE DEF p
    <3> QED
      BY <1>1, <1>7, <3>1, <3>2, <3>3 DEF AreDrained, Notices, Drains, p
  <2>3. CASE r # s
    <3>1. session'[r] = session[r] /\ session[r].process # p
      BY <1>1, <1>6, <2>3 DEF Inv, MapInv, ProcessesAreSingle
    <3>2. session[r].process # None => process'[session[r].process] = process[session[r].process]
      BY <1>7, <3>1 DEF Inv, TypeOK, Objects
    <3> HIDE DEF p
    <3> QED
      BY <1>9, <2>1, <3>1, <3>2 DEF AreDrained, Notices, Drains
  <2> QED
    BY <2>2, <2>3
<1>11. HandedIsShown'
  BY <1>5, <1>8, <1>9, ChangeShown DEF Inv
<1>12. ProcessTypes' /\ StoreTypes'
  BY <1>1, TypeParts DEF ProcessTypes, StoreTypes, store, Inv
<1>13. \A q \in Processes :
         /\ process'[q] = "alive"
         /\ q \in killing \/ (q = session[s].process /\ o.process = None)
         => q \in killing'
  BY <1>1, <1>5, <1>7
<1> QED
  BY <1>8, <1>9, <1>10, <1>11, <1>12, <1>13, FiberStepKeeps

\* A process writes something.
LEMMA OutputKeeps ==
  ASSUME Inv, NEW s \in Sessions, Output(s)
  PROVE  Inv'
<1>1. counts.outputs + 1 \in Nat /\ counts.outputs + 1 # Exit
  BY DEF Inv, TypeOK, Exit
<1>2. counts' = [counts EXCEPT !.outputs = @ + 1]
  BY DEF Output, Count
<1>3. CountTypes' /\ counts'.sessions = counts.sessions /\ counts'.processes = counts.processes
  BY <1>2, TypeParts DEF CountTypes, Inv
<1> QED
  BY <1>1, <1>3, EnqueueKeeps DEF Output

\* A process ends, be it that of a session or one that was let go.
LEMMA ExitKeeps ==
  ASSUME Inv, NEW p \in Processes, Exits(p)
  PROVE  Inv'
<1>1. CountTypes' /\ counts'.sessions = counts.sessions /\ counts'.processes = counts.processes
  BY TypeParts DEF Exits, CountTypes, Inv
<1>2. CASE \E s \in Sessions : session[s].process = p
  <2>1. PICK s \in Sessions : session[s].process = p /\ Enqueue(s, Exit)
    BY <1>2 DEF Exits
  <2>2. session[s].process # None /\ Exit \in Nat
    BY <2>1 DEF Processes, None, Exit
  <2> QED
    BY <1>1, <2>1, <2>2, EnqueueKeeps DEF Exits
<1>3. CASE ~\E s \in Sessions : session[s].process = p
  <2>1. /\ process' = [process EXCEPT ![p] = "dead"] /\ killing' = killing \ {p}
        /\ UNCHANGED <<sessions, session, kept, displaced, fiber, call, store, dropped>>
    BY <1>3 DEF Exits
  <2>2. process'[p] = "dead" /\ \A q \in Processes : q # p => process'[q] = process[q]
    BY <2>1 DEF Inv, TypeOK
  <2>3. TypeOK'
    <3>1. ManagerTypes' /\ StoreTypes' /\ ProcessTypes' /\ FiberTypes' /\ CallTypes'
      BY <2>1, TypeParts DEF Inv, ManagerTypes, StoreTypes, ProcessTypes, FiberTypes, CallTypes, store
    <3> QED
      BY <1>1, <3>1, TypeParts
  <2>4. MapInv'
    <3>1. \A r \in Sessions : session[r].process # None => session[r].process \in Processes
      BY DEF Inv, TypeOK, Objects
    <3>2. MapIsOfTerminals' /\ AreOfTerminals' /\ ProcessesAreSingle'
      BY <1>1, <2>1 DEF Inv, MapInv, MapIsOfTerminals, AreOfTerminals, ProcessesAreSingle
    <3>3. RestIsNew' /\ ProcessesRun'
      BY <1>1, <2>1, <2>2, <3>1 DEF Inv, MapInv, RestIsNew, ProcessesRun, Exits
    <3> QED
      BY <3>2, <3>3 DEF MapInv
  <2>5. CallsHold' /\ FibersHold'
    BY <1>1, <2>1 DEF Inv, CallsHold, CallHolds, FibersHold
  <2>6. EventsAreDrained' /\ DeathIsNoticed'
    <3> SUFFICES ASSUME NEW r \in Sessions PROVE AreDrained(r)' /\ Notices(r)'
      BY DEF EventsAreDrained, DeathIsNoticed
    <3>1. AreDrained(r) /\ Notices(r)
      BY DEF Inv, EventsAreDrained, DeathIsNoticed
    <3>2. session[r].process # None => process'[session[r].process] = process[session[r].process]
      BY <1>3, <2>2 DEF Inv, TypeOK, Objects
    <3> QED
      BY <2>1, <3>1, <3>2 DEF AreDrained, Notices, Drains
  <2>7. NoneAtLarge'
    BY <2>1, <2>2 DEF Inv, NoneAtLarge
  <2>8. HandedIsShown'
    BY <2>1 DEF Inv, HandedIsShown, NonePending, Handed, Transcript, store
  <2> QED
    BY <2>3, <2>4, <2>5, <2>6, <2>7, <2>8 DEF Inv
<1> QED
  BY <1>2, <1>3

\* What a fiber that is at work has in hand.
LEMMA FiberFacts ==
  ASSUME Inv, NEW f \in Fibers, fiber[f].pc # "none"
  PROVE  LET s == fiber[f].session
         IN /\ s \in Sessions /\ s # None /\ s <= counts.sessions /\ session[s] \in Objects
            /\ session[s].terminal \in Terminals
            /\ session[s].events # <<>> => session[s].process # None
            /\ session[s].process # None => session[s].status = "running"
<1>1. fiber[f].session \in Sessions /\ fiber[f].session <= counts.sessions
  BY DEF Inv, FibersHold, TypeOK
<1>2. AreDrained(fiber[f].session)
  BY <1>1 DEF Inv, EventsAreDrained
<1> QED
  BY <1>1, <1>2 DEF Inv, FibersHold, MapInv, AreOfTerminals, ProcessesRun, TypeOK, AreDrained, Objects

\* A fiber ends.
LEMMA TakeNothingKeeps ==
  ASSUME Inv, NEW f \in Fibers, TakeNothing(f)
  PROVE  Inv'
<1> DEFINE s == fiber[f].session
           o == Quieted(session[s])
<1>1. /\ s \in Sessions /\ s <= counts.sessions /\ session[s] \in Objects
      /\ session[s].process # None => session[s].status = "running"
  BY FiberFacts DEF TakeNothing
<1>2. /\ o \in Objects /\ o.terminal = session[s].terminal /\ o.process = session[s].process
      /\ o.status = session[s].status /\ o.history = session[s].history
      /\ o.events = <<>> /\ ~o.draining
  BY <1>1, ObjectTypes
<1>3. /\ fiber[f].pc = "take" /\ session' = [session EXCEPT ![s] = o]
      /\ fiber' = [fiber EXCEPT ![f] = NoFiber] /\ dropped' = dropped \cup Unread(s)
      /\ UNCHANGED <<sessions, recent, kept, displaced, process, killing, call, store, counts>>
  BY DEF TakeNothing
<1>4. \A g \in Fibers : fiber'[g] = IF g = f THEN NoFiber ELSE fiber[g]
  BY <1>3, TypeParts DEF FiberTypes, Inv
<1>5. NoFiber.pc = "none" /\ FiberTypes'
  BY <1>3, TypeParts DEF FiberTypes, NoFiber, Inv
<1>6. fiber[f].session = s
  OBVIOUS
<1> HIDE DEF s, o
<1>7. Changes(s, o)
  <2>1. Sheds(sessions, [session EXCEPT ![s] = o])
    BY <1>3 DEF Sheds, Inv, TypeOK
  <2> QED
    BY <1>1, <1>2, <1>3, <2>1 DEF Changes
<1>8. ProcessTypes' /\ StoreTypes' /\ CountTypes'
  BY <1>3, TypeParts DEF ProcessTypes, StoreTypes, CountTypes, store, Unread, Inv
<1>9. FibersHold'
  BY <1>3, <1>4, <1>5 DEF FibersHold, Inv
<1>10. EventsAreDrained' /\ DeathIsNoticed'
  BY <1>2, <1>3, <1>4, <1>6, <1>7, ChangeQuiets DEF Inv
<1>11. HandedIsShown'
  BY <1>2, <1>3, <1>4, <1>7, ChangeShown DEF Inv
<1>12. \A p \in Processes :
         /\ process'[p] = "alive"
         /\ p \in killing \/ (p = session[s].process /\ o.process = None)
         => p \in killing'
  BY <1>2, <1>3 DEF Processes, None
<1> QED
  BY <1>3, <1>5, <1>7, <1>8, <1>9, <1>10, <1>11, <1>12, FiberStepKeeps

\* A fiber takes an output, and adds it to the transcript.
LEMMA TakeOutputKeeps ==
  ASSUME Inv, NEW f \in Fibers, TakeOutput(f)
  PROVE  Inv'
<1> DEFINE s == fiber[f].session
           rest == Tail(session[s].events)
           history == Append(session[s].history, Head(session[s].events))
           o == [session[s] EXCEPT !.events = rest, !.history = history]
           b == [fiber[f] EXCEPT !.pc = "persist", !.history = history]
<1>1. /\ s \in Sessions /\ s # None /\ s <= counts.sessions /\ session[s] \in Objects
      /\ session[s].terminal \in Terminals
      /\ session[s].process # None /\ session[s].status = "running"
      /\ session[s].events # <<>> /\ fiber[f].pc = "take"
  BY FiberFacts DEF TakeOutput
<1>2. /\ rest \in Seq(Nat) /\ history \in Seq(Nat)
      /\ Range(rest) \subseteq Range(session[s].events)
      /\ Exit \in Range(session[s].events) => Exit \in Range(rest)
  <2>1. session[s].events \in Seq(Nat) /\ session[s].history \in Seq(Nat)
    BY <1>1 DEF Objects
  <2>2. Head(session[s].events) # Exit
    BY DEF TakeOutput
  <2> QED
    BY <1>1, <2>1, <2>2, SeqRange
<1>3. /\ fiber[f].session = s /\ session' = [session EXCEPT ![s] = o]
      /\ fiber' = [fiber EXCEPT ![f] = b]
      /\ UNCHANGED <<sessions, kept, displaced, process, killing, call, store, counts, dropped>>
  BY DEF TakeOutput, Keep
<1> HIDE DEF rest, history
<1>4. /\ o \in Objects /\ o.terminal = session[s].terminal /\ o.process = session[s].process
      /\ o.status = "running" /\ o.events = rest /\ o.draining = session[s].draining
  BY <1>1, <1>2 DEF Objects
<1>5. /\ b.pc = "persist" /\ b.session = s /\ b.process = fiber[f].process
      /\ b \in [pc : {"none", "take", "persist", "evict"}, history : Seq(Nat),
                session : Sessions \cup {None}, process : Processes \cup {None}]
  BY <1>2, <1>3, TypeParts DEF FiberTypes, Inv
<1> HIDE DEF s, o, b
<1>6. \A g \in Fibers : fiber'[g] = IF g = f THEN b ELSE fiber[g]
  BY <1>3, TypeParts DEF FiberTypes, Inv
<1>7. FiberTypes' /\ FibersHold'
  BY <1>1, <1>3, <1>5, <1>6, TypeParts DEF FiberTypes, FibersHold, Inv
<1>8. /\ session'[s] = o /\ \A r \in Sessions : r # s => session'[r] = session[r]
      /\ \A r \in Sessions : session'[r].terminal = session[r].terminal
  BY <1>1, <1>3, <1>4 DEF Inv, TypeOK
<1>9. Changes(s, o)
  <2>1. Sheds(sessions, [session EXCEPT ![s] = o])
    BY <1>3 DEF Sheds, Inv, TypeOK
  <2> QED
    BY <1>1, <1>3, <1>4, <2>1 DEF Changes
<1>10. EventsAreDrained' /\ DeathIsNoticed'
  <2> SUFFICES ASSUME NEW r \in Sessions PROVE AreDrained(r)' /\ Notices(r)'
    BY DEF EventsAreDrained, DeathIsNoticed
  <2>1. AreDrained(r) /\ Notices(r)
    BY DEF Inv, EventsAreDrained, DeathIsNoticed
  <2>2. \A p : (\E g \in Fibers : Drains(g, r, p) /\ fiber[g].pc \in {"take", "persist"})
               => \E g \in Fibers : Drains(g, r, p)' /\ fiber'[g].pc \in {"take", "persist"}
    BY <1>3, <1>5, <1>6 DEF Drains
  <2>3. CASE r = s
    <3>1. session'[r].process = session[r].process /\ session'[r].draining = session[r].draining
          /\ session'[r].events = rest
      BY <1>4, <1>8, <2>3
    <3>2. /\ session[r].draining /\ session[r].process # None
          /\ \E g \in Fibers : /\ fiber[g].session = r /\ fiber[g].process = session[r].process
                              /\ fiber[g].pc \in {"take", "persist"}
      BY <1>1, <2>1, <2>3 DEF AreDrained, Drains
    <3>3. \E g \in Fibers : /\ fiber'[g].session = r /\ fiber'[g].process = session[r].process
                            /\ fiber'[g].pc \in {"take", "persist"} /\ fiber'[g].pc # "none"
      BY <1>3, <1>5, <1>6, <3>2
    <3>4. Exit \in Range(rest) <=> Exit \in Range(session[r].events)
      BY <1>2, <2>3
    <3>5. AreDrained(r)'
      BY <1>3, <2>1, <3>1, <3>2, <3>3, <3>4 DEF AreDrained, Drains
    <3>6. Notices(r)'
      BY <1>3, <2>1, <3>1, <3>3, <3>4 DEF Notices, Drains
    <3> QED
      BY <3>5, <3>6
  <2>4. CASE r # s
    <3>1. session'[r] = session[r]
      BY <1>8, <2>4
    <3> QED
      BY <1>3, <2>1, <2>2, <3>1 DEF AreDrained, Notices, Drains
  <2> QED
    BY <2>3, <2>4
<1>11. HandedIsShown'
  <2> SUFFICES ASSUME NEW u \in Terminals, NonePending(u)', u \notin stale'
               PROVE  Handed(u)' = Transcript(u)'
    BY DEF HandedIsShown
  <2>1. session[s].terminal # u
    BY <1>5, <1>6, <1>8, <1>1 DEF NonePending
  <2>2. NonePending(u)
    BY <1>1, <1>6, <1>8, <2>1 DEF NonePending, Inv, FibersHold, TypeOK
  <2>3. Handed(u)' = Handed(u) /\ Handed(u) = Transcript(u)
    BY <1>3, <2>2 DEF Inv, HandedIsShown, Handed, store
  <2>4. sessions[u] # s
    BY <1>1, <2>1 DEF Inv, MapInv, MapIsOfTerminals
  <2> QED
    BY <1>9, <2>3, <2>4, ChangeTranscript DEF Inv
<1>12. ProcessTypes' /\ StoreTypes' /\ CountTypes'
  BY <1>3, TypeParts DEF ProcessTypes, StoreTypes, CountTypes, store, Inv
<1>13. \A p \in Processes :
         /\ process'[p] = "alive"
         /\ p \in killing \/ (p = session[s].process /\ o.process = None)
         => p \in killing'
  BY <1>1, <1>3, <1>4
<1> QED
  BY <1>3, <1>7, <1>9, <1>10, <1>11, <1>12, <1>13, FiberStepKeeps

\* A fiber hands over the transcript as it was when it took the output.
LEMMA PersistOutputKeeps ==
  ASSUME Inv, NEW f \in Fibers, PersistOutput(f)
  PROVE  Inv'
<1> DEFINE s == fiber[f].session
           t == session[s].terminal
           empty == <<>>
           b == [fiber[f] EXCEPT !.pc = "take", !.history = empty]
<1>1. s \in Sessions /\ s <= counts.sessions /\ t \in Terminals /\ s # None
  BY FiberFacts DEF PersistOutput
<1>2. /\ fiber[f].pc = "persist" /\ fiber' = [fiber EXCEPT ![f] = b]
      /\ queued' = [queued EXCEPT ![t] = Value(fiber[f].history)]
      /\ stale' = IF fiber[f].history = Transcript(t) THEN stale \ {t} ELSE stale \cup {t}
      /\ UNCHANGED <<manager, process, killing, call, file, writing, counts, dropped>>
  BY DEF PersistOutput
<1>3. empty \in Seq(Nat)
  OBVIOUS
<1> HIDE DEF empty
<1>4. /\ b.pc = "take" /\ b.session = s /\ b.process = fiber[f].process
      /\ b \in [pc : {"none", "take", "persist", "evict"}, history : Seq(Nat),
                session : Sessions \cup {None}, process : Processes \cup {None}]
  BY <1>3, TypeParts DEF FiberTypes, Inv
<1>5. fiber[f].session = s /\ session[s].terminal = t
  OBVIOUS
<1> HIDE DEF s, t, b
<1>6. \A g \in Fibers : fiber'[g] = IF g = f THEN b ELSE fiber[g]
  BY <1>2, TypeParts DEF FiberTypes, Inv
<1>7. TypeOK'
  <2>1. FiberTypes'
    BY <1>2, <1>4, TypeParts DEF FiberTypes, Inv
  <2>2. StoreTypes'
    <3>1. Value(fiber[f].history) \in Values
      BY TypeParts DEF Value, Values, FiberTypes, Inv
    <3> QED
      BY <1>1, <1>2, <3>1, TypeParts DEF StoreTypes, Inv
  <2>3. ManagerTypes' /\ ProcessTypes' /\ CallTypes' /\ CountTypes'
    BY <1>2, TypeParts DEF ManagerTypes, ProcessTypes, CallTypes, CountTypes, manager, Inv
  <2> QED
    BY <2>1, <2>2, <2>3, TypeParts
<1>8. MapInv' /\ CallsHold'
  BY <1>2 DEF Inv, MapInv, MapIsOfTerminals, AreOfTerminals, RestIsNew, ProcessesRun,
              ProcessesAreSingle, CallsHold, CallHolds, manager
<1>9. FibersHold'
  BY <1>1, <1>2, <1>4, <1>6 DEF FibersHold, Inv
<1>10. EventsAreDrained' /\ DeathIsNoticed'
  <2> SUFFICES ASSUME NEW r \in Sessions PROVE AreDrained(r)' /\ Notices(r)'
    BY DEF EventsAreDrained, DeathIsNoticed
  <2>1. AreDrained(r) /\ Notices(r)
    BY DEF Inv, EventsAreDrained, DeathIsNoticed
  <2>2. UNCHANGED <<session, process, dropped>>
    BY <1>2 DEF manager
  <2>3. ASSUME NEW p, NEW g \in Fibers, Drains(g, r, p), fiber[g].pc \in {"take", "persist"}
        PROVE  \E h \in Fibers : /\ fiber'[h].session = r /\ fiber'[h].process = p
                                 /\ fiber'[h].pc \in {"take", "persist"} /\ fiber'[h].pc # "none"
    BY <1>4, <1>5, <1>6, <2>3 DEF Drains
  <2>4. AreDrained(r)'
    BY <2>1, <2>2, <2>3 DEF AreDrained, Drains
  <2>5. Notices(r)'
    BY <2>1, <2>2, <2>4 DEF Notices, AreDrained
  <2> QED
    BY <2>4, <2>5
<1>11. NoneAtLarge'
  BY <1>2 DEF Inv, NoneAtLarge, manager
<1>12. HandedIsShown'
  <2> SUFFICES ASSUME NEW u \in Terminals, NonePending(u)', u \notin stale'
               PROVE  Handed(u)' = Transcript(u)'
    BY DEF HandedIsShown
  <2>1. Transcript(u)' = Transcript(u)
    BY <1>2 DEF Transcript, manager
  <2>2. CASE u = t
    BY <1>1, <1>2, <2>1, <2>2 DEF Handed, Value, Inv, TypeOK
  <2>3. CASE u # t
    <3>1. NonePending(u)
      BY <1>2, <1>5, <1>6, <2>3 DEF NonePending, manager
    <3> QED
      BY <1>2, <2>1, <2>3, <3>1 DEF Handed, Inv, HandedIsShown, TypeOK
  <2> QED
    BY <2>2, <2>3
<1> QED
  BY <1>7, <1>8, <1>9, <1>10, <1>11, <1>12 DEF Inv

\* A fiber takes the exit: the session lets its process go, which is dead.
LEMMA TakeExitKeeps ==
  ASSUME Inv, NEW f \in Fibers, TakeExit(f)
  PROVE  Inv'
<1> DEFINE s == fiber[f].session
           o == Stopped(session[s])
           b == [fiber[f] EXCEPT !.pc = "evict"]
<1>1. /\ s \in Sessions /\ s # None /\ s <= counts.sessions /\ session[s] \in Objects
      /\ session[s].process # None /\ session[s].process \in Processes
      /\ session[s].events # <<>> /\ fiber[f].pc = "take"
  BY FiberFacts DEF TakeExit, Objects
<1>2. /\ o \in Objects /\ o.terminal = session[s].terminal /\ o.process = None
      /\ o.history = session[s].history /\ o.events = <<>> /\ ~o.draining
  BY <1>1, ObjectTypes
<1>3. process[session[s].process] = "dead"
  <2>1. Exit \in Range(session[s].events)
    BY <1>1, SeqRange DEF TakeExit, Objects
  <2> QED
    BY <1>1, <2>1 DEF Inv, EventsAreDrained, AreDrained
<1>4. /\ fiber[f].session = s /\ session' = [session EXCEPT ![s] = o]
      /\ fiber' = [fiber EXCEPT ![f] = b]
      /\ UNCHANGED <<sessions, kept, displaced, process, killing, call, store, counts, dropped>>
  BY DEF TakeExit, Keep
<1>5. /\ b.pc = "evict" /\ b.session = s
      /\ b \in [pc : {"none", "take", "persist", "evict"}, history : Seq(Nat),
                session : Sessions \cup {None}, process : Processes \cup {None}]
  BY TypeParts DEF FiberTypes, Inv
<1> HIDE DEF s, o, b
<1>6. \A g \in Fibers : fiber'[g] = IF g = f THEN b ELSE fiber[g]
  BY <1>4, TypeParts DEF FiberTypes, Inv
<1>7. FiberTypes' /\ FibersHold'
  BY <1>1, <1>4, <1>5, <1>6, TypeParts DEF FiberTypes, FibersHold, Inv
<1>8. Changes(s, o)
  <2>1. Sheds(sessions, [session EXCEPT ![s] = o])
    BY <1>4 DEF Sheds, Inv, TypeOK
  <2> QED
    BY <1>1, <1>2, <1>4, <2>1 DEF Changes
<1>9. EventsAreDrained' /\ DeathIsNoticed'
  BY <1>2, <1>4, <1>6, <1>8, ChangeQuiets DEF Inv
<1>10. HandedIsShown'
  BY <1>1, <1>2, <1>4, <1>6, <1>8, ChangeShown DEF Inv
<1>11. ProcessTypes' /\ StoreTypes' /\ CountTypes'
  BY <1>4, TypeParts DEF ProcessTypes, StoreTypes, CountTypes, store, Inv
<1>12. \A p \in Processes :
         /\ process'[p] = "alive"
         /\ p \in killing \/ (p = session[s].process /\ o.process = None)
         => p \in killing'
  BY <1>3, <1>4
<1> QED
  BY <1>4, <1>7, <1>8, <1>9, <1>10, <1>11, <1>12, FiberStepKeeps

\* A fiber that has taken the exit evicts, and ends.
LEMMA EvictAfterExitKeeps ==
  ASSUME Inv, NEW f \in Fibers, EvictAfterExit(f)
  PROVE  Inv'
<1> DEFINE s == fiber[f].session
           o == session[s]
<1>1. /\ s \in Sessions /\ s # None /\ s <= counts.sessions /\ o \in Objects
      /\ o.process # None => o.status = "running"
  BY FiberFacts DEF EvictAfterExit
<1>2. /\ fiber[f].pc = "evict" /\ fiber' = [fiber EXCEPT ![f] = NoFiber]
      /\ UNCHANGED <<session, call, process, killing, store, counts, dropped>>
  BY DEF EvictAfterExit, Evict
<1>3. Sheds(sessions, [session EXCEPT ![s] = o])
  <2>1. [session EXCEPT ![s] = o] = session
    BY <1>1 DEF Inv, TypeOK
  <2>2. Sheds(sessions, session)
    BY EvictSheds DEF EvictAfterExit, Inv, TypeOK
  <2> QED
    BY <2>1, <2>2
<1>4. o = session[s]
  OBVIOUS
<1> HIDE DEF s, o
<1>5. Changes(s, o)
  BY <1>1, <1>2, <1>3, <1>4 DEF Changes
<1>6. \A g \in Fibers : fiber'[g] = IF g = f THEN NoFiber ELSE fiber[g]
  BY <1>2, TypeParts DEF FiberTypes, Inv
<1>7. NoFiber.pc = "none" /\ FiberTypes'
  BY <1>2, TypeParts DEF FiberTypes, NoFiber, Inv
<1>8. FibersHold'
  BY <1>2, <1>6, <1>7 DEF FibersHold, Inv
<1>9. EventsAreDrained' /\ DeathIsNoticed'
  <2> SUFFICES ASSUME NEW r \in Sessions PROVE AreDrained(r)' /\ Notices(r)'
    BY DEF EventsAreDrained, DeathIsNoticed
  <2>1. AreDrained(r) /\ Notices(r)
    BY DEF Inv, EventsAreDrained, DeathIsNoticed
  <2>2. \A g \in Fibers : fiber[g].pc \in {"take", "persist"} => fiber'[g] = fiber[g]
    BY <1>2, <1>6
  <2>3. AreDrained(r)'
    BY <1>2, <2>1, <2>2 DEF AreDrained, Drains
  <2>4. Notices(r)'
    BY <1>2, <2>1, <2>3 DEF Notices, AreDrained
  <2> QED
    BY <2>3, <2>4
<1>10. HandedIsShown'
  BY <1>2, <1>4, <1>5, <1>6, ChangeShown DEF Inv
<1>11. ProcessTypes' /\ StoreTypes' /\ CountTypes'
  BY <1>2, TypeParts DEF ProcessTypes, StoreTypes, CountTypes, store, Inv
<1>12. \A p \in Processes :
         /\ process'[p] = "alive"
         /\ p \in killing \/ (p = session[s].process /\ o.process = None)
         => p \in killing'
  BY <1>2, <1>4 DEF Processes, None
<1> QED
  BY <1>2, <1>5, <1>7, <1>8, <1>9, <1>10, <1>11, <1>12, FiberStepKeeps

-----------------------------------------------------------------------------
(* The theorems                                                            *)

\* Every step keeps the invariant.
LEMMA NextKeeps == Inv /\ [Next]_vars => Inv'
<1> SUFFICES ASSUME Inv, [Next]_vars PROVE Inv'
  OBVIOUS
<1>1. ASSUME NEW t \in Terminals, Open(t) \/ ClearEnds(t) \/ Interrupt(t)
      PROVE  Inv'
  BY <1>1, WaitersKeep
<1>2. ASSUME NEW t \in Terminals, Opened(t) \/ RestartNew(t)
      PROVE  Inv'
  BY <1>2, NewKeeps
<1>3. ASSUME NEW t \in Terminals, Renew(t)
      PROVE  Inv'
  BY <1>3, RenewKeeps
<1>4. ASSUME NEW t \in Terminals, Renewed(t) \/ OpenLeft(t)
      PROVE  Inv'
  BY <1>4, StartKeeps
<1>5. ASSUME NEW t \in Terminals, Spawned(t) \/ SpawnFails(t)
      PROVE  Inv'
  BY <1>5, SpawnedKeeps, SpawnFailsKeeps
<1>6. ASSUME NEW t \in Terminals, Clear(t)
      PROVE  Inv'
  BY <1>6, ClearKeeps
<1>7. ASSUME NEW t \in Terminals, NEW pc \in {"close", "delete"}, Close(t, pc)
      PROVE  Inv'
  BY <1>7, CloseKeeps, WaitersKeep
<1>8. ASSUME NEW t \in Terminals, Closed(t) \/ DeleteThread(t)
      PROVE  Inv'
  BY <1>8, ClosedKeeps, DeleteKeeps
<1>9. ASSUME NEW t \in Terminals, WriteBegins(t) \/ WriteEnds(t)
      PROVE  Inv'
  BY <1>9, WriteKeeps
<1>10. ASSUME NEW s \in Sessions, Output(s)
       PROVE  Inv'
  BY <1>10, OutputKeeps
<1>11. ASSUME NEW p \in Processes, Exits(p)
       PROVE  Inv'
  BY <1>11, ExitKeeps
<1>12. ASSUME NEW f \in Fibers, TakeNothing(f) \/ TakeOutput(f) \/ PersistOutput(f)
       PROVE  Inv'
  BY <1>12, TakeNothingKeeps, TakeOutputKeeps, PersistOutputKeeps
<1>13. ASSUME NEW f \in Fibers, TakeExit(f) \/ EvictAfterExit(f)
       PROVE  Inv'
  BY <1>13, TakeExitKeeps, EvictAfterExitKeeps
<1>14. CASE UNCHANGED vars
  <2>1. UNCHANGED <<manager, process, killing, fiber, call, store, counts, dropped>>
    BY <1>14 DEF vars
  <2>2. TypeOK'
    BY <2>1 DEF Inv, TypeOK, manager, store
  <2>3. CallsHold' /\ HandedIsShown'
    BY <2>1 DEF Inv, CallsHold, CallHolds, HandedIsShown, NonePending, Handed, Transcript,
                manager, store
  <2> QED
    BY <2>1, <2>2, <2>3, StillKeeps DEF Inv, manager
<1> QED
  BY <1>1, <1>2, <1>3, <1>4, <1>5, <1>6, <1>7, <1>8, <1>9, <1>10, <1>11, <1>12, <1>13, <1>14 DEF Next

\* The invariant holds of every behaviour.
THEOREM Invariance == Spec => []Inv
<1> QED
  BY InvInit, NextKeeps, PTL DEF Spec

\* Type correctness, whatever the number of terminals, sessions, calls and fibers.
THEOREM TypeCorrect == Spec => []TypeOK
<1>1. Inv => TypeOK
  BY DEF Inv
<1> QED
  BY <1>1, Invariance, PTL

\* No living process is out of the manager's reach: it is that of a session in the map, is
\* being killed, or is that of a session evicted between two steps of the call that
\* starts it.
THEOREM NothingAtLarge == Spec => []NoneAtLarge
<1>1. Inv => NoneAtLarge
  BY DEF Inv
<1> QED
  BY <1>1, Invariance, PTL

\* A session whose process has died finds out, unless a clear or the fiber of an earlier
\* process has discarded the exit.
THEOREM DeathsAreNoticed == Spec => []DeathIsNoticed
<1>1. Inv => DeathIsNoticed
  BY DEF Inv
<1> QED
  BY <1>1, Invariance, PTL

\* The file of a terminal at rest holds what it shows, or showed last, unless what was
\* handed to the persist worker was out of date.
THEOREM TranscriptsAreStored == Spec => []TranscriptIsStored
<1>1. Inv => TranscriptIsStored
  BY DEF Inv, HandedIsShown, TranscriptIsStored, Handed, Drained
<1> QED
  BY <1>1, Invariance, PTL

=============================================================================
