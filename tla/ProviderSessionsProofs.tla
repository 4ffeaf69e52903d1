------------------------ MODULE ProviderSessionsProofs ------------------------
(***************************************************************************)
(* The safety of ProviderSessions, for any instances, modes, turns,        *)
(* commands and faults: what the state is made of (Typed), the five        *)
(* invariants that a run checks, and the invariants that they rest on.     *)
(***************************************************************************)
EXTENDS ProviderSessions, TLAPS

-----------------------------------------------------------------------------
(* What the state is made of.                                              *)

AllTurns == Turns \cup OwnTurns
TurnIds == AllTurns \cup {NoTurn}
Request == [type : {"turn"}, turn : Turns, at : Instances]
           \cup [type : {"mode", "stop", "interrupt"}]
RuntimeEvent == [type : {"session.started", "session.exited"}]
                \cup [type : {"turn.started", "turn.completed"}, turn : AllTurns]
SessionRow == [status : {"ready", "running", "stopped"}, turn : TurnIds, mode : Modes]
Sessions == [turn : TurnIds, mode : Modes, sends : SUBSET Turns]
BindingRow == [status : {"running", "stopped"}, at : Instances, mode : Modes, idle : BOOLEAN]
Outcomes == {"none", "requested", "sent", "reported", "lost"}

Starts == {"start", "spawn", "record"}
StopPlaces == {"stopRoute", "stop", "stopRecord"}
SendPlaces ==
  {"idle", "route", "recover", "deliver", "sending", "recordTurn", "report"} \cup Starts

\* Where the reactor may be with a request.
ReactorPlaces(type) ==
  CASE type = "none" -> {"idle"}
    [] type = "turn" -> {"ensure", "bind", "report"} \cup Starts
    [] type = "mode" -> {"ensure", "bind"} \cup Starts
    [] type = "interrupt" -> {"route", "recover", "deliver"} \cup Starts
    [] type = "stop" -> {"setStopped"} \cup StopPlaces

Places == {"check", "ensure", "bind", "setStopped"} \cup SendPlaces \cup StopPlaces
CallRecord == [pc : Places, event : Request \cup {NoEvent}, at : Instances \cup {NoInstance},
               mode : Modes, stale : SUBSET Instances]

\* At these a caller holds what a binding said.
Routed == {"recover", "deliver", "sending", "recordTurn", "stop", "stopRecord"}

TypeOK ==
  /\ patient \in BOOLEAN /\ alive \in BOOLEAN /\ mode \in Modes
  /\ session \in SessionRow \cup {None} /\ own \in Nat
  /\ outcome \in [Turns -> Outcomes]
  /\ queue \in Seq(Request) /\ chosen \in Instances \cup {NoInstance}
  /\ calls \in [Callers -> CallRecord]
  /\ live \in [Instances -> Sessions \cup {NoSession}]
  /\ orphans \in [Instances -> SUBSET Sessions]
  /\ binding \in BindingRow \cup {None}
  /\ events \in [Instances -> Seq(RuntimeEvent)]
  /\ ingest \in [event : RuntimeEvent, seen : SessionRow \cup {None}] \cup {NotIngesting}
  /\ crashed \in BOOLEAN /\ clobbered \in BOOLEAN /\ switched \in BOOLEAN

\* Where a caller may be with a request, and what its record holds there.
PlacesOf(c, type) ==
  IF c = Reactor THEN ReactorPlaces(type)
  ELSE IF c = Deletion THEN {"idle"} \cup StopPlaces
  ELSE IF c = Reaper THEN {"idle", "check"} \cup StopPlaces
  ELSE SendPlaces

Fits(c, call, bound) ==
  /\ call.pc \in PlacesOf(c, call.event.type)
  /\ c # Reactor => call.event = NoEvent
  /\ call.pc = "idle" => call = Idle
  /\ call.pc \in Routed \cup Starts \cup {"bind"} => call.at \in Instances
  /\ call.pc \in Routed \cup {"bind"} => bound
  /\ call.pc \in Starts /\ (c # Reactor \/ call.event.type = "interrupt") => bound

InPlace == \A c \in Callers : Fits(c, calls[c], binding # None)
Stopped == session # None /\ session.status = "stopped" => session.turn = NoTurn

Typed == TypeOK /\ InPlace /\ Stopped

-----------------------------------------------------------------------------
(* Callers and their records.                                              *)

LEMMA CallersAre ==
  /\ Reactor \in Callers /\ Deletion \in Callers /\ Reaper \in Callers
  /\ \A t \in Turns : Fiber(t) \in Callers
  /\ Reactor # Deletion /\ Reactor # Reaper /\ Deletion # Reaper
  /\ \A t \in Turns : Fiber(t) # Reactor /\ Fiber(t) # Deletion /\ Fiber(t) # Reaper
  /\ \A t, u \in Turns : Fiber(t) = Fiber(u) => t = u
  /\ \A c \in Callers \ {Reactor, Deletion, Reaper} : \E t \in Turns : c = Fiber(t)
  BY DEF Callers, Reactor, Deletion, Reaper, Fiber

LEMMA NothingIs ==
  /\ None \notin SessionRow /\ None \notin BindingRow /\ NoEvent \notin Request
  /\ NoSession \notin Sessions /\ NoEvent \notin RuntimeEvent /\ NoTurn \notin AllTurns
  /\ NoTurn \notin Turns /\ Turns \subseteq AllTurns
  /\ \A e \in Request : e.type = "turn" => e.turn \in Turns /\ e.at \in Instances
  /\ \A e \in RuntimeEvent : e.type \in {"turn.started", "turn.completed"} => e.turn \in AllTurns
  BY SessionsAssumption DEF None, SessionRow, BindingRow, NoEvent, Request, NoSession, Sessions,
     RuntimeEvent, NoTurn, Turns, OwnTurns, AllTurns

LEMMA TurnOfIs ==
  /\ \A t \in Turns : TurnOf(Fiber(t)) = t
  /\ TurnOf(Reactor) = IF calls[Reactor].event.type = "turn" THEN calls[Reactor].event.turn ELSE NoTurn
  BY DEF TurnOf, Fiber, Reactor

\* What one caller becomes, the others staying where they are.
Becomes(c, call) == calls' = [calls EXCEPT ![c] = call]
At(c, pc) == [calls[c] EXCEPT !.pc = pc]

LEMMA AtIs ==
  ASSUME NEW r \in CallRecord, NEW pc \in Places
  PROVE  /\ [r EXCEPT !.pc = pc] \in CallRecord
         /\ [r EXCEPT !.pc = pc].pc = pc /\ [r EXCEPT !.pc = pc].event = r.event
         /\ [r EXCEPT !.pc = pc].at = r.at /\ [r EXCEPT !.pc = pc].mode = r.mode
         /\ [r EXCEPT !.pc = pc].stale = r.stale
  BY DEF CallRecord

LEMMA IdleIs ==
  /\ Idle \in CallRecord /\ Idle.pc = "idle" /\ Idle.event = NoEvent /\ Idle.at = NoInstance
  /\ Idle.stale = {} /\ Idle.mode = InitialMode /\ NoEvent.type = "none"
  BY SessionsAssumption DEF Idle, CallRecord, Places, SendPlaces, NoEvent

\* A caller that is idle fits everywhere.
LEMMA IdleFits ==
  ASSUME NEW c \in Callers, NEW bound
  PROVE  Fits(c, Idle, bound)
  BY IdleIs DEF Fits, PlacesOf, ReactorPlaces, StopPlaces, SendPlaces, Routed, Starts

LEMMA MovedFits ==
  ASSUME Typed, NEW c \in Callers, NEW call \in CallRecord, Becomes(c, call),
         binding # None => binding' # None, Fits(c, call, binding' # None)
  PROVE  /\ calls' \in [Callers -> CallRecord] /\ InPlace'
         /\ calls'[c] = call /\ \A d \in Callers : d # c => calls'[d] = calls[d]
<1>1. /\ calls' \in [Callers -> CallRecord]
      /\ calls'[c] = call /\ \A d \in Callers : d # c => calls'[d] = calls[d]
  BY DEF Typed, TypeOK, Becomes
<1>2. ASSUME NEW d \in Callers, d # c
      PROVE  Fits(d, calls'[d], binding' # None)
  BY <1>1, <1>2 DEF Typed, InPlace, Fits
<1> QED
  BY <1>1, <1>2 DEF InPlace

LEMMA GotoIs ==
  ASSUME Typed, NEW c \in Callers, NEW pc \in Places, Goto(c, pc),
         binding # None => binding' # None, Fits(c, At(c, pc), binding' # None)
  PROVE  /\ calls' \in [Callers -> CallRecord] /\ InPlace'
         /\ calls'[c] = At(c, pc) /\ \A d \in Callers : d # c => calls'[d] = calls[d]
<1>1. calls[c] \in CallRecord /\ Becomes(c, At(c, pc))
  BY DEF Typed, TypeOK, Goto, Becomes, At
<1>2. At(c, pc) \in CallRecord
  BY <1>1, AtIs DEF At
<1> QED
  BY <1>1, <1>2, MovedFits

LEMMA ReturnIs ==
  ASSUME Typed, NEW c \in Callers, Return(c), binding # None => binding' # None
  PROVE  /\ calls' \in [Callers -> CallRecord] /\ InPlace'
         /\ calls'[c] = Idle /\ \A d \in Callers : d # c => calls'[d] = calls[d]
<1>1. Becomes(c, Idle) /\ Idle \in CallRecord /\ Fits(c, Idle, binding' # None)
  BY IdleIs, IdleFits DEF Return, Becomes
<1> QED
  BY <1>1, MovedFits

\* A caller fails with its turn, or without one.
LEMMA FailIs ==
  ASSUME Typed, NEW c \in Callers, Fail(c), binding # None => binding' # None,
         calls[c].pc # "idle"
  PROVE  /\ calls' \in [Callers -> CallRecord] /\ InPlace'
         /\ \A d \in Callers : d # c => calls'[d] = calls[d]
         /\ \/ TurnOf(c) = NoTurn /\ calls'[c] = Idle
            \/ TurnOf(c) # NoTurn /\ calls'[c] = At(c, "report")
<1>1. CASE TurnOf(c) = NoTurn
  BY <1>1, ReturnIs DEF Fail
<1>2. CASE TurnOf(c) # NoTurn
  <2>1. Goto(c, "report") /\ "report" \in Places
    BY <1>2 DEF Fail, Places, SendPlaces
  <2>2. calls[c] \in CallRecord /\ Fits(c, calls[c], binding # None)
    BY DEF Typed, TypeOK, InPlace
  <2>3. c = Reactor \/ \E t \in Turns : c = Fiber(t)
    <3>1. CASE c = Deletion
      BY <1>2, <3>1, <2>2, CallersAre, IdleIs DEF TurnOf, Fits, Deletion
    <3>2. CASE c = Reaper
      BY <1>2, <3>2, <2>2, CallersAre, IdleIs DEF TurnOf, Fits, Reaper
    <3> QED
      BY <3>1, <3>2, CallersAre
  <2>4. c = Reactor => calls[c].event.type = "turn"
    BY <1>2, TurnOfIs
  <2>5. At(c, "report") \in CallRecord /\ At(c, "report").pc = "report"
        /\ At(c, "report").event = calls[c].event
    BY <2>1, <2>2, AtIs DEF At
  <2>6. Fits(c, At(c, "report"), binding' # None)
    BY <2>2, <2>3, <2>4, <2>5, CallersAre
       DEF Fits, PlacesOf, ReactorPlaces, SendPlaces, Routed, Starts
  <2> QED
    BY <1>2, <2>1, <2>6, GotoIs
<1> QED
  BY <1>1, <1>2

-----------------------------------------------------------------------------
(* What is reported, and what is live.                                     *)

LEMMA NewsTyped ==
  /\ Started \in Seq(RuntimeEvent) /\ Exited \in Seq(RuntimeEvent)
  /\ \A t \in TurnIds : Completed(t) \in Seq(RuntimeEvent)
  /\ \A t \in AllTurns : Begun(t) \in Seq(RuntimeEvent)
  /\ \A s, r \in Seq(RuntimeEvent) : s \o r \in Seq(RuntimeEvent)
<1>1. \A e \in RuntimeEvent : <<e>> \in Seq(RuntimeEvent)
  OBVIOUS
<1>2. \A t \in AllTurns : [type |-> "turn.completed", turn |-> t] \in RuntimeEvent
                       /\ [type |-> "turn.started", turn |-> t] \in RuntimeEvent
  BY DEF RuntimeEvent
<1>3. [type |-> "session.started"] \in RuntimeEvent /\ [type |-> "session.exited"] \in RuntimeEvent
  BY DEF RuntimeEvent
<1>4. \A t \in TurnIds : Completed(t) \in Seq(RuntimeEvent)
  <2> SUFFICES ASSUME NEW t \in TurnIds PROVE Completed(t) \in Seq(RuntimeEvent)
    OBVIOUS
  <2>1. CASE t = NoTurn
    BY <2>1 DEF Completed
  <2>2. CASE t # NoTurn
    BY <2>2, <1>1, <1>2 DEF Completed, TurnIds
  <2> QED
    BY <2>1, <2>2
<1>5. Started \in Seq(RuntimeEvent) /\ Exited \in Seq(RuntimeEvent)
  <2>1. PICK e \in RuntimeEvent : e = [type |-> "session.started"]
    BY <1>3
  <2>2. PICK x \in RuntimeEvent : x = [type |-> "session.exited"]
    BY <1>3
  <2>3. Started = <<e>> /\ Exited = <<x>>
    BY <2>1, <2>2 DEF Started, Exited
  <2> QED
    BY <1>1, <2>3
<1>6. ASSUME NEW t \in AllTurns PROVE Begun(t) \in Seq(RuntimeEvent)
  <2>1. PICK e \in RuntimeEvent : e = [type |-> "turn.started", turn |-> t]
    BY <1>2
  <2> QED
    BY <1>1, <2>1 DEF Begun
<1>7. \A s, r \in Seq(RuntimeEvent) : s \o r \in Seq(RuntimeEvent)
  OBVIOUS
<1> QED
  BY <1>4, <1>5, <1>6, <1>7

LEMMA ReportedIs ==
  ASSUME TypeOK, NEW i \in Instances, NEW news \in Seq(RuntimeEvent), Reported(i, news)
  PROVE  /\ events' \in [Instances -> Seq(RuntimeEvent)] /\ events'[i] = events[i] \o news
         /\ \A j \in Instances : j # i => events'[j] = events[j]
<1>1. events \in [Instances -> Seq(RuntimeEvent)]
  BY DEF TypeOK
<1>2. events[i] \o news \in Seq(RuntimeEvent)
  BY <1>1
<1>3. events' = [events EXCEPT ![i] = events[i] \o news]
  BY DEF Reported
<1> QED
  BY <1>1, <1>2, <1>3

LEMMA LiveIs ==
  ASSUME TypeOK, NEW i \in Instances
  PROVE  /\ live[i].turn \in TurnIds /\ live[i] \in Sessions \cup {NoSession}
         /\ Live(i) => live[i] \in Sessions
         /\ NoSession.turn = NoTurn /\ NoSession \in Sessions \cup {NoSession}
         /\ Completed(live[i].turn) \in Seq(RuntimeEvent)
         /\ \A t \in TurnIds : Live(i) => [live[i] EXCEPT !.turn = t] \in Sessions
         /\ \A m \in Modes : Session(m) \in Sessions /\ Session(m).turn = NoTurn
         /\ live[i].turn # NoTurn => Live(i)
         /\ AtWork(i) \subseteq Sessions
<1>1. live[i] \in Sessions \cup {NoSession}
  BY DEF TypeOK
<1>2. NoSession.turn = NoTurn /\ NoSession \in Sessions \cup {NoSession}
  BY DEF NoSession
<1>3. \A s \in Sessions : s.turn \in TurnIds /\ \A t \in TurnIds : [s EXCEPT !.turn = t] \in Sessions
  BY DEF Sessions
<1>4. live[i].turn \in TurnIds /\ (Live(i) => live[i] \in Sessions)
      /\ (live[i].turn # NoTurn => Live(i))
  BY <1>1, <1>2, <1>3 DEF Live, TurnIds
<1>5. Completed(live[i].turn) \in Seq(RuntimeEvent)
  BY <1>4, NewsTyped
<1>6. \A m \in Modes : Session(m) \in Sessions /\ Session(m).turn = NoTurn
  BY DEF Session, Sessions, TurnIds
<1>7. AtWork(i) \subseteq Sessions
  BY <1>1 DEF AtWork, TypeOK
<1> QED
  BY <1>1, <1>2, <1>3, <1>4, <1>5, <1>6, <1>7

\* A session that goes on, as another record.
LEMMA ContinuesIs ==
  ASSUME TypeOK, NEW i \in Instances, NEW s \in AtWork(i), NEW r \in Sessions, Continues(i, s, r)
  PROVE  /\ live' \in [Instances -> Sessions \cup {NoSession}]
         /\ orphans' \in [Instances -> SUBSET Sessions]
         /\ \A j \in Instances : j # i => live'[j] = live[j] /\ orphans'[j] = orphans[j]
         /\ AtWork(i)' \subseteq AtWork(i) \cup {r} /\ r \in AtWork(i)'
         /\ \A q \in AtWork(i) : q = s \/ q \in AtWork(i)'
         /\ \/ s = live[i] /\ live'[i] = r /\ UNCHANGED orphans
            \/ s \in orphans[i] /\ UNCHANGED live
<1>a. live \in [Instances -> Sessions \cup {NoSession}] /\ orphans \in [Instances -> SUBSET Sessions]
      /\ r # NoSession /\ s # NoSession /\ s \in Sessions
  BY NothingIs, LiveIs DEF TypeOK
<1>1. CASE s = live[i] /\ live' = [live EXCEPT ![i] = r] /\ UNCHANGED orphans
  BY <1>a, <1>1 DEF AtWork
<1>2. CASE /\ s \in orphans[i] /\ orphans' = [orphans EXCEPT ![i] = (@ \ {s}) \cup {r}]
           /\ UNCHANGED live
  <2>1. orphans'[i] = (orphans[i] \ {s}) \cup {r} /\ orphans' \in [Instances -> SUBSET Sessions]
        /\ \A j \in Instances : j # i => orphans'[j] = orphans[j]
    BY <1>a, <1>2
  <2> QED
    BY <1>a, <1>2, <2>1 DEF AtWork
<1> QED
  BY <1>1, <1>2 DEF Continues

-----------------------------------------------------------------------------
(* The types.                                                              *)

LEMMA RequestsAreTyped ==
  /\ \A t \in Turns, i \in Instances : [type |-> "turn", turn |-> t, at |-> i] \in Request
  /\ [type |-> "mode"] \in Request /\ [type |-> "stop"] \in Request
  /\ [type |-> "interrupt"] \in Request
  BY DEF Request

LEMMA DeletionStarts ==
  ASSUME Typed, DeleteThread
  PROVE  /\ calls' \in [Callers -> CallRecord] /\ InPlace'
         /\ calls'[Deletion] = At(Deletion, "stopRoute")
         /\ \A d \in Callers : d # Deletion => calls'[d] = calls[d]
<1>1. calls[Deletion].event = NoEvent /\ calls[Deletion] \in CallRecord
  BY CallersAre DEF Typed, TypeOK, InPlace, Fits
<1>2. Goto(Deletion, "stopRoute") /\ UNCHANGED binding /\ "stopRoute" \in Places
  BY DEF DeleteThread, Goto, Places, StopPlaces
<1>3. /\ At(Deletion, "stopRoute").pc = "stopRoute"
      /\ At(Deletion, "stopRoute").event = NoEvent
  BY <1>1, <1>2, AtIs DEF At
<1>4. Fits(Deletion, At(Deletion, "stopRoute"), binding' # None)
  BY <1>3, CallersAre DEF Fits, PlacesOf, StopPlaces, Routed, Starts
<1> QED
  BY <1>2, <1>4, CallersAre, GotoIs

LEMMA UserTyped ==
  ASSUME Typed, User
  PROVE  Typed'
<1>a. TypeOK /\ InPlace /\ Stopped
  BY DEF Typed
<1>1. ASSUME NEW e \in Request, Queued(e), patient' \in BOOLEAN, alive' \in BOOLEAN, mode' \in Modes,
             own' \in Nat, outcome' \in [Turns -> Outcomes]
      PROVE  Typed'
  <2>1. queue' \in Seq(Request)
    BY <1>a, <1>1 DEF Queued, TypeOK
  <2> QED
    BY <1>a, <1>1, <2>1 DEF Queued, observed, Typed, TypeOK, InPlace, Stopped
<1>2. ASSUME NEW t \in Turns, NEW i \in Instances, RequestTurn(t, i) PROVE Typed'
  <2>1. outcome' \in [Turns -> Outcomes]
    BY <1>a, <1>2 DEF RequestTurn, TypeOK, Outcomes
  <2>2. UNCHANGED client /\ Queued([type |-> "turn", turn |-> t, at |-> i])
    BY <1>2 DEF RequestTurn
  <2>3. patient' \in BOOLEAN /\ alive' \in BOOLEAN /\ mode' \in Modes /\ own' \in Nat
    BY <1>a, <2>2 DEF client, TypeOK
  <2> QED
    BY <1>1, <2>1, <2>2, <2>3, RequestsAreTyped
<1>3. CASE SetMode
  <2>1. mode' \in Modes /\ UNCHANGED <<patient, alive, own, outcome>> /\ Queued([type |-> "mode"])
    BY <1>3 DEF SetMode
  <2> QED
    BY <1>a, <1>1, <2>1, RequestsAreTyped DEF TypeOK
<1>4. CASE RequestStop
  BY <1>a, <1>1, <1>4, RequestsAreTyped DEF RequestStop, TypeOK
<1>5. CASE RequestInterrupt
  BY <1>a, <1>1, <1>5, RequestsAreTyped DEF RequestInterrupt, TypeOK
<1>6. CASE DeleteThread
  <2>1. calls' \in [Callers -> CallRecord] /\ InPlace'
    BY <1>6, DeletionStarts
  <2>2. /\ alive' = FALSE
        /\ UNCHANGED <<patient, mode, own, session, outcome, queue, chosen, live, orphans, binding,
                       events, ingest, crashed, clobbered, switched>>
    BY <1>6 DEF DeleteThread, observed
  <2>3. Stopped'
    BY <1>a, <2>2 DEF Stopped
  <2>4. TypeOK'
    BY <1>a, <2>1, <2>2 DEF TypeOK
  <2> QED
    BY <2>1, <2>3, <2>4 DEF Typed
<1> QED
  BY <1>2, <1>3, <1>4, <1>5, <1>6 DEF User

\* The end of ensureSessionForThread: the reactor is done, has failed, or has forked the
\* sending of its turn.
LEMMA ProceedIs ==
  ASSUME Typed, Proceed, UNCHANGED binding, calls[Reactor].pc \in {"ensure", "bind"}
  PROVE  /\ calls' \in [Callers -> CallRecord] /\ InPlace' /\ chosen' \in Instances \cup {NoInstance}
         /\ \/ /\ calls[Reactor].event.type = "mode" /\ calls'[Reactor] = Idle
               /\ \A d \in Callers : d # Reactor => calls'[d] = calls[d]
            \/ /\ calls[Reactor].event.type = "turn" /\ calls'[Reactor] = At(Reactor, "report")
               /\ \A d \in Callers : d # Reactor => calls'[d] = calls[d]
            \/ /\ calls[Reactor].event.type = "turn" /\ calls[Reactor].event.turn \in Turns
               /\ calls'[Reactor] = Idle
               /\ calls'[Fiber(calls[Reactor].event.turn)]
                    = At(Fiber(calls[Reactor].event.turn), "route")
               /\ \A d \in Callers : d \notin {Reactor, Fiber(calls[Reactor].event.turn)}
                    => calls'[d] = calls[d]
<1> DEFINE e == calls[Reactor].event
<1>1. calls \in [Callers -> CallRecord] /\ Fits(Reactor, calls[Reactor], binding # None)
      /\ e \in Request \cup {NoEvent}
  BY CallersAre DEF Typed, TypeOK, InPlace, CallRecord
<1>2. e.type \in {"turn", "mode"} /\ e \in Request
  BY <1>1, IdleIs DEF Fits, PlacesOf, ReactorPlaces, Starts, StopPlaces, Request
<1>3. CASE e.type # "turn"
  <2>1. Return(Reactor) /\ UNCHANGED chosen
    BY <1>3 DEF Proceed
  <2> QED
    BY <1>2, <1>3, <2>1, CallersAre, ReturnIs DEF Typed, TypeOK
<1>4. CASE e.type = "turn" /\ ListSessionsDies
  <2>1. Fail(Reactor) /\ chosen' = e.at
    BY <1>4 DEF Proceed
  <2>2. e.turn \in Turns /\ e.at \in Instances /\ TurnOf(Reactor) = e.turn /\ e.turn # NoTurn
    BY <1>2, <1>4, NothingIs, TurnOfIs
  <2> QED
    BY <1>2, <1>4, <2>1, <2>2, CallersAre, FailIs
<1>5. CASE e.type = "turn" /\ ~ListSessionsDies
  <2> DEFINE f == Fiber(e.turn)
  <2>1. e.turn \in Turns /\ e.at \in Instances /\ f \in Callers /\ f # Reactor
    BY <1>2, <1>5, NothingIs, CallersAre
  <2>2. calls' = [calls EXCEPT ![Reactor] = Idle, ![f].pc = "route"] /\ chosen' = e.at
    BY <1>5 DEF Proceed
  <2>3. "route" \in Places /\ calls[f] \in CallRecord /\ Fits(f, calls[f], binding # None)
    BY <1>1, <2>1 DEF Places, SendPlaces, Typed, InPlace
  <2>4. At(f, "route") \in CallRecord /\ At(f, "route").pc = "route"
        /\ At(f, "route").event = calls[f].event
    BY <2>3, AtIs DEF At
  <2>5. calls'[Reactor] = Idle /\ calls'[f] = At(f, "route")
        /\ \A d \in Callers : d \notin {Reactor, f} => calls'[d] = calls[d]
    BY <1>1, <2>1, <2>2, CallersAre DEF At
  <2>6. calls' \in [Callers -> CallRecord]
    BY <1>1, <2>1, <2>2, <2>4, IdleIs, CallersAre DEF At
  <2>7. Fits(f, At(f, "route"), binding # None)
    BY <2>1, <2>3, <2>4, CallersAre DEF Fits, PlacesOf, SendPlaces, Routed, Starts
  <2>8. InPlace'
    BY <2>5, <2>7, IdleFits, CallersAre DEF Typed, InPlace
  <2> QED
    BY <1>5, <2>1, <2>2, <2>5, <2>6, <2>8
<1> QED
  BY <1>2, <1>3, <1>4, <1>5

\* Taking a request.
LEMMA TakeIs ==
  ASSUME Typed, Take
  PROVE  /\ calls' \in [Callers -> CallRecord] /\ InPlace' /\ queue' \in Seq(Request)
         /\ Head(queue) \in Request /\ queue # <<>> /\ queue' = Tail(queue)
         /\ calls'[Reactor].event = IF FirstStep(Head(queue)) = "idle" THEN NoEvent ELSE Head(queue)
         /\ calls'[Reactor].pc = FirstStep(Head(queue))
         /\ calls'[Reactor].pc # "idle" => calls'[Reactor].mode = IF session = None THEN InitialMode
                                                                  ELSE session.mode
         /\ \A d \in Callers : d # Reactor => calls'[d] = calls[d]
<1> DEFINE e == Head(queue)
           m == IF session = None THEN InitialMode ELSE session.mode
           new == IF FirstStep(e) = "idle" THEN Idle
                  ELSE [pc |-> FirstStep(e), event |-> e, at |-> NoInstance, stale |-> {},
                        mode |-> m]
<1>1. queue \in Seq(Request) /\ queue # <<>> /\ queue' = Tail(queue) /\ UNCHANGED binding
  BY DEF Take, Typed, TypeOK
<1>2. e \in Request /\ queue' \in Seq(Request)
  BY <1>1
<1>3. Becomes(Reactor, new)
  BY DEF Take, Becomes
<1>4. m \in Modes
  BY SessionsAssumption DEF Typed, TypeOK, SessionRow
<1>5. e.type \in {"turn", "mode", "stop", "interrupt"}
  BY <1>2 DEF Request
<1>6. FirstStep(e) \in {"idle", "ensure", "route", "stopRoute", "setStopped"}
      /\ (FirstStep(e) = "ensure" => e.type \in {"turn", "mode"})
      /\ (FirstStep(e) = "route" => e.type = "interrupt")
      /\ (FirstStep(e) \in {"stopRoute", "setStopped"} => e.type = "stop")
  BY <1>5 DEF FirstStep
<1>7. new \in CallRecord
  BY <1>2, <1>4, <1>6, IdleIs DEF CallRecord, Places, SendPlaces, StopPlaces
<1>8. Fits(Reactor, new, binding' # None)
  <2>1. CASE FirstStep(e) = "idle"
    BY <2>1, CallersAre, IdleFits
  <2>2. CASE FirstStep(e) # "idle"
    BY <2>2, <1>6 DEF Fits, PlacesOf, ReactorPlaces, Routed, Starts, StopPlaces
  <2> QED
    BY <2>1, <2>2
<1>9. /\ calls' \in [Callers -> CallRecord] /\ InPlace' /\ calls'[Reactor] = new
      /\ \A d \in Callers : d # Reactor => calls'[d] = calls[d]
  <2> HIDE DEF new
  <2> QED
    BY <1>1, <1>3, <1>7, <1>8, CallersAre, MovedFits
<1> QED
  BY <1>1, <1>2, <1>9, IdleIs

LEMMA ReactorTyped ==
  ASSUME Typed, ReactorStep
  PROVE  Typed'
<1> DEFINE r == calls[Reactor]
<1>a. TypeOK /\ InPlace /\ Stopped
  BY DEF Typed
<1>b. Reactor \in Callers /\ r \in CallRecord /\ Fits(Reactor, r, binding # None)
  BY <1>a, CallersAre DEF TypeOK, InPlace
<1>c. r.event \in Request \cup {NoEvent} /\ r.mode \in Modes /\ r.stale \in SUBSET Instances
  BY <1>b DEF CallRecord
<1>d. r.event.type \in {"none", "turn", "mode", "interrupt", "stop"}
  BY <1>c, IdleIs DEF Request
<1>1. CASE Take
  BY <1>a, <1>1, TakeIs DEF Take, env, client, observed, Typed, TypeOK, Stopped
<1>2. CASE Ensure
  <2>1. r.pc = "ensure" /\ UNCHANGED binding
    BY <1>2 DEF Ensure
  <2>2. r.event \in Request /\ r.event.type \in {"turn", "mode"}
    BY <1>b, <1>c, <2>1, IdleIs DEF Fits, PlacesOf, ReactorPlaces, Starts, StopPlaces, Request
  <2>3. ASSUME Fail(Reactor), UNCHANGED chosen PROVE Typed'
    <3>1. calls' \in [Callers -> CallRecord] /\ InPlace'
      BY <1>b, <2>1, <2>3, FailIs
    <3> QED
      BY <1>a, <1>2, <2>3, <3>1 DEF Ensure, env, client, observed, Typed, TypeOK, Stopped
  <2>4. ASSUME Proceed PROVE Typed'
    BY <1>a, <1>2, <2>1, <2>4, ProceedIs DEF Ensure, env, client, observed, Typed, TypeOK, Stopped
  <2>5. ASSUME calls' = [calls EXCEPT ![Reactor].pc = "start", ![Reactor].at = Wanted(r.event),
                                      ![Reactor].mode = mode],
               UNCHANGED chosen
        PROVE  Typed'
    <3> DEFINE new == [r EXCEPT !.pc = "start", !.at = Wanted(r.event), !.mode = mode]
    <3>1. Wanted(r.event) \in Instances
      BY <1>a, <2>2, NothingIs, SessionsAssumption DEF Wanted, TypeOK
    <3>2. new \in CallRecord /\ new.pc = "start" /\ new.event = r.event /\ new.at \in Instances
      BY <1>a, <1>b, <3>1 DEF CallRecord, TypeOK, Places, SendPlaces, Starts
    <3>3. Becomes(Reactor, new)
      BY <1>a, <1>b, <2>5 DEF Becomes, TypeOK
    <3>4. Fits(Reactor, new, binding' # None)
      BY <2>2, <3>2, NothingIs DEF Fits, PlacesOf, ReactorPlaces, Starts, Routed
    <3>5. calls' \in [Callers -> CallRecord] /\ InPlace'
      <4> HIDE DEF new
      <4> QED
        BY <1>b, <2>1, <3>2, <3>3, <3>4, MovedFits
    <3> QED
      BY <1>a, <1>2, <2>5, <3>5 DEF Ensure, env, client, observed, Typed, TypeOK, Stopped
  <2> QED
    BY <1>2, <2>3, <2>4, <2>5 DEF Ensure
<1>3. ASSUME NEW i \in Instances, StopStale(i) PROVE Typed'
  <2> DEFINE new == [r EXCEPT !.stale = @ \ {i}]
  <2>1. new \in CallRecord /\ new.pc = "record" /\ new.event = r.event /\ new.at = r.at
    BY <1>b, <1>3 DEF CallRecord, StopStale
  <2>2. Becomes(Reactor, new) /\ UNCHANGED binding
    BY <1>a, <1>b, <1>3 DEF StopStale, Becomes, TypeOK
  <2>3. Fits(Reactor, new, binding' # None)
    BY <1>b, <2>1, <2>2, <1>3 DEF Fits, StopStale
  <2>4. calls' \in [Callers -> CallRecord] /\ InPlace'
    <3> HIDE DEF new
    <3> QED
      BY <1>b, <2>1, <2>2, <2>3, MovedFits
  <2>5. /\ live' \in [Instances -> Sessions \cup {NoSession}]
        /\ events' \in [Instances -> Seq(RuntimeEvent)]
    <3>1. CASE Live(i)
      <4>1. Reported(i, Completed(live[i].turn) \o Exited) /\ live' = [live EXCEPT ![i] = NoSession]
        BY <1>3, <3>1 DEF StopStale
      <4>2. Completed(live[i].turn) \o Exited \in Seq(RuntimeEvent)
        BY <1>a, LiveIs, NewsTyped
      <4> QED
        BY <1>a, <4>1, <4>2, ReportedIs, LiveIs DEF TypeOK
    <3>2. CASE ~Live(i)
      BY <1>a, <1>3, <3>2 DEF StopStale, TypeOK
    <3> QED
      BY <3>1, <3>2
  <2> QED
    BY <1>a, <1>3, <2>4, <2>5 DEF StopStale, env, client, observed, Typed, TypeOK, Stopped
<1>4. CASE RecordNewSession
  <2>1. r.pc = "record" /\ r.at \in Instances /\ r.event.type \in {"turn", "mode"}
        /\ Goto(Reactor, "bind") /\ binding' = Bound(Reactor)
    BY <1>b, <1>d, <1>4
       DEF RecordNewSession, Recovering, Fits, PlacesOf, ReactorPlaces, Starts, StopPlaces
  <2>2. binding' \in BindingRow /\ binding' # None
    <3>1. binding' \in BindingRow
      BY <1>c, <2>1 DEF Bound, BindingRow
    <3> QED
      BY <3>1, NothingIs
  <2>3. "bind" \in Places
    BY DEF Places
  <2>4. At(Reactor, "bind").pc = "bind" /\ At(Reactor, "bind").at \in Instances
        /\ At(Reactor, "bind").event = r.event
    BY <1>b, <2>1, <2>3, AtIs DEF At
  <2>5. Fits(Reactor, At(Reactor, "bind"), binding' # None)
    BY <2>1, <2>2, <2>4 DEF Fits, PlacesOf, ReactorPlaces, Starts, Routed
  <2>6. calls' \in [Callers -> CallRecord] /\ InPlace'
    BY <1>b, <2>1, <2>2, <2>3, <2>5, GotoIs
  <2> QED
    BY <1>a, <1>4, <2>2, <2>6 DEF RecordNewSession, env, client, observed, Typed, TypeOK, Stopped
<1>5. CASE Bind
  <2>1. Proceed /\ UNCHANGED binding /\ r.pc = "bind" /\ session' = Projected("ready", NoTurn, r.mode)
    BY <1>5 DEF Bind
  <2>2. session' \in SessionRow /\ session'.status = "ready"
    BY <1>c, <2>1 DEF Projected, SessionRow, TurnIds
  <2>3. calls' \in [Callers -> CallRecord] /\ InPlace' /\ chosen' \in Instances \cup {NoInstance}
    BY <2>1, ProceedIs
  <2> QED
    BY <1>a, <1>5, <2>2, <2>3 DEF Bind, env, client, observed, Typed, TypeOK, Stopped
<1>6. CASE SetStopped
  <2>1. Return(Reactor) /\ UNCHANGED binding /\ session' = Projected("stopped", NoTurn, r.mode)
    BY <1>6 DEF SetStopped
  <2>2. session' \in SessionRow /\ session'.turn = NoTurn
    BY <1>c, <2>1 DEF Projected, SessionRow, TurnIds
  <2>3. calls' \in [Callers -> CallRecord] /\ InPlace'
    BY <1>b, <2>1, ReturnIs
  <2> QED
    BY <1>a, <1>6, <2>2, <2>3 DEF SetStopped, env, client, observed, Typed, TypeOK, Stopped
<1>7. CASE Interrupt
  <2>1. r.pc = "deliver" /\ Return(Reactor) /\ UNCHANGED binding /\ Reported(r.at, Completed(live[r.at].turn))
        /\ live' = IF Live(r.at) THEN [live EXCEPT ![r.at].turn = NoTurn] ELSE live
    BY <1>7 DEF Interrupt
  <2>2. r.at \in Instances
    BY <1>b, <2>1 DEF Fits, Routed
  <2>3. calls' \in [Callers -> CallRecord] /\ InPlace'
    BY <1>b, <2>1, ReturnIs
  <2>4. live' \in [Instances -> Sessions \cup {NoSession}]
    BY <1>a, <2>1, <2>2, LiveIs DEF TypeOK, TurnIds
  <2>5. events' \in [Instances -> Seq(RuntimeEvent)]
    BY <1>a, <2>1, <2>2, LiveIs, ReportedIs
  <2> QED
    BY <1>a, <1>7, <2>3, <2>4, <2>5 DEF Interrupt, env, client, observed, Typed, TypeOK, Stopped
<1> QED
  BY <1>1, <1>2, <1>3, <1>4, <1>5, <1>6, <1>7 DEF ReactorStep

\* Of all callers the reactor and the fibers start, recover and report.
LEMMA WhoIsWhere ==
  ASSUME Typed, NEW c \in Callers
  PROVE  /\ calls[c] \in CallRecord /\ Fits(c, calls[c], binding # None)
         /\ calls[c].event \in Request \cup {NoEvent} /\ calls[c].mode \in Modes
         /\ calls[c].event.type \in {"none", "turn", "mode", "interrupt", "stop"}
         /\ calls[c].pc \in {"start", "spawn", "record", "route", "recover", "deliver", "report"}
              => c \notin {Deletion, Reaper}
         /\ calls[c].pc \in StopPlaces => c \in {Reactor, Deletion, Reaper}
         /\ calls[c].pc \in Routed \cup Starts => calls[c].at \in Instances
         /\ calls[c].pc \in Routed => binding # None
         /\ c = Reactor /\ calls[c].pc \in {"route", "recover", "deliver"}
              => calls[c].event.type = "interrupt"
         /\ c = Reactor /\ calls[c].pc \in StopPlaces => calls[c].event.type = "stop"
         /\ c = Reactor /\ calls[c].pc \in Starts => calls[c].event.type \in {"turn", "mode", "interrupt"}
         /\ calls[c].pc = "report" => TurnOf(c) \in Turns
<1>1. calls[c] \in CallRecord /\ Fits(c, calls[c], binding # None)
  BY DEF Typed, TypeOK, InPlace
<1>2. calls[c].event \in Request \cup {NoEvent} /\ calls[c].mode \in Modes
  BY <1>1 DEF CallRecord
<1>3. calls[c].event.type \in {"none", "turn", "mode", "interrupt", "stop"}
  BY <1>2, IdleIs DEF Request
<1>4. /\ calls[c].pc \in {"start", "spawn", "record", "route", "recover", "deliver", "report"}
           => c \notin {Deletion, Reaper}
      /\ calls[c].pc \in StopPlaces => c \in {Reactor, Deletion, Reaper}
  BY <1>1, CallersAre DEF Fits, PlacesOf, StopPlaces, SendPlaces, Starts
<1>5. /\ calls[c].pc \in Routed \cup Starts => calls[c].at \in Instances
      /\ calls[c].pc \in Routed => binding # None
  BY <1>1 DEF Fits
<1>6. ASSUME c = Reactor
      PROVE  /\ calls[c].pc \in {"route", "recover", "deliver"} => calls[c].event.type = "interrupt"
             /\ calls[c].pc \in StopPlaces => calls[c].event.type = "stop"
             /\ calls[c].pc \in Starts => calls[c].event.type \in {"turn", "mode", "interrupt"}
             /\ calls[c].pc = "report" => calls[c].event.type = "turn"
  BY <1>1, <1>3, <1>6 DEF Fits, PlacesOf, ReactorPlaces, StopPlaces, Starts
<1>7. calls[c].pc = "report" => TurnOf(c) \in Turns
  <2>1. CASE c = Reactor
    BY <2>1, <1>2, <1>6, TurnOfIs, NothingIs, IdleIs
  <2>2. CASE c # Reactor
    BY <2>2, <1>4, TurnOfIs, CallersAre
  <2> QED
    BY <2>1, <2>2
<1> QED
  BY <1>1, <1>2, <1>3, <1>4, <1>5, <1>6, <1>7

LEMMA CallTyped ==
  ASSUME Typed, NEW c \in Callers, Call(c) \/ StartFails(c)
  PROVE  Typed'
<1> DEFINE r == calls[c]
           i == calls[c].at
<1>a. TypeOK /\ InPlace /\ Stopped
  BY DEF Typed
<1>b. r \in CallRecord /\ Fits(c, r, binding # None) /\ r.mode \in Modes
  BY WhoIsWhere
<1>c. ASSUME NEW pc \in Places, Goto(c, pc), binding # None => binding' # None,
             pc \in PlacesOf(c, r.event.type), pc # "idle",
             pc \in Routed \cup Starts \cup {"bind"} => r.at \in Instances,
             pc \in Routed \cup {"bind"} => binding' # None,
             pc \in Starts /\ (c # Reactor \/ r.event.type = "interrupt") => binding' # None
      PROVE  calls' \in [Callers -> CallRecord] /\ InPlace'
  <2>1. At(c, pc).pc = pc /\ At(c, pc).event = r.event /\ At(c, pc).at = r.at
    BY <1>b, <1>c, AtIs DEF At
  <2>2. Fits(c, At(c, pc), binding' # None)
    BY <1>b, <1>c, <2>1 DEF Fits
  <2> QED
    BY <1>c, <2>2, GotoIs
<1>1. CASE StartBegins(c)
  <2>1. r.pc = "start" /\ Goto(c, "spawn") /\ UNCHANGED binding
        /\ Reported(i, Completed(live[i].turn)) /\ live' = [live EXCEPT ![i] = NoSession]
    BY <1>1 DEF StartBegins
  <2>2. i \in Instances /\ "spawn" \in Places
    BY <2>1, WhoIsWhere DEF Starts, Places, SendPlaces
  <2>3. "spawn" \in PlacesOf(c, r.event.type)
        /\ (c # Reactor \/ r.event.type = "interrupt" => binding # None)
    BY <1>b, <2>1, WhoIsWhere DEF Fits, PlacesOf, ReactorPlaces, SendPlaces, Starts
  <2>4. calls' \in [Callers -> CallRecord] /\ InPlace'
    BY <1>c, <2>1, <2>2, <2>3 DEF Routed
  <2>5. live' \in [Instances -> Sessions \cup {NoSession}] /\ events' \in [Instances -> Seq(RuntimeEvent)]
    BY <1>a, <2>1, <2>2, LiveIs, ReportedIs DEF TypeOK
  <2> QED
    BY <1>a, <1>1, <2>4, <2>5 DEF StartBegins, env, client, observed, Typed, TypeOK, Stopped
<1>2. CASE StartEnds(c)
  <2> DEFINE new == [r EXCEPT !.pc = "record", !.stale = IF Recovering(c) THEN {} ELSE Instances \ {i}]
  <2>1. r.pc = "spawn" /\ UNCHANGED binding /\ Reported(i, Started)
        /\ live' = [live EXCEPT ![i] = Session(r.mode)]
        /\ orphans' = [orphans EXCEPT ![i] = AtWork(i)]
        /\ switched' = (switched \/ (binding # None /\ binding.at # i))
    BY <1>2 DEF StartEnds
  <2>2. i \in Instances
    BY <2>1, WhoIsWhere DEF Starts
  <2>3. new \in CallRecord /\ new.pc = "record" /\ new.event = r.event /\ new.at = i
    BY <1>b DEF CallRecord, Places, SendPlaces, Starts
  <2>4. Becomes(c, new)
    BY <1>a, <1>b, <1>2 DEF StartEnds, Becomes, TypeOK
  <2>5. Fits(c, new, binding' # None)
    BY <1>b, <2>1, <2>2, <2>3, WhoIsWhere
       DEF Fits, PlacesOf, ReactorPlaces, SendPlaces, Starts, Routed
  <2>6. calls' \in [Callers -> CallRecord] /\ InPlace'
    <3> HIDE DEF new
    <3> QED
      BY <2>1, <2>3, <2>4, <2>5, MovedFits
  <2>7. live' \in [Instances -> Sessions \cup {NoSession}] /\ events' \in [Instances -> Seq(RuntimeEvent)]
    BY <1>a, <1>b, <2>1, <2>2, LiveIs, NewsTyped, ReportedIs DEF TypeOK
  <2>8. orphans' \in [Instances -> SUBSET Sessions] /\ switched' \in BOOLEAN
    BY <1>a, <2>1, <2>2, LiveIs DEF TypeOK
  <2> QED
    BY <1>a, <1>2, <2>6, <2>7, <2>8 DEF StartEnds, env, client, observed, Typed, TypeOK, Stopped
<1>3. CASE RecordRecovered(c)
  <2>1. r.pc = "record" /\ Recovering(c) /\ Goto(c, "deliver") /\ binding' = Bound(c)
    BY <1>3 DEF RecordRecovered
  <2>2. i \in Instances /\ "deliver" \in Places
    BY <2>1, WhoIsWhere DEF Starts, Places, SendPlaces
  <2>3. binding' \in BindingRow
    BY <1>b, <2>1, <2>2 DEF Bound, BindingRow
  <2>4. binding' # None
    BY <2>3, NothingIs
  <2>5. "deliver" \in PlacesOf(c, r.event.type)
    BY <1>b, <2>1, WhoIsWhere DEF Recovering, Fits, PlacesOf, ReactorPlaces, SendPlaces, Starts
  <2>6. calls' \in [Callers -> CallRecord] /\ InPlace'
    BY <1>c, <2>1, <2>2, <2>4, <2>5
  <2> QED
    BY <1>a, <1>3, <2>3, <2>6 DEF RecordRecovered, env, client, observed, Typed, TypeOK, Stopped
<1>4. CASE Route(c)
  <2>1. r.pc = "route" /\ UNCHANGED binding
    BY <1>4 DEF Route
  <2>2. calls' \in [Callers -> CallRecord] /\ InPlace'
    <3>1. CASE binding = None
      BY <1>4, <2>1, <3>1, FailIs DEF Route
    <3>2. CASE binding # None
      <4> DEFINE pc == IF Live(binding.at) THEN "deliver" ELSE "recover"
                 new == [r EXCEPT !.pc = pc, !.at = binding.at, !.mode = binding.mode]
      <4>1. binding.at \in Instances /\ binding.mode \in Modes
        BY <1>a, <3>2 DEF TypeOK, BindingRow
      <4>2. new \in CallRecord /\ new.pc \in {"deliver", "recover"} /\ new.event = r.event
            /\ new.at = binding.at
        BY <1>b, <4>1 DEF CallRecord, Places, SendPlaces
      <4>3. Becomes(c, new)
        BY <1>a, <1>b, <1>4, <3>2 DEF Route, Becomes, TypeOK
      <4>4. Fits(c, new, binding' # None)
        BY <1>b, <2>1, <3>2, <4>1, <4>2, WhoIsWhere
           DEF Fits, PlacesOf, ReactorPlaces, SendPlaces, Starts, Routed
      <4> HIDE DEF new
      <4> QED
        BY <2>1, <4>2, <4>3, <4>4, MovedFits
    <3> QED
      BY <3>1, <3>2
  <2> QED
    BY <1>a, <1>4, <2>2 DEF Route, env, client, observed, Typed, TypeOK, Stopped
<1>5. CASE Recover(c)
  <2>1. r.pc = "recover" /\ UNCHANGED binding /\ i \in Instances /\ binding # None
    BY <1>5, WhoIsWhere DEF Recover, Routed
  <2>2. calls' \in [Callers -> CallRecord] /\ InPlace'
    <3>1. CASE Live(i)
      <4> DEFINE new == [r EXCEPT !.pc = "record", !.mode = live[i].mode]
      <4>1. live[i].mode \in Modes
        BY <1>a, <2>1, <3>1, LiveIs DEF Sessions
      <4>2. new \in CallRecord /\ new.pc = "record" /\ new.event = r.event /\ new.at = i
        BY <1>b, <4>1 DEF CallRecord, Places, SendPlaces, Starts
      <4>3. Becomes(c, new)
        BY <1>a, <1>b, <1>5, <3>1 DEF Recover, Becomes, TypeOK
      <4>4. Fits(c, new, binding' # None)
        BY <1>b, <2>1, <4>2, WhoIsWhere DEF Fits, PlacesOf, ReactorPlaces, SendPlaces, Starts, Routed
      <4> HIDE DEF new
      <4> QED
        BY <2>1, <4>2, <4>3, <4>4, MovedFits
    <3>2. CASE ~Live(i)
      <4>1. Goto(c, "start") /\ "start" \in Places
        BY <1>5, <3>2 DEF Recover, Places, SendPlaces, Starts
      <4>2. "start" \in PlacesOf(c, r.event.type)
        BY <1>b, <2>1, WhoIsWhere DEF Fits, PlacesOf, ReactorPlaces, SendPlaces, Starts
      <4> QED
        BY <1>c, <2>1, <4>1, <4>2
    <3> QED
      BY <3>1, <3>2
  <2> QED
    BY <1>a, <1>5, <2>2 DEF Recover, env, client, observed, Typed, TypeOK, Stopped
<1>6. CASE StopRoute(c)
  <2>1. r.pc = "stopRoute" /\ UNCHANGED binding
    BY <1>6 DEF StopRoute
  <2>2. calls' \in [Callers -> CallRecord] /\ InPlace'
    <3>1. CASE binding = None
      BY <1>6, <2>1, <3>1, ReturnIs DEF StopRoute
    <3>2. CASE binding # None
      <4> DEFINE pc == IF Live(binding.at) THEN "stop" ELSE "stopRecord"
                 new == [r EXCEPT !.pc = pc, !.at = binding.at]
      <4>1. binding.at \in Instances
        BY <1>a, <3>2 DEF TypeOK, BindingRow
      <4>2. new \in CallRecord /\ new.pc \in {"stop", "stopRecord"} /\ new.event = r.event
            /\ new.at = binding.at
        BY <1>b, <4>1 DEF CallRecord, Places, StopPlaces
      <4>3. Becomes(c, new)
        BY <1>a, <1>b, <1>6, <3>2 DEF StopRoute, Becomes, TypeOK
      <4>4. Fits(c, new, binding' # None)
        BY <1>b, <2>1, <3>2, <4>1, <4>2, WhoIsWhere, CallersAre
           DEF Fits, PlacesOf, ReactorPlaces, StopPlaces, Starts, Routed
      <4> HIDE DEF new
      <4> QED
        BY <2>1, <4>2, <4>3, <4>4, MovedFits
    <3> QED
      BY <3>1, <3>2
  <2> QED
    BY <1>a, <1>6, <2>2 DEF StopRoute, env, client, observed, Typed, TypeOK, Stopped
<1>7. CASE StopAdapter(c)
  <2>1. r.pc = "stop" /\ UNCHANGED binding /\ i \in Instances /\ binding # None
    BY <1>7, WhoIsWhere DEF StopAdapter, Routed
  <2>2. CASE Live(i)
    <3>1. live' = [live EXCEPT ![i] = NoSession] /\ Reported(i, Completed(live[i].turn) \o Exited)
          /\ Goto(c, "stopRecord") /\ "stopRecord" \in Places
      BY <1>7, <2>2 DEF StopAdapter, Places, StopPlaces
    <3>2. "stopRecord" \in PlacesOf(c, r.event.type)
      BY <1>b, <2>1, WhoIsWhere, CallersAre DEF Fits, PlacesOf, ReactorPlaces, StopPlaces
    <3>3. calls' \in [Callers -> CallRecord] /\ InPlace'
      BY <1>c, <2>1, <3>1, <3>2
    <3>4. Completed(live[i].turn) \o Exited \in Seq(RuntimeEvent)
      BY <1>a, <2>1, LiveIs, NewsTyped
    <3>5. live' \in [Instances -> Sessions \cup {NoSession}] /\ events' \in [Instances -> Seq(RuntimeEvent)]
      BY <1>a, <2>1, <3>1, <3>4, LiveIs, ReportedIs DEF TypeOK
    <3> QED
      BY <1>a, <1>7, <3>3, <3>5 DEF StopAdapter, env, client, observed, Typed, TypeOK, Stopped
  <2>3. CASE ~Live(i)
    <3>1. Return(c) /\ UNCHANGED <<live, events>>
      BY <1>7, <2>3 DEF StopAdapter
    <3>2. calls' \in [Callers -> CallRecord] /\ InPlace'
      BY <2>1, <3>1, ReturnIs
    <3> QED
      BY <1>a, <1>7, <3>1, <3>2 DEF StopAdapter, env, client, observed, Typed, TypeOK, Stopped
  <2> QED
    BY <2>2, <2>3
<1>8. CASE StopRecord(c)
  <2>1. r.pc = "stopRecord" /\ i \in Instances /\ binding # None
        /\ binding' = [binding EXCEPT !.status = "stopped", !.at = i, !.idle = FALSE]
    BY <1>8, WhoIsWhere DEF StopRecord, Routed
  <2>2. binding' \in BindingRow
    BY <1>a, <2>1 DEF TypeOK, BindingRow
  <2>3. binding' # None
    BY <2>2, NothingIs
  <2>4. calls' \in [Callers -> CallRecord] /\ InPlace'
    <3>1. CASE c = Reactor
      <4>1. Goto(c, "setStopped") /\ "setStopped" \in Places
        BY <1>8, <3>1 DEF StopRecord, Places
      <4>2. "setStopped" \in PlacesOf(c, r.event.type)
        BY <2>1, <3>1, WhoIsWhere DEF PlacesOf, ReactorPlaces, StopPlaces
      <4> QED
        BY <1>c, <2>1, <2>3, <4>1, <4>2
    <3>2. CASE c # Reactor
      BY <1>8, <2>3, <3>2, ReturnIs DEF StopRecord
    <3> QED
      BY <3>1, <3>2
  <2> QED
    BY <1>a, <1>8, <2>2, <2>4 DEF StopRecord, env, client, observed, Typed, TypeOK, Stopped
<1>9. CASE Report(c)
  <2>1. TurnOf(c) \in Turns /\ outcome' = [outcome EXCEPT ![TurnOf(c)] = "reported"]
        /\ Return(c) /\ UNCHANGED binding
    BY <1>9, WhoIsWhere DEF Report
  <2>2. outcome' \in [Turns -> Outcomes]
    BY <1>a, <2>1 DEF TypeOK, Outcomes
  <2>3. session' \in SessionRow \cup {None} /\ Stopped'
    <3>1. CASE alive /\ session # None
      <4>1. session' = Projected(IF session.status = "stopped" THEN "stopped" ELSE "ready",
                                 NoTurn, session.mode)
        BY <1>9, <3>1 DEF Report
      <4> QED
        BY <1>a, <3>1, <4>1 DEF TypeOK, Projected, SessionRow, TurnIds, Stopped
    <3>2. CASE ~(alive /\ session # None)
      BY <1>a, <1>9, <3>2 DEF Report, TypeOK, Stopped
    <3> QED
      BY <3>1, <3>2
  <2>4. calls' \in [Callers -> CallRecord] /\ InPlace'
    BY <2>1, ReturnIs
  <2> QED
    BY <1>a, <1>9, <2>2, <2>3, <2>4 DEF Report, env, client, observed, Typed, TypeOK
<1>10. CASE StartFails(c)
  <2>1. Fail(c) /\ r.pc = "spawn" /\ UNCHANGED binding
    BY <1>10 DEF StartFails
  <2>2. calls' \in [Callers -> CallRecord] /\ InPlace'
    BY <2>1, FailIs
  <2> QED
    BY <1>a, <1>10, <2>2 DEF StartFails, client, observed, Typed, TypeOK, Stopped
<1> QED
  BY <1>1, <1>2, <1>3, <1>4, <1>5, <1>6, <1>7, <1>8, <1>9, <1>10 DEF Call

\* sendTurn takes the turn off the session that it has looked up.
Held(i, t) == [live[i] EXCEPT !.turn = NoTurn, !.sends = @ \cup {t}]

LEMMA SendBeginsIs ==
  ASSUME Typed, NEW t \in Turns, SendBegins(t)
  PROVE  LET i == calls[Fiber(t)].at IN
         /\ calls[Fiber(t)].pc = "deliver" /\ i \in Instances /\ Live(i)
         /\ live' = [live EXCEPT ![i] = Held(i, t)] /\ Held(i, t) \in Sessions
         /\ Held(i, t).turn = NoTurn /\ Held(i, t).mode = live[i].mode
<1> DEFINE i == calls[Fiber(t)].at
<1>1. calls[Fiber(t)].pc = "deliver" /\ Live(i)
      /\ live' = [live EXCEPT ![i].turn = NoTurn, ![i].sends = @ \cup {t}]
  BY DEF SendBegins
<1>2. i \in Instances /\ TypeOK
  BY <1>1, WhoIsWhere, CallersAre DEF Typed, Routed
<1>3. live[i] \in Sessions
  BY <1>1, <1>2, LiveIs
<1>4. /\ Held(i, t) \in Sessions
      /\ Held(i, t).turn = NoTurn /\ Held(i, t).mode = live[i].mode
  BY <1>3 DEF Held, Sessions, TurnIds
<1>5. live' = [live EXCEPT ![i] = Held(i, t)]
  BY <1>1, <1>2, <1>3 DEF Held, TypeOK
<1> QED
  BY <1>1, <1>2, <1>4, <1>5

\* A turn begins in the session that its fiber holds, or in none.
LEMMA BeginTyped ==
  ASSUME Typed, NEW t \in Turns, Begin(t), calls[Fiber(t)].pc = "sending"
  PROVE  /\ live' \in [Instances -> Sessions \cup {NoSession}]
         /\ orphans' \in [Instances -> SUBSET Sessions]
         /\ events' \in [Instances -> Seq(RuntimeEvent)]
<1> DEFINE i == calls[Fiber(t)].at
<1>1. TypeOK /\ i \in Instances /\ t \in AllTurns
  BY WhoIsWhere, CallersAre, NothingIs DEF Typed, Routed
<1>2. Reported(i, Begun(t)) /\ Begun(t) \in Seq(RuntimeEvent)
  BY <1>1, NewsTyped DEF Begin
<1>3. events' \in [Instances -> Seq(RuntimeEvent)]
  BY <1>1, <1>2, ReportedIs
<1>4. CASE \E s \in AtWork(i) : Continues(i, s, [s EXCEPT !.turn = t])
  <2>1. PICK s \in AtWork(i) : Continues(i, s, [s EXCEPT !.turn = t])
    BY <1>4
  <2>2. [s EXCEPT !.turn = t] \in Sessions
    BY <1>1, LiveIs DEF Sessions, TurnIds
  <2> QED
    BY <1>1, <1>3, <2>1, <2>2, ContinuesIs
<1>5. CASE UNCHANGED <<live, orphans>>
  BY <1>1, <1>3, <1>5 DEF TypeOK
<1> QED
  BY <1>4, <1>5 DEF Begin

LEMMA SendTyped ==
  ASSUME Typed, NEW t \in Turns, Send(t)
  PROVE  Typed'
<1> DEFINE c == Fiber(t)
           r == calls[c]
           i == r.at
<1>a. TypeOK /\ InPlace /\ Stopped
  BY DEF Typed
<1>b. c \in Callers /\ c # Reactor /\ c # Deletion /\ c # Reaper /\ TurnOf(c) = t
  BY CallersAre, TurnOfIs
<1>c. r \in CallRecord /\ Fits(c, r, binding # None)
  BY <1>b, WhoIsWhere
<1>d. ASSUME NEW pc \in {"sending", "recordTurn"}, Goto(c, pc), UNCHANGED binding,
             r.pc \in {"deliver", "sending"}
      PROVE  calls' \in [Callers -> CallRecord] /\ InPlace'
  <2>1. i \in Instances /\ binding # None /\ pc \in Places
    BY <1>b, <1>d, WhoIsWhere DEF Routed, Places, SendPlaces
  <2>2. At(c, pc).pc = pc /\ At(c, pc).event = r.event /\ At(c, pc).at = i
    BY <1>c, <2>1, AtIs DEF At
  <2>3. Fits(c, At(c, pc), binding' # None)
    BY <1>b, <1>c, <1>d, <2>1, <2>2 DEF Fits, PlacesOf, SendPlaces, Starts
  <2> QED
    BY <1>b, <1>d, <2>1, <2>3, GotoIs
<1>0. CASE SendBegins(t)
  <2>1. r.pc = "deliver" /\ Goto(c, "sending") /\ UNCHANGED binding
        /\ Reported(i, Completed(live[i].turn))
    BY <1>0 DEF SendBegins
  <2>2. i \in Instances /\ live' = [live EXCEPT ![i] = Held(i, t)] /\ Held(i, t) \in Sessions
    BY <1>0, SendBeginsIs
  <2>4. live' \in [Instances -> Sessions \cup {NoSession}]
    BY <1>a, <2>2 DEF TypeOK
  <2>5. events' \in [Instances -> Seq(RuntimeEvent)]
    BY <1>a, <2>1, <2>2, LiveIs, ReportedIs
  <2>6. calls' \in [Callers -> CallRecord] /\ InPlace'
    BY <1>d, <2>1
  <2> QED
    BY <1>a, <1>0, <2>4, <2>5, <2>6
       DEF SendBegins, env, client, observed, Typed, TypeOK, Stopped
<1>1. CASE Deliver(t)
  <2>1. r.pc = "sending" /\ Begin(t) /\ Goto(c, "recordTurn") /\ UNCHANGED binding
        /\ outcome' = [outcome EXCEPT ![t] = "sent"]
    BY <1>1 DEF Deliver
  <2>2. outcome' \in [Turns -> Outcomes]
    BY <1>a, <2>1 DEF TypeOK, Outcomes
  <2>3. calls' \in [Callers -> CallRecord] /\ InPlace'
    BY <1>d, <2>1
  <2> QED
    BY <1>a, <1>1, <2>1, <2>2, <2>3, BeginTyped DEF Deliver, client, Typed, TypeOK, Stopped
<1>2. CASE DeliveryFails(t)
  <2>1. r.pc \in {"deliver", "sending"} /\ Fail(c) /\ UNCHANGED binding
    BY <1>2 DEF DeliveryFails
  <2>2. calls' \in [Callers -> CallRecord] /\ InPlace'
    BY <1>b, <2>1, FailIs
  <2>3. /\ live' \in [Instances -> Sessions \cup {NoSession}]
        /\ orphans' \in [Instances -> SUBSET Sessions]
        /\ events' \in [Instances -> Seq(RuntimeEvent)]
    <3>1. CASE r.pc = "sending" /\ Begin(t)
      BY <3>1, BeginTyped
    <3>2. CASE UNCHANGED <<live, orphans, events>>
      BY <1>a, <3>2 DEF TypeOK
    <3> QED
      BY <1>2, <3>1, <3>2 DEF DeliveryFails
  <2> QED
    BY <1>a, <1>2, <2>2, <2>3 DEF DeliveryFails, client, Typed, TypeOK, Stopped
<1>3. CASE RecordTurn(t)
  <2>1. r.pc = "recordTurn" /\ Return(c)
        /\ binding' = [binding EXCEPT !.status = "running", !.at = i, !.idle = FALSE]
    BY <1>3 DEF RecordTurn
  <2>2. i \in Instances /\ binding # None
    BY <1>b, <2>1, WhoIsWhere DEF Routed
  <2>3. binding' \in BindingRow
    BY <1>a, <2>1, <2>2 DEF TypeOK, BindingRow
  <2>4. binding' # None
    BY <2>3, NothingIs
  <2>5. calls' \in [Callers -> CallRecord] /\ InPlace'
    BY <1>b, <2>1, <2>4, ReturnIs
  <2> QED
    BY <1>a, <1>3, <2>3, <2>5 DEF RecordTurn, env, client, observed, Typed, TypeOK, Stopped
<1> QED
  BY <1>0, <1>1, <1>2, <1>3 DEF Send

LEMMA ReaperTyped ==
  ASSUME Typed, ReaperStep
  PROVE  Typed'
<1> DEFINE r == calls[Reaper]
<1>a. TypeOK /\ InPlace /\ Stopped
  BY DEF Typed
<1>b. Reaper \in Callers /\ Reaper # Reactor /\ Reaper # Deletion
      /\ r \in CallRecord /\ Fits(Reaper, r, binding # None) /\ r.event = NoEvent
  BY CallersAre, WhoIsWhere DEF Fits
<1>1. ASSUME NEW pc \in {"check", "stopRoute"}, Goto(Reaper, pc), UNCHANGED binding
      PROVE  calls' \in [Callers -> CallRecord] /\ InPlace'
  <2>1. pc \in Places
    BY DEF Places, StopPlaces
  <2>2. At(Reaper, pc).pc = pc /\ At(Reaper, pc).event = r.event
    BY <1>b, <2>1, AtIs DEF At
  <2>3. Fits(Reaper, At(Reaper, pc), binding' # None)
    BY <1>b, <1>1, <2>2 DEF Fits, PlacesOf, StopPlaces, Routed, Starts
  <2> QED
    BY <1>b, <1>1, <2>1, <2>3, GotoIs
<1>2. CASE Sweep
  <2>1. calls' \in [Callers -> CallRecord] /\ InPlace'
    BY <1>1, <1>2 DEF Sweep
  <2> QED
    BY <1>a, <1>2, <2>1 DEF Sweep, env, client, observed, Typed, TypeOK, Stopped
<1>3. CASE CheckTurn
  <2>1. CASE Return(Reaper)
    <3>1. calls' \in [Callers -> CallRecord] /\ InPlace'
      BY <1>b, <1>3, <2>1, ReturnIs DEF CheckTurn
    <3> QED
      BY <1>a, <1>3, <3>1 DEF CheckTurn, env, client, observed, Typed, TypeOK, Stopped
  <2>2. CASE Goto(Reaper, "stopRoute")
    <3>1. calls' \in [Callers -> CallRecord] /\ InPlace'
      BY <1>1, <1>3, <2>2 DEF CheckTurn
    <3> QED
      BY <1>a, <1>3, <3>1 DEF CheckTurn, env, client, observed, Typed, TypeOK, Stopped
  <2> QED
    BY <1>3, <2>1, <2>2 DEF CheckTurn
<1> QED
  BY <1>2, <1>3 DEF ReaperStep

\* What an event makes of a session.
LEMMA AppliedIs ==
  ASSUME NEW e \in RuntimeEvent, NEW s \in SessionRow \cup {None}
  PROVE  /\ Applied(e, s) \in SessionRow
         /\ e.type \in {"session.started", "session.exited", "turn.started", "turn.completed"}
         /\ e.type = "turn.started" => Applied(e, s).status = "running" /\ Applied(e, s).turn = e.turn
         /\ e.type = "turn.completed" => Applied(e, s).status = "ready" /\ Applied(e, s).turn = NoTurn
         /\ e.type = "session.exited" => Applied(e, s).status = "stopped" /\ Applied(e, s).turn = NoTurn
         /\ e.type = "session.started" => Applied(e, s).status = "ready"
                                          /\ Applied(e, s).turn = IF s = None THEN NoTurn ELSE s.turn
         /\ Applied(e, s).mode = IF s = None THEN InitialMode ELSE s.mode
<1> DEFINE turn == IF s = None THEN NoTurn ELSE s.turn
           m == IF s = None THEN InitialMode ELSE s.mode
<1>1. turn \in TurnIds /\ m \in Modes
  BY SessionsAssumption DEF SessionRow, TurnIds
<1>2. e.type \in {"session.started", "session.exited", "turn.started", "turn.completed"}
      /\ (e.type \in {"turn.started", "turn.completed"} => e.turn \in TurnIds)
  BY DEF RuntimeEvent, TurnIds
<1>3. Applied(e, s) = CASE e.type = "turn.started" -> Projected("running", e.turn, m)
                        [] e.type = "turn.completed" -> Projected("ready", NoTurn, m)
                        [] e.type = "session.exited" -> Projected("stopped", NoTurn, m)
                        [] e.type = "session.started" -> Projected("ready", turn, m)
  BY DEF Applied
<1> HIDE DEF turn, m
<1>4. CASE e.type = "turn.started"
  BY <1>1, <1>2, <1>3, <1>4 DEF Projected, SessionRow, turn, m
<1>5. CASE e.type = "turn.completed"
  BY <1>1, <1>2, <1>3, <1>5 DEF Projected, SessionRow, TurnIds, turn, m
<1>6. CASE e.type = "session.exited"
  BY <1>1, <1>2, <1>3, <1>6 DEF Projected, SessionRow, TurnIds, turn, m
<1>7. CASE e.type = "session.started"
  BY <1>1, <1>2, <1>3, <1>7 DEF Projected, SessionRow, turn, m
<1> QED
  BY <1>2, <1>4, <1>5, <1>6, <1>7

\* Taking an event of an instance.
LEMMA IngestReadIs ==
  ASSUME Typed, NEW i \in Instances, IngestRead(i)
  PROVE  /\ events[i] # <<>> /\ Head(events[i]) \in RuntimeEvent
         /\ events' \in [Instances -> Seq(RuntimeEvent)] /\ events'[i] = Tail(events[i])
         /\ \A j \in Instances : j # i => events'[j] = events[j]
<1>1. events \in [Instances -> Seq(RuntimeEvent)] /\ events[i] # <<>>
  BY DEF Typed, TypeOK, IngestRead
<1>2. Tail(events[i]) \in Seq(RuntimeEvent) /\ Head(events[i]) \in RuntimeEvent
  BY <1>1
<1>3. events' = [events EXCEPT ![i] = Tail(events[i])]
  BY DEF IngestRead
<1> QED
  BY <1>1, <1>2, <1>3

\* What ingestion works on, when it does.
LEMMA IngestingIs ==
  ASSUME Typed
  PROVE  /\ ingest # NotIngesting => ingest.event \in RuntimeEvent /\ ingest.seen \in SessionRow \cup {None}
         /\ ingest.seen \in SessionRow \cup {None}
         /\ NotIngesting.event = NoEvent /\ NotIngesting.seen = None
         /\ ingest # NotIngesting <=> ingest.event # NoEvent
<1>1. ingest \in [event : RuntimeEvent, seen : SessionRow \cup {None}] \cup {NotIngesting}
  BY DEF Typed, TypeOK
<1>2. NotIngesting.event = NoEvent /\ NotIngesting.seen = None
  BY DEF NotIngesting
<1> QED
  BY <1>1, <1>2, NothingIs

LEMMA IngestionTyped ==
  ASSUME Typed, Ingestion
  PROVE  Typed'
<1>a. TypeOK /\ InPlace /\ Stopped
  BY DEF Typed
<1>1. ASSUME NEW i \in Instances, IngestRead(i) PROVE Typed'
  <2>1. ingest' \in [event : RuntimeEvent, seen : SessionRow \cup {None}] \cup {NotIngesting}
    BY <1>a, <1>1, IngestReadIs DEF IngestRead, TypeOK
  <2> QED
    BY <1>a, <1>1, <2>1, IngestReadIs DEF IngestRead, env, client, observed, Typed, TypeOK, InPlace, Stopped
<1>2. CASE IngestWrite
  <2>1. ingest.event \in RuntimeEvent /\ ingest.seen \in SessionRow \cup {None}
    BY <1>2, IngestingIs DEF IngestWrite
  <2>2. session' \in SessionRow \cup {None} /\ Stopped'
    <3>1. CASE session' = session
      BY <1>a, <3>1 DEF TypeOK, Stopped
    <3>2. CASE session' = Applied(ingest.event, ingest.seen)
      BY <2>1, <3>2, AppliedIs DEF Stopped
    <3> QED
      BY <1>2, <3>1, <3>2 DEF IngestWrite
  <2>3. clobbered' \in BOOLEAN
    BY <1>a, <1>2 DEF IngestWrite, TypeOK
  <2> QED
    BY <1>a, <1>2, <2>2, <2>3 DEF IngestWrite, client, Typed, TypeOK, InPlace
<1> QED
  BY <1>1, <1>2 DEF Ingestion

\* A session goes on with another turn, or with none, which is reported.
LEMMA GoesOnTyped ==
  ASSUME TypeOK, NEW i \in Instances, NEW s \in AtWork(i), NEW t \in TurnIds,
         Continues(i, s, [s EXCEPT !.turn = t]), NEW news \in Seq(RuntimeEvent), Reported(i, news)
  PROVE  /\ live' \in [Instances -> Sessions \cup {NoSession}]
         /\ orphans' \in [Instances -> SUBSET Sessions]
         /\ events' \in [Instances -> Seq(RuntimeEvent)]
<1>1. [s EXCEPT !.turn = t] \in Sessions
  BY LiveIs DEF Sessions
<1> QED
  BY <1>1, ContinuesIs, ReportedIs

\* The turn of a session at work, and the one that an agent may begin.
LEMMA AgentIs ==
  ASSUME TypeOK, NEW i \in Instances, NEW s \in AtWork(i)
  PROVE  /\ s.turn \in TurnIds /\ NoTurn \in TurnIds
         /\ OwnTurn(i, s) => own' \in Nat /\ MaxTurns + own' \in OwnTurns
<1>1. s.turn \in TurnIds /\ NoTurn \in TurnIds
  BY LiveIs DEF Sessions, TurnIds
<1>2. ASSUME OwnTurn(i, s) PROVE own' \in Nat /\ MaxTurns + own' \in OwnTurns
  <2>1. own \in Nat /\ own < MaxOwn /\ own' = own + 1 /\ MaxOwn \in Nat /\ MaxTurns \in Nat
    BY <1>2, SessionsAssumption DEF OwnTurn, TypeOK
  <2> QED
    BY <2>1 DEF OwnTurns
<1> QED
  BY <1>1, <1>2

LEMMA AgentTyped ==
  ASSUME Typed, NEW i \in Instances,
         SessionExits(i) \/ \E s \in AtWork(i) : TurnEnds(i, s) \/ OwnTurn(i, s)
  PROVE  Typed'
<1>a. TypeOK /\ InPlace /\ Stopped
  BY DEF Typed
<1>1. ASSUME NEW s \in AtWork(i), TurnEnds(i, s) PROVE Typed'
  <2>1. Continues(i, s, [s EXCEPT !.turn = NoTurn]) /\ Reported(i, Completed(s.turn))
    BY <1>1 DEF TurnEnds
  <2>2. Completed(s.turn) \in Seq(RuntimeEvent) /\ NoTurn \in TurnIds
    BY <1>a, AgentIs, NewsTyped
  <2>3. /\ live' \in [Instances -> Sessions \cup {NoSession}]
        /\ orphans' \in [Instances -> SUBSET Sessions]
        /\ events' \in [Instances -> Seq(RuntimeEvent)]
    BY <1>a, <2>1, <2>2, GoesOnTyped
  <2> QED
    BY <1>a, <1>1, <2>3 DEF TurnEnds, env, client, observed, Typed, TypeOK, InPlace, Stopped
<1>2. CASE SessionExits(i)
  <2>1. live' = [live EXCEPT ![i] = NoSession] /\ Reported(i, Completed(live[i].turn) \o Exited)
    BY <1>2 DEF SessionExits
  <2>2. Completed(live[i].turn) \o Exited \in Seq(RuntimeEvent)
    BY <1>a, LiveIs, NewsTyped
  <2>3. events' \in [Instances -> Seq(RuntimeEvent)]
    BY <1>a, <2>1, <2>2, ReportedIs
  <2>4. live' \in [Instances -> Sessions \cup {NoSession}]
    BY <1>a, <2>1, LiveIs DEF TypeOK
  <2> QED
    BY <1>a, <1>2, <2>3, <2>4 DEF SessionExits, client, observed, Typed, TypeOK, InPlace, Stopped
<1>3. ASSUME NEW s \in AtWork(i), OwnTurn(i, s) PROVE Typed'
  <2> DEFINE t == MaxTurns + own'
  <2>1. Continues(i, s, [s EXCEPT !.turn = t]) /\ Reported(i, Begun(t))
    BY <1>3 DEF OwnTurn
  <2>2. own' \in Nat /\ t \in AllTurns /\ t \in TurnIds
    BY <1>a, <1>3, AgentIs DEF AllTurns, TurnIds
  <2>3. Begun(t) \in Seq(RuntimeEvent)
    BY <2>2, NewsTyped
  <2>4. /\ live' \in [Instances -> Sessions \cup {NoSession}]
        /\ orphans' \in [Instances -> SUBSET Sessions]
        /\ events' \in [Instances -> Seq(RuntimeEvent)]
    <3> HIDE DEF t
    <3> QED
      BY <1>a, <2>1, <2>2, <2>3, GoesOnTyped
  <2> QED
    BY <1>a, <1>3, <2>2, <2>4 DEF OwnTurn, observed, Typed, TypeOK, InPlace, Stopped
<1> QED
  BY <1>1, <1>2, <1>3

LEMMA TypedStep ==
  ASSUME Typed, [Next]_vars
  PROVE  Typed'
<1>a. TypeOK /\ InPlace /\ Stopped
  BY DEF Typed
<1>1. CASE IdleTime
  <2>1. binding' = [binding EXCEPT !.idle = TRUE] /\ binding # None
    BY <1>1 DEF IdleTime
  <2>2. binding' \in BindingRow
    BY <1>a, <2>1 DEF TypeOK, BindingRow
  <2>3. binding' # None
    BY <2>2, NothingIs
  <2> QED
    BY <1>a, <1>1, <2>1, <2>2, <2>3 DEF IdleTime, env, client, observed, Typed, TypeOK, InPlace, Stopped
<1>2. CASE Restart
  <2>1. outcome' \in [Turns -> Outcomes]
    BY <1>a, <1>2 DEF Restart, TypeOK, Outcomes
  <2>2. calls' = [c \in Callers |-> Idle] /\ InPlace'
    <3>1. calls' = [c \in Callers |-> Idle]
      BY <1>2 DEF Restart
    <3> QED
      BY <3>1, IdleFits DEF InPlace
  <2>3. binding' \in BindingRow \cup {None}
    BY <1>a, <1>2 DEF Restart, TypeOK, BindingRow
  <2>4. calls' \in [Callers -> CallRecord]
    BY <2>2, IdleIs
  <2>5. /\ events' \in [Instances -> Seq(RuntimeEvent)] /\ orphans' \in [Instances -> SUBSET Sessions]
        /\ live' \in [Instances -> Sessions \cup {NoSession}] /\ queue' \in Seq(Request)
        /\ ingest' = NotIngesting /\ chosen' = NoInstance /\ crashed' = TRUE
    BY <1>2 DEF Restart
  <2> QED
    BY <1>a, <1>2, <2>1, <2>2, <2>3, <2>4, <2>5 DEF Restart, client, observed, Typed, TypeOK, Stopped
<1>3. CASE UNCHANGED vars
  BY <1>a, <1>3 DEF vars, Typed, TypeOK, InPlace, Stopped
<1>4. CASE Agent
  BY <1>4, AgentTyped DEF Agent
<1>5. CASE \E c \in Callers : Call(c) \/ StartFails(c)
  BY <1>5, CallTyped
<1>6. CASE \E t \in Turns : Send(t)
  BY <1>6, SendTyped
<1>7. CASE \E i \in Instances : SessionExits(i)
  BY <1>7, AgentTyped
<1>8. CASE User \/ ReactorStep \/ ReaperStep \/ Ingestion
  BY <1>8, UserTyped, ReactorTyped, ReaperTyped, IngestionTyped
<1> QED
  BY <1>1, <1>2, <1>3, <1>4, <1>5, <1>6, <1>7, <1>8 DEF Next

LEMMA TypedInit == Init => Typed
<1> SUFFICES ASSUME Init PROVE Typed
  OBVIOUS
<1>1. calls = [c \in Callers |-> Idle] /\ binding = None
  BY DEF Init
<1>2. calls \in [Callers -> CallRecord] /\ InPlace
  BY <1>1, IdleIs, IdleFits DEF InPlace
<1>3. outcome \in [Turns -> Outcomes]
  BY DEF Init, Outcomes
<1>4. /\ live \in [Instances -> Sessions \cup {NoSession}] /\ orphans \in [Instances -> SUBSET Sessions]
      /\ events \in [Instances -> Seq(RuntimeEvent)] /\ queue \in Seq(Request)
  BY DEF Init
<1>5. session = None /\ binding = None /\ ingest = NotIngesting /\ chosen = NoInstance
      /\ mode = InitialMode /\ patient \in BOOLEAN /\ alive = TRUE /\ crashed = FALSE
      /\ clobbered = FALSE /\ switched = FALSE /\ own = 0
  BY DEF Init
<1>6. TypeOK
  BY <1>2, <1>3, <1>4, <1>5, SessionsAssumption DEF TypeOK
<1> QED
  BY <1>2, <1>5, <1>6 DEF Typed, Stopped

\* The state is well-formed: a caller is at a place that its request leads to and holds
\* what it needs there, and a session that is shown as stopped has no active turn.
THEOREM SpecTyped == Spec => []Typed
<1> QED
  BY TypedInit, TypedStep, PTL DEF Spec

-----------------------------------------------------------------------------
(* What each step makes of the callers.                                    *)

OthersStay(c) == \A d \in Callers : d # c => calls'[d] = calls[d]

\* A caller that has failed is idle, or is about to report its turn.
Failed(c) == \/ TurnOf(c) = NoTurn /\ calls'[c] = Idle
             \/ /\ TurnOf(c) # NoTurn /\ calls'[c].pc = "report" /\ calls'[c].event = calls[c].event

\* A caller that has moved on with what it works on.
Moved(c, pc) ==
  /\ calls'[c].pc = pc /\ calls'[c].event = calls[c].event
  /\ calls'[c].at = calls[c].at /\ calls'[c].mode = calls[c].mode

\* Route and StopRoute also take what the binding says.
MovedTo(c, pc, i) ==
  /\ calls'[c].pc = pc /\ calls'[c].event = calls[c].event /\ calls'[c].at = i

LEMMA GoesTo ==
  ASSUME Typed, NEW c \in Callers, NEW pc \in Places, Goto(c, pc)
  PROVE  OthersStay(c) /\ Moved(c, pc) /\ calls'[c].stale = calls[c].stale
<1>1. calls \in [Callers -> CallRecord] /\ calls[c] \in CallRecord
  BY DEF Typed, TypeOK
<1>2. calls' = [calls EXCEPT ![c] = [calls[c] EXCEPT !.pc = pc]]
  BY <1>1 DEF Goto
<1> QED
  BY <1>1, <1>2, AtIs DEF OthersStay, Moved

LEMMA Returns ==
  ASSUME Typed, NEW c \in Callers, Return(c)
  PROVE  OthersStay(c) /\ calls'[c] = Idle
  BY DEF Typed, TypeOK, Return, OthersStay

LEMMA Fails ==
  ASSUME Typed, NEW c \in Callers, Fail(c)
  PROVE  OthersStay(c) /\ Failed(c)
<1>1. "report" \in Places
  BY DEF Places, SendPlaces
<1>2. CASE TurnOf(c) = NoTurn
  BY <1>2, Returns DEF Fail, Failed
<1>3. CASE TurnOf(c) # NoTurn
  BY <1>1, <1>3, GoesTo DEF Fail, Failed, Moved
<1> QED
  BY <1>2, <1>3

LEMMA CallIs ==
  ASSUME Typed, NEW c \in Callers
  PROVE  /\ StartBegins(c) => calls[c].pc = "start" /\ OthersStay(c) /\ Moved(c, "spawn")
         /\ StartEnds(c) => /\ calls[c].pc = "spawn" /\ OthersStay(c) /\ Moved(c, "record")
                            /\ calls'[c].stale = IF Recovering(c) THEN {} ELSE Instances \ {calls[c].at}
         /\ StartFails(c) => calls[c].pc = "spawn" /\ OthersStay(c) /\ Failed(c)
         /\ RecordRecovered(c) => /\ calls[c].pc = "record" /\ OthersStay(c) /\ Moved(c, "deliver")
                                  /\ Recovering(c)
         /\ Route(c) => /\ calls[c].pc = "route" /\ OthersStay(c)
                        /\ \/ binding = None /\ Failed(c)
                           \/ /\ binding # None
                              /\ MovedTo(c, IF Live(binding.at) THEN "deliver" ELSE "recover", binding.at)
                              /\ calls'[c].mode = binding.mode
         /\ Recover(c) => /\ calls[c].pc = "recover" /\ OthersStay(c)
                          /\ MovedTo(c, IF Live(calls[c].at) THEN "record" ELSE "start", calls[c].at)
                          /\ calls'[c].mode = IF Live(calls[c].at) THEN live[calls[c].at].mode
                                              ELSE calls[c].mode
         /\ StopRoute(c) => /\ calls[c].pc = "stopRoute" /\ OthersStay(c)
                            /\ \/ binding = None /\ calls'[c] = Idle
                               \/ /\ binding # None
                                  /\ MovedTo(c, IF Live(binding.at) THEN "stop" ELSE "stopRecord", binding.at)
                                  /\ calls'[c].mode = calls[c].mode
         /\ StopAdapter(c) => /\ calls[c].pc = "stop" /\ OthersStay(c)
                              /\ \/ ~Live(calls[c].at) /\ calls'[c] = Idle
                                 \/ Live(calls[c].at) /\ Moved(c, "stopRecord")
         /\ StopRecord(c) => /\ calls[c].pc = "stopRecord" /\ OthersStay(c)
                             /\ \/ c = Reactor /\ Moved(c, "setStopped")
                                \/ c # Reactor /\ calls'[c] = Idle
         /\ Report(c) => calls[c].pc = "report" /\ OthersStay(c) /\ calls'[c] = Idle
<1>1. calls \in [Callers -> CallRecord] /\ calls[c] \in CallRecord
  BY DEF Typed, TypeOK
<1>2. {"spawn", "deliver", "start", "stopRecord", "setStopped"} \subseteq Places
  BY DEF Places, SendPlaces, StopPlaces, Starts
<1>3. ASSUME NEW new, calls' = [calls EXCEPT ![c] = new]
      PROVE  OthersStay(c) /\ calls'[c] = new
  BY <1>1, <1>3 DEF OthersStay
<1>4. ASSUME StartBegins(c) PROVE calls[c].pc = "start" /\ OthersStay(c) /\ Moved(c, "spawn")
  BY <1>2, <1>4, GoesTo DEF StartBegins
<1>5. ASSUME StartEnds(c)
      PROVE  /\ calls[c].pc = "spawn" /\ OthersStay(c) /\ Moved(c, "record")
             /\ calls'[c].stale = IF Recovering(c) THEN {} ELSE Instances \ {calls[c].at}
  <2> DEFINE stale == IF Recovering(c) THEN {} ELSE Instances \ {calls[c].at}
             new == [calls[c] EXCEPT !.pc = "record", !.stale = stale]
  <2>1. calls' = [calls EXCEPT ![c] = new] /\ calls[c].pc = "spawn"
    BY <1>1, <1>5 DEF StartEnds
  <2>2. /\ new.pc = "record" /\ new.event = calls[c].event /\ new.at = calls[c].at
        /\ new.mode = calls[c].mode /\ new.stale = stale
    BY <1>1 DEF CallRecord
  <2> HIDE DEF new
  <2> QED
    BY <1>3, <2>1, <2>2 DEF Moved
<1>6. ASSUME StartFails(c) PROVE calls[c].pc = "spawn" /\ OthersStay(c) /\ Failed(c)
  BY <1>6, Fails DEF StartFails
<1>7. ASSUME RecordRecovered(c)
      PROVE  calls[c].pc = "record" /\ OthersStay(c) /\ Moved(c, "deliver") /\ Recovering(c)
  BY <1>2, <1>7, GoesTo DEF RecordRecovered
<1>8. ASSUME Route(c)
      PROVE  /\ calls[c].pc = "route" /\ OthersStay(c)
             /\ \/ binding = None /\ Failed(c)
                \/ /\ binding # None
                   /\ MovedTo(c, IF Live(binding.at) THEN "deliver" ELSE "recover", binding.at)
                   /\ calls'[c].mode = binding.mode
  <2>1. CASE binding = None
    BY <1>8, <2>1, Fails DEF Route
  <2>2. CASE binding # None
    <3> DEFINE pc == IF Live(binding.at) THEN "deliver" ELSE "recover"
               new == [calls[c] EXCEPT !.at = binding.at, !.mode = binding.mode, !.pc = pc]
    <3>1. calls' = [calls EXCEPT ![c] = new] /\ calls[c].pc = "route"
      BY <1>1, <1>8, <2>2 DEF Route
    <3>2. /\ new.pc = pc /\ new.event = calls[c].event /\ new.at = binding.at
          /\ new.mode = binding.mode
      BY <1>1 DEF CallRecord
    <3> HIDE DEF new
    <3> QED
      BY <1>3, <2>2, <3>1, <3>2 DEF MovedTo
  <2> QED
    BY <2>1, <2>2
<1>9. ASSUME Recover(c)
      PROVE  /\ calls[c].pc = "recover" /\ OthersStay(c)
             /\ MovedTo(c, IF Live(calls[c].at) THEN "record" ELSE "start", calls[c].at)
             /\ calls'[c].mode = IF Live(calls[c].at) THEN live[calls[c].at].mode ELSE calls[c].mode
  <2>1. CASE Live(calls[c].at)
    <3> DEFINE new == [calls[c] EXCEPT !.pc = "record", !.mode = live[calls[c].at].mode]
    <3>1. calls' = [calls EXCEPT ![c] = new] /\ calls[c].pc = "recover"
      BY <1>1, <1>9, <2>1 DEF Recover
    <3>2. /\ new.pc = "record" /\ new.event = calls[c].event /\ new.at = calls[c].at
          /\ new.mode = live[calls[c].at].mode
      BY <1>1 DEF CallRecord
    <3> HIDE DEF new
    <3> QED
      BY <1>3, <2>1, <3>1, <3>2 DEF MovedTo
  <2>2. CASE ~Live(calls[c].at)
    BY <1>2, <1>9, <2>2, GoesTo DEF Recover, Moved, MovedTo
  <2> QED
    BY <2>1, <2>2
<1>10. ASSUME StopRoute(c)
       PROVE  /\ calls[c].pc = "stopRoute" /\ OthersStay(c)
              /\ \/ binding = None /\ calls'[c] = Idle
                 \/ /\ binding # None
                    /\ MovedTo(c, IF Live(binding.at) THEN "stop" ELSE "stopRecord", binding.at)
                    /\ calls'[c].mode = calls[c].mode
  <2>1. CASE binding = None
    BY <1>10, <2>1, Returns DEF StopRoute
  <2>2. CASE binding # None
    <3> DEFINE pc == IF Live(binding.at) THEN "stop" ELSE "stopRecord"
               new == [calls[c] EXCEPT !.at = binding.at, !.pc = pc]
    <3>1. calls' = [calls EXCEPT ![c] = new] /\ calls[c].pc = "stopRoute"
      BY <1>1, <1>10, <2>2 DEF StopRoute
    <3>2. /\ new.pc = pc /\ new.event = calls[c].event /\ new.at = binding.at
          /\ new.mode = calls[c].mode
      BY <1>1 DEF CallRecord
    <3> HIDE DEF new
    <3> QED
      BY <1>3, <2>2, <3>1, <3>2 DEF MovedTo
  <2> QED
    BY <2>1, <2>2
<1>11. ASSUME StopAdapter(c)
       PROVE  /\ calls[c].pc = "stop" /\ OthersStay(c)
              /\ \/ ~Live(calls[c].at) /\ calls'[c] = Idle
                 \/ Live(calls[c].at) /\ Moved(c, "stopRecord")
  <2>1. CASE Live(calls[c].at)
    BY <1>2, <1>11, <2>1, GoesTo DEF StopAdapter
  <2>2. CASE ~Live(calls[c].at)
    BY <1>11, <2>2, Returns DEF StopAdapter
  <2> QED
    BY <2>1, <2>2
<1>12. ASSUME StopRecord(c)
       PROVE  /\ calls[c].pc = "stopRecord" /\ OthersStay(c)
              /\ \/ c = Reactor /\ Moved(c, "setStopped")
                 \/ c # Reactor /\ calls'[c] = Idle
  <2>1. CASE c = Reactor
    BY <1>2, <1>12, <2>1, GoesTo DEF StopRecord
  <2>2. CASE c # Reactor
    BY <1>12, <2>2, Returns DEF StopRecord
  <2> QED
    BY <2>1, <2>2
<1>13. ASSUME Report(c) PROVE calls[c].pc = "report" /\ OthersStay(c) /\ calls'[c] = Idle
  BY <1>13, Returns DEF Report
<1> QED
  BY <1>4, <1>5, <1>6, <1>7, <1>8, <1>9, <1>10, <1>11, <1>12, <1>13

\* The reactor's own steps.
LEMMA ReactorIs ==
  ASSUME Typed
  PROVE  /\ Ensure => /\ calls[Reactor].pc = "ensure" /\ UNCHANGED binding
                      /\ \/ OthersStay(Reactor) /\ Failed(Reactor) /\ UNCHANGED chosen
                         \/ alive /\ Reusable(calls[Reactor].event) /\ Proceed
                         \/ /\ alive /\ ~ListSessionsDies /\ OthersStay(Reactor)
                            /\ MovedTo(Reactor, "start", Wanted(calls[Reactor].event))
                            /\ calls'[Reactor].mode = mode
         /\ \A i \in Instances : StopStale(i) =>
              /\ calls[Reactor].pc = "record" /\ OthersStay(Reactor) /\ Moved(Reactor, "record")
              /\ calls'[Reactor].stale = calls[Reactor].stale \ {i} /\ i \in calls[Reactor].stale
         /\ RecordNewSession => /\ calls[Reactor].pc = "record" /\ OthersStay(Reactor) /\ Moved(Reactor, "bind")
                                /\ calls'[Reactor].stale = calls[Reactor].stale
         /\ SetStopped => calls[Reactor].pc = "setStopped" /\ OthersStay(Reactor) /\ calls'[Reactor] = Idle
         /\ Interrupt => calls[Reactor].pc = "deliver" /\ OthersStay(Reactor) /\ calls'[Reactor] = Idle
<1> DEFINE r == calls[Reactor]
<1>1. calls \in [Callers -> CallRecord] /\ r \in CallRecord /\ Reactor \in Callers
  BY CallersAre DEF Typed, TypeOK
<1>2. ASSUME NEW new, calls' = [calls EXCEPT ![Reactor] = new]
      PROVE  OthersStay(Reactor) /\ calls'[Reactor] = new
  BY <1>1, <1>2 DEF OthersStay
<1>3. ASSUME Ensure
      PROVE  /\ r.pc = "ensure" /\ UNCHANGED binding
             /\ \/ OthersStay(Reactor) /\ Failed(Reactor) /\ UNCHANGED chosen
                \/ alive /\ Reusable(r.event) /\ Proceed
                \/ /\ alive /\ ~ListSessionsDies /\ OthersStay(Reactor)
                   /\ MovedTo(Reactor, "start", Wanted(r.event))
                   /\ calls'[Reactor].mode = mode
  <2> DEFINE new == [r EXCEPT !.pc = "start", !.at = Wanted(r.event), !.mode = mode]
  <2>1. /\ r.pc = "ensure" /\ UNCHANGED binding
        /\ \/ Fail(Reactor) /\ UNCHANGED chosen
           \/ alive /\ Reusable(r.event) /\ Proceed
           \/ /\ alive /\ ~ListSessionsDies
              /\ calls' = [calls EXCEPT ![Reactor].pc = "start", ![Reactor].at = Wanted(r.event),
                                        ![Reactor].mode = mode]
    BY <1>3 DEF Ensure
  <2>2. /\ new.pc = "start" /\ new.event = r.event /\ new.at = Wanted(r.event) /\ new.mode = mode
    BY <1>1 DEF CallRecord
  <2>3. CASE Fail(Reactor) /\ UNCHANGED chosen
    BY <1>1, <2>1, <2>3, Fails
  <2>4. CASE alive /\ Reusable(r.event) /\ Proceed
    BY <2>1, <2>4
  <2>5. CASE /\ alive /\ ~ListSessionsDies
             /\ calls' = [calls EXCEPT ![Reactor].pc = "start", ![Reactor].at = Wanted(r.event),
                                       ![Reactor].mode = mode]
    <3>1. calls' = [calls EXCEPT ![Reactor] = new]
      BY <1>1, <2>5
    <3> HIDE DEF new
    <3> QED
      BY <1>2, <2>1, <2>2, <2>5, <3>1 DEF MovedTo
  <2> QED
    BY <2>1, <2>3, <2>4, <2>5
<1>4. ASSUME NEW i \in Instances, StopStale(i)
      PROVE  /\ r.pc = "record" /\ OthersStay(Reactor) /\ Moved(Reactor, "record")
             /\ calls'[Reactor].stale = r.stale \ {i} /\ i \in r.stale
  <2> DEFINE new == [r EXCEPT !.stale = r.stale \ {i}]
  <2>1. calls' = [calls EXCEPT ![Reactor] = new] /\ r.pc = "record" /\ i \in r.stale
    BY <1>1, <1>4 DEF StopStale
  <2>2. /\ new.pc = "record" /\ new.event = r.event /\ new.at = r.at /\ new.mode = r.mode
        /\ new.stale = r.stale \ {i}
    BY <1>1, <2>1 DEF CallRecord
  <2> HIDE DEF new
  <2> QED
    BY <1>2, <2>1, <2>2 DEF Moved
<1>5. ASSUME RecordNewSession
      PROVE  /\ r.pc = "record" /\ OthersStay(Reactor) /\ Moved(Reactor, "bind")
             /\ calls'[Reactor].stale = r.stale
  <2>1. "bind" \in Places
    BY DEF Places
  <2> QED
    BY <1>1, <1>5, <2>1, GoesTo DEF RecordNewSession
<1>6. ASSUME SetStopped PROVE r.pc = "setStopped" /\ OthersStay(Reactor) /\ calls'[Reactor] = Idle
  BY <1>1, <1>6, Returns DEF SetStopped
<1>7. ASSUME Interrupt PROVE r.pc = "deliver" /\ OthersStay(Reactor) /\ calls'[Reactor] = Idle
  BY <1>1, <1>7, Returns DEF Interrupt
<1> QED
  BY <1>3, <1>4, <1>5, <1>6, <1>7

\* The fibers', the reaper's and the deletion's.
LEMMA SendIs ==
  ASSUME Typed, NEW t \in Turns
  PROVE  /\ SendBegins(t) => /\ calls[Fiber(t)].pc = "deliver" /\ OthersStay(Fiber(t))
                             /\ Moved(Fiber(t), "sending")
         /\ Deliver(t) => /\ calls[Fiber(t)].pc = "sending" /\ OthersStay(Fiber(t))
                          /\ Moved(Fiber(t), "recordTurn")
         /\ DeliveryFails(t) => /\ calls[Fiber(t)].pc \in {"deliver", "sending"}
                                /\ OthersStay(Fiber(t))
                                /\ calls'[Fiber(t)].pc = "report"
         /\ RecordTurn(t) => /\ calls[Fiber(t)].pc = "recordTurn" /\ OthersStay(Fiber(t))
                             /\ calls'[Fiber(t)] = Idle
<1>1. Fiber(t) \in Callers /\ TurnOf(Fiber(t)) # NoTurn
      /\ "recordTurn" \in Places /\ "sending" \in Places
  BY CallersAre, TurnOfIs, NothingIs DEF Places, SendPlaces
<1> QED
  BY <1>1, GoesTo, Fails, Returns DEF SendBegins, Deliver, DeliveryFails, RecordTurn, Failed

LEMMA ReaperIs ==
  ASSUME Typed
  PROVE  /\ Sweep => OthersStay(Reaper) /\ calls'[Reaper].pc = "check"
         /\ CheckTurn => /\ calls[Reaper].pc = "check" /\ OthersStay(Reaper)
                         /\ calls'[Reaper] = Idle \/ calls'[Reaper].pc = "stopRoute"
<1>1. Reaper \in Callers /\ "check" \in Places /\ "stopRoute" \in Places
  BY CallersAre DEF Places, StopPlaces
<1> QED
  BY <1>1, GoesTo, Returns DEF Sweep, CheckTurn, Moved

-----------------------------------------------------------------------------
(* Turns are answered.                                                     *)

\* A requested turn waits in the queue, is worked on by the reactor, or by its own fiber.
Waiting(t) == \E k \in 1 .. Len(queue) : queue[k].type = "turn" /\ queue[k].turn = t
Taken(t) == calls[Reactor].event.type = "turn" /\ calls[Reactor].event.turn = t
Pending(t) == Waiting(t) \/ Taken(t) \/ calls[Fiber(t)].pc # "idle"

\* A fiber past the sending works on a turn that is no longer just requested.
Attended ==
  \A t \in Turns : /\ alive /\ outcome[t] = "requested" => Pending(t)
                   /\ calls[Fiber(t)].pc = "recordTurn" => outcome[t] \notin {"none", "requested"}

\* One caller moves, without dropping a turn.
LEMMA AttendedMoves ==
  ASSUME Typed, Attended, NEW c \in Callers, UNCHANGED <<queue, outcome>>, alive' => alive, OthersStay(c),
         c = Reactor /\ calls[c].event.type = "turn" => calls'[c].event = calls[c].event,
         c # Reactor /\ calls'[c].pc = "idle" =>
           calls[c].pc = "recordTurn" \/ c \in {Deletion, Reaper},
         calls'[c].pc = "recordTurn" => calls[c].pc = "recordTurn"
  PROVE  Attended'
<1> SUFFICES ASSUME NEW t \in Turns
             PROVE  /\ alive' /\ outcome'[t] = "requested" => Pending(t)'
                    /\ calls'[Fiber(t)].pc = "recordTurn" => outcome'[t] \notin {"none", "requested"}
  BY DEF Attended
<1>1. /\ alive /\ outcome[t] = "requested" => Pending(t)
      /\ calls[Fiber(t)].pc = "recordTurn" => outcome[t] \notin {"none", "requested"}
  BY DEF Attended
<1>2. calls'[Fiber(t)].pc = "recordTurn" => outcome'[t] \notin {"none", "requested"}
  BY <1>1, CallersAre DEF OthersStay
<1>3. ASSUME alive, outcome[t] = "requested" PROVE Pending(t)'
  <2>1. CASE Waiting(t)
    BY <2>1 DEF Pending, Waiting
  <2>2. CASE Taken(t)
    BY <2>2, CallersAre DEF Pending, Taken, OthersStay
  <2>3. CASE calls[Fiber(t)].pc # "idle"
    BY <1>1, <1>3, <2>3, CallersAre DEF Pending, OthersStay
  <2> QED
    BY <1>1, <1>3, <2>1, <2>2, <2>3 DEF Pending
<1> QED
  BY <1>2, <1>3

\* A step that touches none of this.
LEMMA AttendedStays ==
  ASSUME Attended, UNCHANGED <<calls, queue, outcome, alive>>
  PROVE  Attended'
  BY DEF Attended, Pending, Waiting, Taken

LEMMA AttendedReported ==
  ASSUME Typed, Attended, NEW c \in Callers, Report(c)
  PROVE  Attended'
<1> DEFINE u == TurnOf(c)
<1>1. u \in Turns /\ outcome' = [outcome EXCEPT ![u] = "reported"] /\ UNCHANGED <<queue, alive>>
      /\ OthersStay(c) /\ calls'[c] = Idle /\ calls[c].pc = "report"
  BY WhoIsWhere, CallIs DEF Report, env, client
<1>2. outcome'[u] = "reported" /\ \A t \in Turns \ {u} : outcome'[t] = outcome[t]
  BY <1>1 DEF Typed, TypeOK
<1>3. c = Reactor \/ c = Fiber(u)
  BY <1>1, WhoIsWhere, TurnOfIs, CallersAre
<1>4. c = Reactor => \A t \in Turns : Taken(t) => t = u
  BY TurnOfIs DEF Taken
<1> SUFFICES ASSUME NEW t \in Turns
             PROVE  /\ alive' /\ outcome'[t] = "requested" => Pending(t)'
                    /\ calls'[Fiber(t)].pc = "recordTurn" => outcome'[t] \notin {"none", "requested"}
  BY DEF Attended
<1>5. CASE t = u
  BY <1>2, <1>5
<1>6. CASE t # u
  <2>1. outcome'[t] = outcome[t] /\ Fiber(t) # c /\ calls'[Fiber(t)] = calls[Fiber(t)]
    BY <1>1, <1>2, <1>3, <1>6, CallersAre DEF OthersStay
  <2>2. Taken(t) => Taken(t)'
    BY <1>1, <1>4, <1>6, CallersAre DEF Taken, OthersStay
  <2>3. Waiting(t) => Waiting(t)'
    BY <1>1 DEF Waiting
  <2> QED
    BY <1>1, <2>1, <2>2, <2>3 DEF Attended, Pending
<1> QED
  BY <1>5, <1>6

\* The reactor hands its turn to a fiber, or has failed with it.
LEMMA AttendedProceeds ==
  ASSUME Typed, Attended, Proceed, UNCHANGED <<binding, queue, outcome, alive>>,
         calls[Reactor].pc \in {"ensure", "bind"}
  PROVE  Attended'
<1> DEFINE e == calls[Reactor].event
<1>1. CASE e.type = "mode" /\ calls'[Reactor] = Idle /\ \A d \in Callers : d # Reactor => calls'[d] = calls[d]
  BY <1>1, AttendedMoves, CallersAre, IdleIs DEF OthersStay
<1>2. CASE e.type = "turn" /\ calls'[Reactor] = At(Reactor, "report")
           /\ \A d \in Callers : d # Reactor => calls'[d] = calls[d]
  <2>1. calls[Reactor] \in CallRecord /\ "report" \in Places
    BY CallersAre DEF Typed, TypeOK, Places, SendPlaces
  <2>2. calls'[Reactor].event = e /\ calls'[Reactor].pc = "report"
    BY <1>2, <2>1, AtIs DEF At
  <2> QED
    BY <1>2, <2>2, AttendedMoves, CallersAre DEF OthersStay
<1>3. CASE /\ e.type = "turn" /\ e.turn \in Turns /\ calls'[Reactor] = Idle
           /\ calls'[Fiber(e.turn)] = At(Fiber(e.turn), "route")
           /\ \A d \in Callers : d \notin {Reactor, Fiber(e.turn)} => calls'[d] = calls[d]
  <2> SUFFICES ASSUME NEW t \in Turns
               PROVE  /\ alive' /\ outcome'[t] = "requested" => Pending(t)'
                      /\ calls'[Fiber(t)].pc = "recordTurn" => outcome'[t] \notin {"none", "requested"}
    BY DEF Attended
  <2>1. calls[Fiber(e.turn)] \in CallRecord /\ "route" \in Places
    BY <1>3, CallersAre DEF Typed, TypeOK, Places, SendPlaces
  <2>2. calls'[Fiber(e.turn)].pc = "route"
    BY <1>3, <2>1, AtIs DEF At
  <2>3. CASE t = e.turn
    BY <2>2, <2>3 DEF Pending
  <2>4. CASE t # e.turn
    <3>1. calls'[Fiber(t)] = calls[Fiber(t)] /\ ~Taken(t)
      BY <1>3, <2>4, CallersAre DEF Taken
    <3>2. Waiting(t) => Waiting(t)'
      BY DEF Waiting
    <3> QED
      BY <3>1, <3>2 DEF Attended, Pending
  <2> QED
    BY <2>3, <2>4
<1> QED
  BY <1>1, <1>2, <1>3, ProceedIs

LEMMA AttendedTakes ==
  ASSUME Typed, Attended, Take
  PROVE  Attended'
<1> SUFFICES ASSUME NEW t \in Turns
             PROVE  /\ alive' /\ outcome'[t] = "requested" => Pending(t)'
                    /\ calls'[Fiber(t)].pc = "recordTurn" => outcome'[t] \notin {"none", "requested"}
  BY DEF Attended
<1>1. /\ queue \in Seq(Request) /\ queue # <<>> /\ queue' = Tail(queue) /\ calls[Reactor] = Idle
      /\ UNCHANGED <<outcome, alive>> /\ calls'[Fiber(t)] = calls[Fiber(t)]
  BY TakeIs, CallersAre DEF Typed, TypeOK, Take, env, client
<1>2. ~Taken(t)
  BY <1>1, IdleIs DEF Taken
<1>3. ASSUME alive, Waiting(t) PROVE Pending(t)'
  <2>1. PICK k \in 1 .. Len(queue) : queue[k].type = "turn" /\ queue[k].turn = t
    BY <1>3 DEF Waiting
  <2>2. CASE k = 1
    <3>1. Head(queue).type = "turn" /\ Head(queue).turn = t
      BY <1>1, <2>1, <2>2
    <3>2. FirstStep(Head(queue)) = "ensure"
      BY <1>3, <3>1 DEF FirstStep
    <3> QED
      BY <3>1, <3>2, TakeIs DEF Pending, Taken
  <2>3. CASE k # 1
    <3>1. k - 1 \in 1 .. Len(queue') /\ queue'[k - 1] = queue[k]
      BY <1>1, <2>1, <2>3
    <3> QED
      BY <2>1, <3>1 DEF Pending, Waiting
  <2> QED
    BY <2>2, <2>3
<1> QED
  BY <1>1, <1>2, <1>3 DEF Attended, Pending

\* A request is queued behind the others.
LEMMA AttendedQueues ==
  ASSUME Typed, Attended, NEW e \in Request, Queued(e), alive' = alive,
         \A t \in Turns : /\ outcome'[t] # outcome[t] => /\ e.type = "turn" /\ e.turn = t
                                                         /\ outcome[t] = "none"
  PROVE  Attended'
<1> SUFFICES ASSUME NEW t \in Turns
             PROVE  /\ alive' /\ outcome'[t] = "requested" => Pending(t)'
                    /\ calls'[Fiber(t)].pc = "recordTurn" => outcome'[t] \notin {"none", "requested"}
  BY DEF Attended
<1>1. queue \in Seq(Request) /\ queue' = Append(queue, e) /\ UNCHANGED calls
  BY DEF Typed, TypeOK, Queued
<1>2. /\ Len(queue') = Len(queue) + 1 /\ queue'[Len(queue) + 1] = e
      /\ \A k \in 1 .. Len(queue) : queue'[k] = queue[k]
  BY <1>1
<1>3. Waiting(t) => Waiting(t)'
  BY <1>1, <1>2 DEF Waiting
<1>4. CASE outcome'[t] = outcome[t]
  BY <1>1, <1>3, <1>4 DEF Attended, Pending, Taken
<1>5. CASE outcome'[t] # outcome[t]
  <2>1. Waiting(t)'
    BY <1>1, <1>2, <1>5 DEF Waiting
  <2>2. calls'[Fiber(t)].pc # "recordTurn"
    BY <1>1, <1>5 DEF Attended
  <2> QED
    BY <2>1, <2>2 DEF Pending
<1> QED
  BY <1>4, <1>5

LEMMA AttendedStep ==
  ASSUME Typed, Attended, [Next]_vars
  PROVE  Attended'
<1>1. CASE User
  <2>1. ASSUME NEW t \in Turns, NEW i \in Instances, RequestTurn(t, i) PROVE Attended'
    <3>1. outcome[t] = "none" /\ \A u \in Turns \ {t} : outcome'[u] = outcome[u]
      BY <2>1 DEF RequestTurn, Typed, TypeOK
    <3>2. PICK e \in Request : e = [type |-> "turn", turn |-> t, at |-> i]
      BY RequestsAreTyped
    <3>3. Queued(e) /\ alive' = alive /\ e.type = "turn" /\ e.turn = t
      BY <2>1, <3>2 DEF RequestTurn, client
    <3> QED
      BY <3>1, <3>3, AttendedQueues
  <2>2. CASE SetMode \/ RequestStop \/ RequestInterrupt
    <3>1. UNCHANGED <<alive, outcome>> /\ \E e \in Request : Queued(e)
      BY <2>2, RequestsAreTyped DEF SetMode, RequestStop, RequestInterrupt
    <3> QED
      BY <3>1, AttendedQueues
  <2>3. CASE DeleteThread
    <3>1. alive' = FALSE /\ UNCHANGED <<queue, outcome>>
      BY <2>3 DEF DeleteThread
    <3>2. OthersStay(Deletion) /\ calls'[Deletion].pc = "stopRoute"
      <4>1. Goto(Deletion, "stopRoute") /\ "stopRoute" \in Places
        BY <2>3 DEF DeleteThread, Goto, Places, StopPlaces
      <4> QED
        BY <4>1, CallersAre, GoesTo DEF Moved
    <3> QED
      BY <3>1, <3>2, CallersAre, AttendedMoves
  <2> QED
    BY <1>1, <2>1, <2>2, <2>3 DEF User
<1>2. CASE ReactorStep
  <2>1. CASE Ensure
    <3>1. UNCHANGED <<queue, outcome, alive>>
      BY <2>1 DEF Ensure, env, client
    <3>2. CASE Proceed
      BY <2>1, <3>1, <3>2, ReactorIs, AttendedProceeds
    <3>3. CASE OthersStay(Reactor) /\ Failed(Reactor)
      <4>1. calls'[Reactor].pc # "recordTurn"
        BY <3>3, IdleIs DEF Failed
      <4>2. calls[Reactor].event.type = "turn" => calls'[Reactor].event = calls[Reactor].event
        <5>1. ASSUME calls[Reactor].event.type = "turn" PROVE TurnOf(Reactor) # NoTurn
          BY <5>1, TurnOfIs, WhoIsWhere, CallersAre, NothingIs, IdleIs
        <5> QED
          BY <3>3, <5>1 DEF Failed
      <4> QED
        BY <3>1, <3>3, <4>1, <4>2, CallersAre, AttendedMoves
    <3>4. CASE OthersStay(Reactor) /\ MovedTo(Reactor, "start", Wanted(calls[Reactor].event))
      BY <3>1, <3>4, CallersAre, AttendedMoves DEF MovedTo
    <3> QED
      BY <2>1, <3>2, <3>3, <3>4, ReactorIs
  <2>2. ASSUME NEW i \in Instances, StopStale(i) PROVE Attended'
    <3>1. UNCHANGED <<queue, outcome, alive>>
      BY <2>2 DEF StopStale, env, client
    <3> QED
      BY <2>2, <3>1, ReactorIs, CallersAre, AttendedMoves DEF Moved
  <2>3. CASE RecordNewSession
    <3>1. UNCHANGED <<queue, outcome, alive>>
      BY <2>3 DEF RecordNewSession, env, client
    <3> QED
      BY <2>3, <3>1, ReactorIs, CallersAre, AttendedMoves DEF Moved
  <2>4. CASE Bind
    <3>1. Proceed /\ UNCHANGED <<binding, queue, outcome, alive>> /\ calls[Reactor].pc = "bind"
      BY <2>4 DEF Bind, env, client
    <3> QED
      BY <3>1, AttendedProceeds
  <2>5. CASE SetStopped
    <3>1. UNCHANGED <<queue, outcome, alive>> /\ calls[Reactor].pc = "setStopped"
      BY <2>5 DEF SetStopped, env, client
    <3>2. calls[Reactor].event.type # "turn"
      BY <3>1, WhoIsWhere, CallersAre DEF Fits, PlacesOf, ReactorPlaces, Starts
    <3> QED
      BY <2>5, <3>1, <3>2, ReactorIs, CallersAre, IdleIs, AttendedMoves
  <2>6. CASE Interrupt
    <3>1. UNCHANGED <<queue, outcome, alive>> /\ calls[Reactor].event.type # "turn"
      BY <2>6, WhoIsWhere, CallersAre DEF Interrupt, env, client
    <3> QED
      BY <2>6, <3>1, ReactorIs, CallersAre, IdleIs, AttendedMoves
  <2> QED
    BY <1>2, <2>1, <2>2, <2>3, <2>4, <2>5, <2>6, AttendedTakes DEF ReactorStep
<1>3. ASSUME NEW c \in Callers, Call(c) \/ StartFails(c) PROVE Attended'
  <2>1. CASE Report(c)
    BY <2>1, AttendedReported
  <2>2. CASE ~Report(c)
    <3>1. UNCHANGED <<queue, outcome, alive>>
      BY <1>3, <2>2 DEF Call, StartBegins, StartEnds, StartFails, RecordRecovered, Route, Recover, StopRoute,
         StopAdapter, StopRecord, env, client
    <3>2. ASSUME Failed(c), OthersStay(c) PROVE Attended'
      <4>1. calls'[c].pc # "recordTurn"
        BY <3>2, IdleIs DEF Failed
      <4>2. c = Reactor /\ calls[c].event.type = "turn" => calls'[c].event = calls[c].event
        BY <3>2, TurnOfIs, WhoIsWhere, NothingIs, IdleIs DEF Failed
      <4>3. calls'[c].pc = "idle" /\ c # Reactor => c \in {Deletion, Reaper}
        BY <3>2, TurnOfIs, CallersAre, NothingIs DEF Failed
      <4> QED
        BY <3>1, <3>2, <4>1, <4>2, <4>3, AttendedMoves
    <3>3. CASE StartFails(c)
      BY <3>2, <3>3, CallIs
    <3>4. CASE StartBegins(c) \/ StartEnds(c) \/ RecordRecovered(c)
      BY <3>1, <3>4, CallIs, AttendedMoves DEF Moved
    <3>5. CASE Route(c) \/ Recover(c)
      BY <3>1, <3>2, <3>5, CallIs, AttendedMoves DEF MovedTo
    <3>6. CASE StopRoute(c) \/ StopAdapter(c) \/ StopRecord(c)
      <4>1. calls[c].pc \in StopPlaces
        BY <3>6, CallIs DEF StopPlaces
      <4>2. c \in {Reactor, Deletion, Reaper} /\ (c = Reactor => calls[c].event.type = "stop")
        BY <4>1, WhoIsWhere
      <4>3. OthersStay(c) /\ calls'[c].pc # "recordTurn"
        BY <3>6, CallIs, IdleIs DEF MovedTo, Moved
      <4> QED
        BY <3>1, <4>2, <4>3, AttendedMoves
    <3> QED
      BY <1>3, <2>2, <3>3, <3>4, <3>5, <3>6 DEF Call
  <2> QED
    BY <2>1, <2>2
<1>4. ASSUME NEW t \in Turns, Send(t) PROVE Attended'
  <2>1. CASE Deliver(t)
    <3>1. /\ UNCHANGED <<queue, alive>> /\ outcome'[t] = "sent"
          /\ \A u \in Turns \ {t} : outcome'[u] = outcome[u] /\ calls'[Fiber(u)] = calls[Fiber(u)]
          /\ calls'[Reactor] = calls[Reactor]
      BY <2>1, SendIs, CallersAre DEF Deliver, env, client, Typed, TypeOK, OthersStay
    <3>2. ASSUME NEW u \in Turns
          PROVE  /\ alive' /\ outcome'[u] = "requested" => Pending(u)'
                 /\ calls'[Fiber(u)].pc = "recordTurn" => outcome'[u] \notin {"none", "requested"}
      <4>1. CASE u = t
        BY <3>1, <4>1
      <4>2. CASE u # t
        BY <3>1, <4>2 DEF Attended, Pending, Waiting, Taken
      <4> QED
        BY <4>1, <4>2
    <3> QED
      BY <3>2 DEF Attended
  <2>2. CASE DeliveryFails(t)
    <3>1. UNCHANGED <<queue, outcome, alive>>
      BY <2>2 DEF DeliveryFails, client
    <3> QED
      BY <2>2, <3>1, SendIs, CallersAre, AttendedMoves
  <2>3. CASE RecordTurn(t)
    <3>1. UNCHANGED <<queue, outcome, alive>>
      BY <2>3 DEF RecordTurn, env, client
    <3> QED
      BY <2>3, <3>1, SendIs, CallersAre, IdleIs, AttendedMoves
  <2>4. CASE SendBegins(t)
    <3>1. UNCHANGED <<queue, outcome, alive>>
      BY <2>4 DEF SendBegins, env, client
    <3> QED
      BY <2>4, <3>1, SendIs, CallersAre, AttendedMoves DEF Moved
  <2> QED
    BY <1>4, <2>1, <2>2, <2>3, <2>4 DEF Send
<1>5. CASE ReaperStep
  <2>1. UNCHANGED <<queue, outcome, alive>>
    BY <1>5 DEF ReaperStep, Sweep, CheckTurn, env, client
  <2>2. OthersStay(Reaper) /\ calls'[Reaper].pc # "recordTurn"
    BY <1>5, ReaperIs, IdleIs DEF ReaperStep
  <2> QED
    BY <2>1, <2>2, CallersAre, AttendedMoves
<1>6. CASE Restart
  <2>1. /\ \A t \in Turns : outcome'[t] # "requested"
        /\ \A t \in Turns : calls'[Fiber(t)] = Idle
    BY <1>6, CallersAre DEF Restart
  <2> QED
    BY <2>1, IdleIs DEF Attended
<1>7. CASE Ingestion
  BY <1>7, AttendedStays DEF Ingestion, IngestRead, IngestWrite, env, client
<1>8. CASE Agent
  BY <1>8, AttendedStays DEF Agent, TurnEnds, OwnTurn, env, client
<1>9. CASE IdleTime \/ UNCHANGED vars
  BY <1>9, AttendedStays DEF IdleTime, env, client, vars
<1>10. CASE \E i \in Instances : SessionExits(i)
  BY <1>10, AttendedStays DEF SessionExits, client
<1> QED
  BY <1>1, <1>2, <1>3, <1>4, <1>5, <1>6, <1>7, <1>8, <1>9, <1>10 DEF Next

\* A turn that is requested is sent or reported as failed: whatever goes wrong, and in
\* whatever order reactor, fibers, deletion and reaper work, the worker and the fibers
\* forget none (processTurnStartRequested and its fiber in ProviderCommandReactor.ts).
THEOREM SpecTurnsAreAnswered == Spec => []TurnsAreAnswered
<1>1. Init => Attended
  BY CallersAre, IdleIs DEF Init, Attended
<1>2. Typed /\ Attended => TurnsAreAnswered
  <2> SUFFICES ASSUME Typed, Attended, Handled, alive, NEW t \in Turns PROVE outcome[t] # "requested"
    BY DEF TurnsAreAnswered
  <2>1. calls[Reactor] = Idle /\ calls[Fiber(t)] = Idle /\ queue = <<>>
    BY CallersAre DEF Handled
  <2>2. ~Pending(t)
    BY <2>1, IdleIs DEF Pending, Waiting, Taken
  <2> QED
    BY <2>2 DEF Attended
<1>3. Typed /\ Attended /\ [Next]_vars => Attended'
  BY AttendedStep
<1> QED
  BY <1>1, <1>2, <1>3, SpecTyped, PTL DEF Spec

-----------------------------------------------------------------------------
(* Turns that are shown end.                                               *)

EndOf(t) == [type |-> "turn.completed", turn |-> t]
StartOf(t) == [type |-> "turn.started", turn |-> t]
Completes(news, t) == \E k \in 1 .. Len(news) : news[k] = EndOf(t)

ShownTurn(s) == IF s = None THEN NoTurn ELSE s.turn
\* The turns that an instance works on, and those whose end nobody reports.
Working(i) == ({s.turn : s \in AtWork(i)} \ {NoTurn}) \cup raced
CompletedLater(i, k, u) == \E j \in k + 1 .. Len(events[i]) : events[i][j] = EndOf(u)
Ending(u) == \E i \in Instances : u \in Working(i) \/ CompletedLater(i, 0, u)

\* A turn whose start is still to be ingested is at work or completed by a later event of
\* the instance; so is a turn that is shown or that ingestion has read, unless the event
\* at hand completes it.
StartsEnd ==
  \A i \in Instances : \A k \in 1 .. Len(events[i]) : events[i][k].type = "turn.started" =>
    events[i][k].turn \in Working(i) \/ CompletedLater(i, k, events[i][k].turn)
ShownEnds(s) ==
  ShownTurn(s) # NoTurn => Ending(ShownTurn(s)) \/ ingest.event = EndOf(ShownTurn(s))
Accounted ==
  /\ ingest # NotIngesting => ShownTurn(session) \in {NoTurn, ShownTurn(ingest.seen)}
  /\ alive /\ ~crashed => /\ StartsEnd /\ ShownEnds(session) /\ ShownEnds(ingest.seen)
                          /\ ingest.event.type = "turn.started" => Ending(ingest.event.turn)

LEMMA PairIs ==
  ASSUME NEW e \in RuntimeEvent, NEW r \in RuntimeEvent
  PROVE  /\ Len(<<e>>) = 1 /\ <<e>>[1] = e
         /\ Len(<<e>> \o <<r>>) = 2 /\ (<<e>> \o <<r>>)[1] = e /\ (<<e>> \o <<r>>)[2] = r
         /\ <<>> \o <<r>> = <<r>>
<1>1. <<e>> \in Seq(RuntimeEvent) /\ <<r>> \in Seq(RuntimeEvent)
  OBVIOUS
<1>2. Len(<<e>>) = 1 /\ Len(<<r>>) = 1 /\ <<e>>[1] = e /\ <<r>>[1] = r
  OBVIOUS
<1>3. Len(<<e>> \o <<r>>) = 2 /\ (<<e>> \o <<r>>)[1] = e /\ (<<e>> \o <<r>>)[2] = r
  BY <1>1, <1>2
<1>4. <<>> \o <<r>> = <<r>>
  BY <1>1
<1> QED
  BY <1>2, <1>3, <1>4

\* The event that ends what is reported, and the turns in it.
LEMMA NewsIs ==
  ASSUME NEW t \in TurnIds
  PROVE  /\ \A k \in 1 .. Len(Completed(t)) : Completed(t)[k].type # "turn.started"
         /\ \A k \in 1 .. Len(Completed(t) \o Exited) : (Completed(t) \o Exited)[k].type # "turn.started"
         /\ \A k \in 1 .. Len(Started) : Started[k].type # "turn.started"
         /\ \A u \in AllTurns : Len(Begun(u)) = 1 /\ Begun(u)[1] = StartOf(u)
         /\ t # NoTurn => Completes(Completed(t), t) /\ Completes(Completed(t) \o Exited, t)
<1>1. PICK x \in RuntimeEvent : x = [type |-> "session.exited"]
  BY DEF RuntimeEvent
<1>2. PICK y \in RuntimeEvent : y = [type |-> "session.started"]
  BY DEF RuntimeEvent
<1>3. ASSUME NEW u \in AllTurns PROVE Len(Begun(u)) = 1 /\ Begun(u)[1] = StartOf(u)
  <2>1. PICK e \in RuntimeEvent : e = StartOf(u)
    BY DEF StartOf, RuntimeEvent
  <2> QED
    BY <2>1, PairIs DEF Begun, StartOf
<1>4. Exited = <<x>> /\ Started = <<y>> /\ x.type # "turn.started" /\ y.type # "turn.started"
  BY <1>1, <1>2 DEF Exited, Started
<1>5. \A k \in 1 .. Len(Started) : Started[k].type # "turn.started"
  BY <1>4, PairIs
<1>6. CASE t = NoTurn
  <2>1. Completed(t) = <<>>
    BY <1>6 DEF Completed
  <2>2. \A k \in 1 .. Len(Completed(t) \o Exited) : (Completed(t) \o Exited)[k].type # "turn.started"
    BY <1>4, <2>1, PairIs
  <2> QED
    BY <1>3, <1>5, <1>6, <2>1, <2>2
<1>7. CASE t # NoTurn
  <2>1. PICK e \in RuntimeEvent : e = EndOf(t)
    BY <1>7 DEF EndOf, RuntimeEvent, TurnIds
  <2>2. Completed(t) = <<e>> /\ e.type # "turn.started"
    BY <1>7, <2>1 DEF Completed, EndOf
  <2>3. /\ \A k \in 1 .. Len(Completed(t)) : Completed(t)[k].type # "turn.started"
        /\ \A k \in 1 .. Len(Completed(t) \o Exited) : (Completed(t) \o Exited)[k].type # "turn.started"
    BY <1>4, <2>2, PairIs
  <2>4. 1 \in 1 .. Len(Completed(t)) /\ 1 \in 1 .. Len(Completed(t) \o Exited)
        /\ Completed(t)[1] = e /\ (Completed(t) \o Exited)[1] = e
    BY <1>4, <2>2, PairIs
  <2>5. Completes(Completed(t), t) /\ Completes(Completed(t) \o Exited, t)
    BY <2>1, <2>4 DEF Completes
  <2> QED
    BY <1>3, <1>5, <1>7, <2>3, <2>5
<1> QED
  BY <1>6, <1>7

LEMMA WorkingIs ==
  ASSUME NEW i \in Instances
  PROVE  /\ \A s \in AtWork(i) : s.turn # NoTurn => s.turn \in Working(i)
         /\ \A u \in Working(i) \ raced : u # NoTurn /\ \E s \in AtWork(i) : s.turn = u
         /\ raced \subseteq Working(i)
         /\ UNCHANGED <<live, orphans, raced>> => Working(i)' = Working(i)
  BY DEF Working, AtWork

\* The session is written with no turn, or not at all.
LEMMA AccountedClears ==
  ASSUME Typed, Accounted, UNCHANGED <<events, live, orphans, raced, ingest, crashed>>,
         alive' => alive,
         ShownTurn(session') \in {NoTurn, ShownTurn(session)}
  PROVE  Accounted'
<1>1. /\ \A i \in Instances : Working(i)' = Working(i)
      /\ \A i \in Instances, k \in Nat, u \in Turns : CompletedLater(i, k, u)' = CompletedLater(i, k, u)
      /\ \A u : Ending(u)' = Ending(u)
  BY WorkingIs DEF CompletedLater, Ending
<1>2. StartsEnd => StartsEnd'
  BY <1>1 DEF StartsEnd, CompletedLater
<1>3. ShownEnds(session) => ShownEnds(session)'
  BY <1>1 DEF ShownEnds
<1>4. ShownEnds(ingest.seen) => ShownEnds(ingest.seen)'
  BY <1>1 DEF ShownEnds
<1> QED
  BY <1>1, <1>2, <1>3, <1>4 DEF Accounted, ShownEnds

\* An instance reports: turns that are no longer at work are completed, those that are
\* started are.
LEMMA AccountedReports ==
  ASSUME Typed, Accounted, NEW i \in Instances, NEW news \in Seq(RuntimeEvent), Reported(i, news),
         UNCHANGED <<session, ingest, alive, crashed>>,
         \A j \in Instances \ {i} : Working(j) \subseteq Working(j)',
         \A u \in Working(i) \ Working(i)' : Completes(news, u),
         \A k \in 1 .. Len(news) : news[k].type = "turn.started" => news[k].turn \in Working(i)'
  PROVE  Accounted'
<1>1. /\ events \in [Instances -> Seq(RuntimeEvent)] /\ events'[i] = events[i] \o news
      /\ \A j \in Instances : j # i => events'[j] = events[j]
  BY ReportedIs DEF Typed, TypeOK
<1>2. /\ Len(events'[i]) = Len(events[i]) + Len(news) /\ Len(events[i]) \in Nat /\ Len(news) \in Nat
      /\ \A k \in 1 .. Len(events[i]) : events'[i][k] = events[i][k]
      /\ \A k \in 1 .. Len(news) : events'[i][Len(events[i]) + k] = news[k]
  BY <1>1
<1>3. ASSUME NEW j \in Instances, NEW k \in Nat, NEW u, CompletedLater(j, k, u)
      PROVE  CompletedLater(j, k, u)'
  <2>1. PICK n \in k + 1 .. Len(events[j]) : events[j][n] = EndOf(u)
    BY <1>3 DEF CompletedLater
  <2>2. n \in k + 1 .. Len(events'[j]) /\ events'[j][n] = EndOf(u)
    <3>1. CASE j = i
      BY <1>2, <2>1, <3>1
    <3>2. CASE j # i
      BY <1>1, <2>1, <3>2
    <3> QED
      BY <3>1, <3>2
  <2> QED
    BY <2>2 DEF CompletedLater
<1>4. ASSUME NEW k \in 0 .. Len(events[i]), NEW u \in Working(i)
      PROVE  u \in Working(i)' \/ CompletedLater(i, k, u)'
  <2>1. CASE u \in Working(i)'
    BY <2>1
  <2>2. CASE u \notin Working(i)'
    <3>1. PICK n \in 1 .. Len(news) : news[n] = EndOf(u)
      BY <2>2 DEF Completes
    <3>2. Len(events[i]) + n \in k + 1 .. Len(events'[i])
          /\ events'[i][Len(events[i]) + n] = EndOf(u)
      BY <1>2, <3>1
    <3> QED
      BY <3>2 DEF CompletedLater
  <2> QED
    BY <2>1, <2>2
<1>5. ASSUME NEW u, Ending(u) PROVE Ending(u)'
  <2>1. PICK j \in Instances : u \in Working(j) \/ CompletedLater(j, 0, u)
    BY <1>5 DEF Ending
  <2>2. u \in Working(j)' \/ CompletedLater(j, 0, u)'
    <3>1. 0 \in 0 .. Len(events[i])
      BY <1>2
    <3> QED
      BY <1>3, <1>4, <2>1, <3>1
  <2> QED
    BY <2>2 DEF Ending
<1>6. ASSUME StartsEnd PROVE StartsEnd'
  <2> SUFFICES ASSUME NEW j \in Instances, NEW k \in 1 .. Len(events'[j]), NEW u,
                        events'[j][k].type = "turn.started", u = events'[j][k].turn
                 PROVE  u \in Working(j)' \/ CompletedLater(j, k, u)'
    BY DEF StartsEnd, CompletedLater
  <2>1. CASE j # i
    <3>1. k \in 1 .. Len(events[j]) /\ k \in Nat /\ events'[j][k] = events[j][k] /\ Working(j) \subseteq Working(j)'
      BY <1>1, <2>1
    <3> QED
      BY <1>3, <1>6, <3>1 DEF StartsEnd
  <2>2. CASE j = i /\ k \in 1 .. Len(events[i])
    <3>1. events'[j][k] = events[i][k] /\ k \in 0 .. Len(events[i]) /\ k \in Nat
      BY <1>2, <2>2
    <3>2. events[i][k].turn \in Working(i) \/ CompletedLater(i, k, events[i][k].turn)
      BY <1>6, <2>2, <3>1 DEF StartsEnd
    <3> QED
      BY <1>3, <1>4, <2>2, <3>1, <3>2
  <2>3. CASE j = i /\ k \notin 1 .. Len(events[i])
    <3> DEFINE m == k - Len(events[i])
    <3>0. /\ Len(events[i]) \in Nat /\ Len(news) \in Nat
          /\ Len(events'[j]) = Len(events[i]) + Len(news)
      BY <1>2, <2>3
    <3>1. m \in 1 .. Len(news) /\ k = Len(events[i]) + m
      <4>1. \A a, b \in Nat : \A n \in 1 .. a + b :
              n \notin 1 .. a => n - a \in 1 .. b /\ n = a + (n - a)
        OBVIOUS
      <4>2. k \in 1 .. Len(events[i]) + Len(news) /\ k \notin 1 .. Len(events[i])
        BY <2>3, <3>0
      <4> QED
        BY <3>0, <4>1, <4>2
    <3>2. events'[j][k] = news[m]
      BY <1>2, <2>3, <3>1
    <3> QED
      BY <2>3, <3>1, <3>2
  <2> QED
    BY <2>1, <2>2, <2>3
<1> QED
  BY <1>5, <1>6 DEF Accounted, ShownEnds

\* The same, of the reports that there are: an ended turn, with or without an exit.
LEMMA AccountedEnds ==
  ASSUME Typed, Accounted, NEW i \in Instances, NEW t \in TurnIds,
         Reported(i, Completed(t)) \/ Reported(i, Completed(t) \o Exited),
         UNCHANGED <<session, ingest, alive, crashed>>,
         \A j \in Instances \ {i} : Working(j) \subseteq Working(j)',
         Working(i) \ Working(i)' \subseteq {t} \ {NoTurn}
  PROVE  Accounted'
<1>1. Completed(t) \in Seq(RuntimeEvent) /\ Completed(t) \o Exited \in Seq(RuntimeEvent)
  BY NewsTyped
<1>2. \A u \in Working(i) \ Working(i)' : Completes(Completed(t), u) /\ Completes(Completed(t) \o Exited, u)
  BY NewsIs
<1>3. CASE Reported(i, Completed(t))
  <2> DEFINE news == Completed(t)
  <2>1. \A k \in 1 .. Len(news) : news[k].type = "turn.started" => news[k].turn \in Working(i)'
    BY NewsIs
  <2>2. news \in Seq(RuntimeEvent) /\ Reported(i, news) /\ \A u \in Working(i) \ Working(i)' : Completes(news, u)
    BY <1>1, <1>2, <1>3
  <2> HIDE DEF news
  <2> QED
    BY <2>1, <2>2, AccountedReports
<1>4. CASE Reported(i, Completed(t) \o Exited)
  <2> DEFINE news == Completed(t) \o Exited
  <2>1. \A k \in 1 .. Len(news) : news[k].type = "turn.started" => news[k].turn \in Working(i)'
    BY NewsIs
  <2>2. news \in Seq(RuntimeEvent) /\ Reported(i, news) /\ \A u \in Working(i) \ Working(i)' : Completes(news, u)
    BY <1>1, <1>2, <1>4
  <2> HIDE DEF news
  <2> QED
    BY <2>1, <2>2, AccountedReports
<1> QED
  BY <1>3, <1>4

\* A session goes, or its turn.
LEMMA AccountedStops ==
  ASSUME Typed, Accounted, NEW i \in Instances, NEW s \in Sessions \cup {NoSession}, s.turn = NoTurn,
         Reported(i, Completed(live[i].turn)) \/ Reported(i, Completed(live[i].turn) \o Exited),
         live' = [live EXCEPT ![i] = s], UNCHANGED <<session, ingest, alive, crashed, orphans, raced>>
  PROVE  Accounted'
<1>1. live \in [Instances -> Sessions \cup {NoSession}] /\ live[i].turn \in TurnIds
  BY LiveIs DEF Typed, TypeOK
<1>2. live'[i].turn = NoTurn /\ \A j \in Instances \ {i} : live'[j] = live[j]
  BY <1>1
<1>3. \A j \in Instances \ {i} : Working(j) \subseteq Working(j)'
  BY <1>2 DEF Working, AtWork
<1>4. Working(i) \ Working(i)' \subseteq {live[i].turn} \ {NoTurn}
  BY DEF Working, AtWork
<1> QED
  BY <1>1, <1>3, <1>4, AccountedEnds

\* A turn is started, in a session at work or in one that is gone.
LEMMA AccountedBegins ==
  ASSUME Typed, Accounted, NEW i \in Instances, NEW t \in AllTurns, Reported(i, Begun(t)),
         UNCHANGED <<session, ingest, alive, crashed>>,
         \A j \in Instances : Working(j) \subseteq Working(j)', t \in Working(i)'
  PROVE  Accounted'
<1>1. PICK news \in Seq(RuntimeEvent) : news = Begun(t)
  BY NewsTyped
<1>2. Len(news) = 1 /\ news[1].turn = t
  <2>1. NoTurn \in TurnIds
    BY DEF TurnIds
  <2>2. Len(Begun(t)) = 1 /\ Begun(t)[1] = StartOf(t)
    BY <2>1, NewsIs
  <2>3. StartOf(t).turn = t
    BY DEF StartOf
  <2> QED
    BY <1>1, <2>2, <2>3
<1>3. Reported(i, news) /\ (\A u \in Working(i) \ Working(i)' : Completes(news, u))
      /\ \A k \in 1 .. Len(news) : news[k].type = "turn.started" => news[k].turn \in Working(i)'
  BY <1>1, <1>2
<1> QED
  BY <1>3, AccountedReports

\* What becomes of the turns at work when a session goes on as another record.
LEMMA WorkGoesOn ==
  ASSUME TypeOK, NEW i \in Instances, NEW s \in AtWork(i), NEW t \in TurnIds,
         Continues(i, s, [s EXCEPT !.turn = t]), raced \subseteq raced'
  PROVE  /\ \A j \in Instances \ {i} : Working(j) \subseteq Working(j)'
         /\ \A u \in Working(i) : u = s.turn \/ u \in Working(i)'
         /\ t # NoTurn => t \in Working(i)'
<1> DEFINE r == [s EXCEPT !.turn = t]
<1>1. r \in Sessions /\ r.turn = t
  BY LiveIs DEF Sessions
<1>2. /\ \A j \in Instances : j # i => live'[j] = live[j] /\ orphans'[j] = orphans[j]
      /\ r \in AtWork(i)' /\ \A q \in AtWork(i) : q = s \/ q \in AtWork(i)'
  <2> HIDE DEF r
  <2> QED
    BY <1>1, ContinuesIs DEF r
<1> HIDE DEF r
<1>3. \A j \in Instances \ {i} : Working(j) \subseteq Working(j)'
  BY <1>2 DEF Working, AtWork
<1>4. \A u \in Working(i) : u = s.turn \/ u \in Working(i)'
  BY <1>2 DEF Working
<1>5. t # NoTurn => t \in Working(i)'
  BY <1>1, <1>2 DEF Working
<1> QED
  BY <1>3, <1>4, <1>5

LEMMA AccountedSent ==
  ASSUME Typed, Accounted, NEW t \in Turns, Begin(t), calls[Fiber(t)].pc = "sending",
         UNCHANGED <<session, ingest, alive, crashed>>
  PROVE  Accounted'
<1>1. PICK i \in Instances : i = calls[Fiber(t)].at
  BY WhoIsWhere, CallersAre DEF Routed
<1>2. TypeOK /\ t \in AllTurns /\ t \in TurnIds /\ t # NoTurn /\ Reported(i, Begun(t))
  BY <1>1, NothingIs DEF Typed, TurnIds, Begin
<1>3. ASSUME NEW s \in AtWork(i), Continues(i, s, [s EXCEPT !.turn = t]),
             raced' = raced \cup ({s.turn} \ {NoTurn})
      PROVE  Accounted'
  <2>1. /\ \A j \in Instances \ {i} : Working(j) \subseteq Working(j)'
        /\ \A u \in Working(i) : u = s.turn \/ u \in Working(i)'
        /\ t \in Working(i)'
    BY <1>2, <1>3, WorkGoesOn
  <2>2. s.turn \in Working(i)' \/ s.turn = NoTurn
    BY <1>3 DEF Working
  <2>3. Working(i) \subseteq Working(i)'
    <3>1. ASSUME NEW u \in Working(i), u = NoTurn PROVE u \in Working(i)'
      BY <1>3, <3>1 DEF Working
    <3> QED
      BY <2>1, <2>2, <3>1
  <2> QED
    BY <1>2, <2>1, <2>3, AccountedBegins
<1>4. CASE raced' = raced \cup {t} /\ UNCHANGED <<live, orphans>>
  <2>1. \A j \in Instances : Working(j) \subseteq Working(j)' /\ t \in Working(j)'
    BY <1>4 DEF Working, AtWork
  <2> QED
    BY <1>2, <2>1, AccountedBegins
<1> QED
  BY <1>1, <1>3, <1>4 DEF Begin

LEMMA AccountedStarts ==
  ASSUME Typed, Accounted, NEW c \in Callers, StartEnds(c)
  PROVE  Accounted'
<1>1. PICK i \in Instances : i = calls[c].at
  BY WhoIsWhere DEF StartEnds, Starts
<1>2. PICK m \in Modes : m = calls[c].mode
  BY WhoIsWhere
<1>3. /\ TypeOK /\ UNCHANGED <<session, ingest, alive, crashed>>
      /\ Reported(i, Started) /\ live' = [live EXCEPT ![i] = Session(m)]
      /\ orphans' = [orphans EXCEPT ![i] = AtWork(i)] /\ raced' = raced
  BY <1>1, <1>2 DEF Typed, StartEnds, client
<1>4. \A j \in Instances \ {i} : live'[j] = live[j]
  BY <1>3 DEF TypeOK
<1>5. orphans'[i] = AtWork(i)
      /\ \A j \in Instances \ {i} : orphans'[j] = orphans[j]
  BY <1>3 DEF TypeOK
<1>6. \A j \in Instances : Working(j) \subseteq Working(j)'
  BY <1>3, <1>4, <1>5 DEF Working, AtWork
<1>7. NoTurn \in TurnIds
  BY DEF TurnIds
<1>8. Started \in Seq(RuntimeEvent)
      /\ \A k \in 1 .. Len(Started) : Started[k].type = "turn.started" => Started[k].turn \in Working(i)'
  BY <1>7, NewsTyped, NewsIs
<1> QED
  BY <1>3, <1>6, <1>8, AccountedReports

\* The agent ends a turn, or begins one of its own.
LEMMA AccountedAgent ==
  ASSUME Typed, Accounted, NEW i \in Instances, NEW s \in AtWork(i), TurnEnds(i, s) \/ OwnTurn(i, s)
  PROVE  Accounted'
<1>1. TypeOK /\ UNCHANGED <<session, ingest, alive, crashed, raced>>
  BY DEF TurnEnds, OwnTurn, env, client, observed, Typed
<1>2. CASE TurnEnds(i, s)
  <2>1. Continues(i, s, [s EXCEPT !.turn = NoTurn]) /\ Reported(i, Completed(s.turn))
        /\ s.turn # NoTurn
    BY <1>2 DEF TurnEnds
  <2>2. s.turn \in TurnIds /\ NoTurn \in TurnIds
    BY <1>1, AgentIs
  <2>3. /\ \A j \in Instances \ {i} : Working(j) \subseteq Working(j)'
        /\ Working(i) \ Working(i)' \subseteq {s.turn} \ {NoTurn}
    BY <1>1, <2>1, <2>2, WorkGoesOn
  <2> QED
    BY <1>1, <2>1, <2>2, <2>3, AccountedEnds
<1>3. CASE OwnTurn(i, s)
  <2>1. PICK t \in AllTurns : t = MaxTurns + own'
    BY <1>1, <1>3, AgentIs DEF AllTurns
  <2>2. Continues(i, s, [s EXCEPT !.turn = t]) /\ Reported(i, Begun(t)) /\ s.turn = NoTurn
    BY <1>3, <2>1 DEF OwnTurn
  <2>3. t \in TurnIds /\ t # NoTurn
    BY NothingIs DEF TurnIds
  <2>4. /\ \A j \in Instances \ {i} : Working(j) \subseteq Working(j)'
        /\ \A u \in Working(i) : u = NoTurn \/ u \in Working(i)'
        /\ t \in Working(i)'
    BY <1>1, <2>2, <2>3, WorkGoesOn
  <2>5. Working(i) \subseteq Working(i)'
    <3>1. ASSUME NEW u \in Working(i), u = NoTurn PROVE u \in Working(i)'
      BY <1>1, <3>1 DEF Working
    <3> QED
      BY <2>4, <3>1
  <2> QED
    BY <1>1, <2>2, <2>4, <2>5, AccountedBegins
<1> QED
  BY <1>2, <1>3

\* Ingestion takes the first event of an instance.
LEMMA AccountedReads ==
  ASSUME Typed, Accounted, NEW i \in Instances, IngestRead(i)
  PROVE  Accounted'
<1>0. PICK e \in RuntimeEvent : e = Head(events[i])
  BY IngestReadIs
<1>1. /\ events[i] # <<>> /\ events'[i] = Tail(events[i])
      /\ \A j \in Instances : j # i => events'[j] = events[j]
      /\ events[i] \in Seq(RuntimeEvent) /\ UNCHANGED <<session, live, orphans, raced, alive, crashed>>
  BY IngestReadIs DEF IngestRead, env, client, observed, Typed, TypeOK
<1>2. /\ Len(events'[i]) = Len(events[i]) - 1 /\ Len(events[i]) \in Nat \ {0} /\ e = events[i][1]
      /\ \A k \in 1 .. Len(events'[i]) : events'[i][k] = events[i][k + 1]
  BY <1>0, <1>1
<1>3. CASE ~alive
  <2>1. ingest' = NotIngesting
    BY <1>3 DEF IngestRead
  <2> QED
    BY <1>1, <1>3, <2>1 DEF Accounted
<1>4. CASE alive
  <2>1. ingest' = [event |-> e, seen |-> session]
    BY <1>0, <1>4 DEF IngestRead
  <2>2. ingest'.event = e /\ ingest'.seen = session
    BY <2>1
  <2>3. \A j \in Instances : Working(j)' = Working(j)
    BY <1>1, WorkingIs
  <2>4. ASSUME NEW j \in Instances, NEW k \in Nat, NEW u, CompletedLater(j, k, u), j = i => k > 0
        PROVE  CompletedLater(j, IF j = i THEN k - 1 ELSE k, u)'
    <3>1. PICK n \in k + 1 .. Len(events[j]) : events[j][n] = EndOf(u)
      BY <2>4 DEF CompletedLater
    <3>2. CASE j = i
      <4>1. n - 1 \in (k - 1) + 1 .. Len(events'[i]) /\ events'[i][n - 1] = EndOf(u)
        BY <1>2, <2>4, <3>1, <3>2
      <4> QED
        BY <3>2, <4>1 DEF CompletedLater
    <3>3. CASE j # i
      BY <1>1, <3>1, <3>3 DEF CompletedLater
    <3> QED
      BY <3>2, <3>3
  <2>5. ASSUME NEW u, Ending(u) PROVE Ending(u)' \/ e = EndOf(u)
    <3>1. PICK j \in Instances : u \in Working(j) \/ CompletedLater(j, 0, u)
      BY <2>5 DEF Ending
    <3>2. CASE u \in Working(j)
      BY <2>3, <3>2 DEF Ending
    <3>3. CASE CompletedLater(j, 0, u) /\ j # i
      BY <2>4, <3>3 DEF Ending
    <3>4. CASE CompletedLater(j, 0, u) /\ j = i
      <4>1. PICK n \in 1 .. Len(events[i]) : events[i][n] = EndOf(u)
        BY <3>4 DEF CompletedLater
      <4>2. CASE n = 1
        BY <1>2, <4>1, <4>2
      <4>3. CASE n # 1
        <5>1. n - 1 \in 0 + 1 .. Len(events'[i]) /\ events'[i][n - 1] = EndOf(u)
          BY <1>2, <4>1, <4>3
        <5> QED
          BY <5>1 DEF Ending, CompletedLater
      <4> QED
        BY <4>2, <4>3
    <3> QED
      BY <3>1, <3>2, <3>3, <3>4
  <2>6. ASSUME StartsEnd PROVE StartsEnd'
    <3> SUFFICES ASSUME NEW j \in Instances, NEW k \in 1 .. Len(events'[j]), NEW u,
                          events'[j][k].type = "turn.started", u = events'[j][k].turn
                   PROVE  u \in Working(j)' \/ CompletedLater(j, k, u)'
      BY DEF StartsEnd, CompletedLater
    <3>1. CASE j = i
      <4>1. k + 1 \in 1 .. Len(events[i]) /\ events'[j][k] = events[i][k + 1] /\ k + 1 \in Nat /\ k + 1 > 0
            /\ (k + 1) - 1 = k
        BY <1>2, <3>1
      <4>2. events[i][k + 1].turn \in Working(i) \/ CompletedLater(i, k + 1, events[i][k + 1].turn)
        BY <2>6, <4>1 DEF StartsEnd
      <4> QED
        BY <2>3, <2>4, <3>1, <4>1, <4>2
    <3>2. CASE j # i
      <4>1. k \in 1 .. Len(events[j]) /\ events'[j][k] = events[j][k] /\ k \in Nat
        BY <1>1, <3>2
      <4> QED
        BY <2>3, <2>4, <2>6, <3>2, <4>1 DEF StartsEnd
    <3> QED
      BY <3>1, <3>2
  <2>7. ASSUME StartsEnd, e.type = "turn.started" PROVE Ending(e.turn)'
    <3>1. e.turn \in Working(i) \/ CompletedLater(i, 1, e.turn)
      BY <1>2, <2>7 DEF StartsEnd
    <3>2. CASE e.turn \in Working(i)
      BY <2>3, <3>2 DEF Ending
    <3>3. CASE CompletedLater(i, 1, e.turn)
      <4>1. CompletedLater(i, 0, e.turn)'
        BY <2>4, <3>3
      <4> QED
        BY <4>1 DEF Ending
    <3> QED
      BY <3>1, <3>2, <3>3
  <2>8. ASSUME ShownEnds(session), ingest = NotIngesting PROVE ShownEnds(session)' /\ ShownEnds(ingest.seen)'
    <3>1. ingest.event # EndOf(ShownTurn(session))
      BY <2>8 DEF NotIngesting, NoEvent, EndOf
    <3> QED
      BY <1>1, <2>2, <2>5, <2>8, <3>1 DEF ShownEnds
  <2>9. ingest = NotIngesting
    BY DEF IngestRead
  <2>10. ASSUME ~crashed
         PROVE  (StartsEnd /\ ShownEnds(session) /\ ShownEnds(ingest.seen))'
                /\ (e.type = "turn.started" => Ending(e.turn)')
    BY <1>4, <2>6, <2>7, <2>8, <2>9, <2>10 DEF Accounted
  <2>11. ShownTurn(session)' \in {NoTurn, ShownTurn(ingest.seen)'}
    BY <1>1, <2>2
  <2>12. ingest'.event.type = "turn.started" /\ ~crashed => Ending(ingest.event.turn)'
    BY <2>2, <2>10 DEF Ending, CompletedLater
  <2> QED
    BY <1>1, <2>2, <2>10, <2>11, <2>12 DEF Accounted
<1> QED
  BY <1>3, <1>4

\* Ingestion writes the session.
LEMMA AccountedWrites ==
  ASSUME Typed, Accounted, IngestWrite
  PROVE  Accounted'
<1> DEFINE e == ingest.event
           s == ingest.seen
<1>1. /\ ingest # NotIngesting /\ ingest' = NotIngesting /\ UNCHANGED <<events, live, orphans, raced, alive, crashed>>
      /\ session' = IF Conflicts(e, s) THEN session ELSE Applied(e, s)
      /\ e \in RuntimeEvent /\ s \in SessionRow \cup {None}
  BY IngestingIs DEF IngestWrite, client
<1>2. \A u : Ending(u)' = Ending(u)
  BY <1>1, WorkingIs DEF Ending, CompletedLater
<1>3. StartsEnd => StartsEnd'
  BY <1>1, WorkingIs DEF StartsEnd, CompletedLater
<1>4. ingest'.event.type # "turn.started" /\ ingest'.seen = None
  BY <1>1 DEF NotIngesting, NoEvent
<1>5. e = EndOf(ShownTurn(s)) => ~Conflicts(e, s)
  BY DEF EndOf, Conflicts, ShownTurn
<1>6. ASSUME alive, ~crashed PROVE ShownTurn(session') # NoTurn => Ending(ShownTurn(session'))
  <2>1. /\ ShownTurn(session) \in {NoTurn, ShownTurn(s)} /\ ShownEnds(s)
        /\ (e.type = "turn.started" => Ending(e.turn))
    BY <1>1, <1>6 DEF Accounted
  <2>2. CASE e.type = "turn.completed" /\ ~Conflicts(e, s)
    BY <1>1, <2>2, AppliedIs DEF ShownTurn
  <2>3. CASE e.type = "session.exited"
    BY <1>1, <2>3, AppliedIs DEF ShownTurn, Conflicts
  <2>4. CASE e.type = "turn.started" /\ ~Conflicts(e, s)
    BY <1>1, <2>1, <2>4, AppliedIs DEF ShownTurn
  <2>5. CASE e.type = "session.started"
    <3>1. ShownTurn(session') \in {NoTurn, ShownTurn(s)} /\ e # EndOf(ShownTurn(s))
      BY <1>1, <2>5, AppliedIs DEF ShownTurn, Conflicts, EndOf
    <3> QED
      BY <2>1, <3>1 DEF ShownEnds
  <2>6. CASE Conflicts(e, s)
    BY <1>1, <1>5, <2>1, <2>6 DEF ShownEnds
  <2> QED
    BY <1>1, <2>2, <2>3, <2>4, <2>5, <2>6, AppliedIs
<1> QED
  BY <1>1, <1>2, <1>3, <1>4, <1>6 DEF Accounted, ShownEnds, ShownTurn

\* Callers' steps: the session goes or its turn, a turn begins, a session starts, the
\* projected session is written with no turn, or none of that.
LEMMA AccountedCalls ==
  ASSUME Typed, Accounted, NEW c \in Callers, Call(c) \/ StartFails(c)
  PROVE  Accounted'
<1>1. CASE StartBegins(c)
  <2>1. PICK i \in Instances : i = calls[c].at
    BY <1>1, WhoIsWhere DEF StartBegins, Starts
  <2>2. /\ Reported(i, Completed(live[i].turn)) /\ live' = [live EXCEPT ![i] = NoSession]
        /\ UNCHANGED <<session, ingest, alive, crashed, orphans, raced>>
    BY <1>1, <2>1 DEF StartBegins, env, client, observed
  <2> QED
    BY <2>2, LiveIs, AccountedStops DEF Typed
<1>2. CASE StartEnds(c)
  BY <1>2, AccountedStarts
<1>3. CASE StopAdapter(c)
  <2>1. PICK i \in Instances : i = calls[c].at
    BY <1>3, WhoIsWhere DEF StopAdapter, Routed
  <2>2. UNCHANGED <<session, ingest, alive, crashed, orphans, raced>>
    BY <1>3 DEF StopAdapter, env, client, observed
  <2>3. CASE Live(i)
    <3>1. Reported(i, Completed(live[i].turn) \o Exited) /\ live' = [live EXCEPT ![i] = NoSession]
      BY <1>3, <2>1, <2>3 DEF StopAdapter
    <3> QED
      BY <2>2, <3>1, LiveIs, AccountedStops DEF Typed
  <2>4. CASE ~Live(i)
    <3>1. UNCHANGED <<live, events>>
      BY <1>3, <2>1, <2>4 DEF StopAdapter
    <3> QED
      BY <2>2, <3>1, AccountedClears
  <2> QED
    BY <2>3, <2>4
<1>4. CASE Report(c)
  <2>1. UNCHANGED <<events, live, orphans, raced, ingest, crashed, alive>>
    BY <1>4 DEF Report, env, client, observed
  <2>2. ShownTurn(session') \in {NoTurn, ShownTurn(session)}
    BY <1>4 DEF Report, ShownTurn, Projected
  <2> QED
    BY <2>1, <2>2, AccountedClears
<1>5. CASE StartFails(c) \/ RecordRecovered(c) \/ Route(c) \/ Recover(c) \/ StopRoute(c) \/ StopRecord(c)
  <2>1. UNCHANGED <<session, events, live, orphans, raced, ingest, crashed, alive>>
    BY <1>5 DEF StartFails, RecordRecovered, Route, Recover, StopRoute, StopRecord, env, client, observed
  <2> QED
    BY <2>1, AccountedClears
<1> QED
  BY <1>1, <1>2, <1>3, <1>4, <1>5 DEF Call

LEMMA AccountedReactor ==
  ASSUME Typed, Accounted, ReactorStep
  PROVE  Accounted'
<1>1. CASE Take \/ Ensure \/ RecordNewSession
  <2>1. UNCHANGED <<session, events, live, orphans, raced, ingest, crashed, alive>>
    BY <1>1 DEF Take, Ensure, RecordNewSession, env, client, observed
  <2> QED
    BY <2>1, AccountedClears
<1>2. CASE Bind \/ SetStopped
  <2>1. UNCHANGED <<events, live, orphans, raced, ingest, crashed, alive>>
    BY <1>2 DEF Bind, SetStopped, env, client, observed
  <2>2. ShownTurn(session') = NoTurn
    BY <1>2 DEF Bind, SetStopped, ShownTurn, Projected
  <2> QED
    BY <2>1, <2>2, AccountedClears
<1>3. ASSUME NEW i \in Instances, StopStale(i) PROVE Accounted'
  <2>1. UNCHANGED <<session, ingest, alive, crashed, orphans, raced>>
    BY <1>3 DEF StopStale, env, client, observed
  <2>2. CASE Live(i)
    <3>1. Reported(i, Completed(live[i].turn) \o Exited) /\ live' = [live EXCEPT ![i] = NoSession]
      BY <1>3, <2>2 DEF StopStale
    <3> QED
      BY <2>1, <3>1, LiveIs, AccountedStops DEF Typed
  <2>3. CASE ~Live(i)
    <3>1. UNCHANGED <<live, events>>
      BY <1>3, <2>3 DEF StopStale
    <3> QED
      BY <2>1, <3>1, AccountedClears
  <2> QED
    BY <2>2, <2>3
<1>4. CASE Interrupt
  <2>1. PICK i \in Instances : i = calls[Reactor].at
    BY <1>4, WhoIsWhere, CallersAre DEF Interrupt, Routed
  <2>2. /\ UNCHANGED <<session, ingest, alive, crashed, orphans, raced>> /\ Reported(i, Completed(live[i].turn))
        /\ live' = IF Live(i) THEN [live EXCEPT ![i].turn = NoTurn] ELSE live
    BY <1>4, <2>1 DEF Interrupt, env, client, observed
  <2>3. CASE Live(i)
    <3>1. [live[i] EXCEPT !.turn = NoTurn] \in Sessions /\ [live[i] EXCEPT !.turn = NoTurn].turn = NoTurn
      BY <2>3, LiveIs DEF Typed, TurnIds, Sessions
    <3>2. live' = [live EXCEPT ![i] = [live[i] EXCEPT !.turn = NoTurn]]
      BY <2>2, <2>3
    <3> QED
      BY <2>2, <3>1, <3>2, AccountedStops
  <2>4. CASE ~Live(i)
    <3>1. live' = [live EXCEPT ![i] = NoSession]
      BY <2>2, <2>4 DEF Live, Typed, TypeOK
    <3> QED
      BY <2>2, <3>1, LiveIs, AccountedStops DEF Typed
  <2> QED
    BY <2>3, <2>4
<1> QED
  BY <1>1, <1>2, <1>3, <1>4 DEF ReactorStep

LEMMA AccountedSend ==
  ASSUME Typed, Accounted, NEW t \in Turns, Send(t)
  PROVE  Accounted'
<1>1. CASE Deliver(t)
  BY <1>1, AccountedSent DEF Deliver, client
<1>2. CASE DeliveryFails(t)
  <2>1. UNCHANGED <<session, ingest, alive, crashed>>
    BY <1>2 DEF DeliveryFails, client
  <2>2. CASE Begin(t) /\ calls[Fiber(t)].pc = "sending"
    BY <2>1, <2>2, AccountedSent
  <2>3. CASE UNCHANGED <<live, orphans, events, raced>>
    BY <2>1, <2>3, AccountedClears
  <2> QED
    BY <1>2, <2>2, <2>3 DEF DeliveryFails
<1>3. CASE RecordTurn(t)
  <2>1. UNCHANGED <<session, events, live, orphans, raced, ingest, crashed, alive>>
    BY <1>3 DEF RecordTurn, env, client, observed
  <2> QED
    BY <2>1, AccountedClears
<1>4. CASE SendBegins(t)
  <2>1. PICK i \in Instances : i = calls[Fiber(t)].at
    BY <1>4, SendBeginsIs
  <2>2. /\ Reported(i, Completed(live[i].turn))
        /\ UNCHANGED <<session, ingest, alive, crashed, orphans, raced>>
    BY <1>4, <2>1 DEF SendBegins, env, client, observed
  <2>3. live' = [live EXCEPT ![i] = Held(i, t)] /\ Held(i, t) \in Sessions /\ Held(i, t).turn = NoTurn
    BY <1>4, <2>1, SendBeginsIs
  <2> QED
    BY <2>2, <2>3, AccountedStops
<1> QED
  BY <1>1, <1>2, <1>3, <1>4 DEF Send

LEMMA AccountedStep ==
  ASSUME Typed, Accounted, [Next]_vars
  PROVE  Accounted'
<1>1. CASE User
  <2>1. UNCHANGED <<session, events, live, orphans, raced, ingest, crashed>>
    BY <1>1 DEF User, RequestTurn, SetMode, RequestStop, RequestInterrupt, DeleteThread, Queued,
                observed
  <2>2. alive' => alive
    BY <1>1 DEF User, RequestTurn, SetMode, RequestStop, RequestInterrupt, DeleteThread, Queued, client
  <2> QED
    BY <2>1, <2>2, AccountedClears
<1>2. CASE ReaperStep \/ IdleTime \/ UNCHANGED vars
  <2>1. UNCHANGED <<session, events, live, orphans, raced, ingest, crashed, alive>>
    BY <1>2 DEF ReaperStep, Sweep, CheckTurn, IdleTime, vars, env, client, observed
  <2> QED
    BY <2>1, AccountedClears
<1>3. CASE Ingestion
  BY <1>3, AccountedReads, AccountedWrites DEF Ingestion
<1>6. ASSUME NEW i \in Instances, SessionExits(i) PROVE Accounted'
  <2>1. UNCHANGED <<session, ingest, alive, crashed, orphans, raced>>
        /\ Reported(i, Completed(live[i].turn) \o Exited) /\ live' = [live EXCEPT ![i] = NoSession]
    BY <1>6 DEF SessionExits, client, observed
  <2> QED
    BY <2>1, LiveIs, AccountedStops DEF Typed
<1>7. CASE Restart
  <2>1. crashed' /\ ingest' = NotIngesting
    BY <1>7 DEF Restart
  <2> QED
    BY <2>1 DEF Accounted
<1>8. CASE Agent
  BY <1>8, AccountedAgent DEF Agent
<1>9. CASE \E c \in Callers : Call(c) \/ StartFails(c)
  BY <1>9, AccountedCalls
<1>10. CASE \E t \in Turns : Send(t)
  BY <1>10, AccountedSend
<1> QED
  BY <1>1, <1>2, <1>3, <1>6, <1>7, <1>8, <1>9, <1>10, AccountedReactor DEF Next

LEMMA AccountedInit == Init => Accounted
<1> SUFFICES ASSUME Init PROVE Accounted
  OBVIOUS
<1>1. session = None /\ ingest = NotIngesting /\ \A i \in Instances : events[i] = <<>>
  BY DEF Init
<1>2. ingest.seen = None /\ ingest.event.type # "turn.started"
  BY <1>1 DEF NotIngesting, NoEvent
<1>3. StartsEnd
  BY <1>1 DEF StartsEnd
<1> QED
  BY <1>1, <1>2, <1>3 DEF Accounted, ShownEnds, ShownTurn

\* No thread is left busy with nothing: when everything is handled, the turn that it shows
\* as active is one that a provider works on, or one whose end nobody reports.  Only
\* sendTurn makes such turns (ClaudeAdapter.ts): having waited for the agent, it starts its
\* turn in a session that is over, or over a turn that has begun meanwhile.  The end of
\* every other turn is reported, whatever takes its session, and ingestion drops only the
\* end of a turn other than the one shown (ProviderRuntimeIngestion.ts).
THEOREM SpecNoPhantomTurn == Spec => []NoPhantomTurn
<1>1. Accounted => NoPhantomTurn
  <2> SUFFICES ASSUME Accounted, Handled, ~crashed, alive, session # None, session.turn # NoTurn,
                      session.turn \notin raced
               PROVE  \E i \in Instances : \E s \in AtWork(i) : session.turn = s.turn
    BY DEF NoPhantomTurn
  <2>1. ShownTurn(session) = session.turn /\ ShownEnds(session)
    BY DEF Accounted, ShownTurn
  <2>2. ingest = NotIngesting /\ \A i \in Instances : events[i] = <<>>
    BY DEF Handled
  <2>3. ingest.event # EndOf(session.turn)
    BY <2>2 DEF NotIngesting, NoEvent, EndOf
  <2>4. PICK i \in Instances : session.turn \in Working(i) \/ CompletedLater(i, 0, session.turn)
    BY <2>1, <2>3 DEF ShownEnds, Ending
  <2>5. ~CompletedLater(i, 0, session.turn)
    BY <2>2 DEF CompletedLater
  <2> QED
    BY <2>4, <2>5, WorkingIs
<1>2. Typed /\ Accounted /\ [Next]_vars => Accounted'
  BY AccountedStep
<1> QED
  BY <1>1, <1>2, AccountedInit, SpecTyped, PTL DEF Spec

-----------------------------------------------------------------------------
(* What a step makes of one caller, of one instance and of the session.    *)

Workers == Callers \ {Deletion, Reaper}

\* A fiber is forked for the reactor's turn.
Forks(t) ==
  /\ Ensure \/ Bind
  /\ calls[Reactor].pc \in {"ensure", "bind"} /\ calls'[Reactor] = Idle
  /\ calls[Reactor].event.type = "turn" /\ calls[Reactor].event.turn = t
  /\ calls'[Fiber(t)].pc = "route" /\ \A d \in Callers \ {Reactor, Fiber(t)} : calls'[d] = calls[d]

LEMMA ForksIs ==
  ASSUME Typed, Ensure \/ Bind
  PROVE  /\ calls[Reactor].pc \in {"ensure", "bind"}
         /\ OthersStay(Reactor) \/ \E t \in Turns : Forks(t)
         /\ \/ calls'[Reactor].pc \in {"idle", "report"}
            \/ /\ Ensure /\ MovedTo(Reactor, "start", Wanted(calls[Reactor].event))
               /\ calls'[Reactor].mode = mode
<1>1. calls[Reactor].pc \in {"ensure", "bind"} /\ UNCHANGED binding
  BY DEF Ensure, Bind
<1>2. CASE Proceed
  <2>1. calls[Reactor] \in CallRecord /\ "report" \in Places /\ "route" \in Places
    BY CallersAre DEF Typed, TypeOK, Places, SendPlaces
  <2>2. At(Reactor, "report").pc = "report"
    BY <2>1, AtIs DEF At
  <2>3. \A t \in Turns : At(Fiber(t), "route").pc = "route"
    BY <2>1, AtIs, CallersAre DEF At, Typed, TypeOK
  <2> DEFINE e == calls[Reactor].event
  <2>4. CASE /\ e.type = "turn" /\ e.turn \in Turns /\ calls'[Reactor] = Idle
             /\ calls'[Fiber(e.turn)] = At(Fiber(e.turn), "route")
             /\ \A d \in Callers : d \notin {Reactor, Fiber(e.turn)} => calls'[d] = calls[d]
    <3>1. PICK t \in Turns : t = e.turn
      BY <2>4
    <3>2. Forks(t) /\ calls'[Reactor].pc = "idle"
      BY <1>1, <2>3, <2>4, <3>1, IdleIs DEF Forks
    <3> QED
      BY <1>1, <3>2
  <2>5. CASE /\ calls'[Reactor] = Idle \/ calls'[Reactor] = At(Reactor, "report")
             /\ \A d \in Callers : d # Reactor => calls'[d] = calls[d]
    BY <1>1, <2>2, <2>5, IdleIs DEF OthersStay
  <2> QED
    BY <1>1, <1>2, <2>4, <2>5, ProceedIs
<1>3. CASE ~Proceed
  <2>1. Ensure
    BY <1>3 DEF Bind
  <2>2. CASE OthersStay(Reactor) /\ Failed(Reactor)
    BY <1>1, <2>2, IdleIs DEF Failed
  <2>3. CASE /\ OthersStay(Reactor) /\ MovedTo(Reactor, "start", Wanted(calls[Reactor].event))
             /\ calls'[Reactor].mode = mode
    BY <1>1, <2>1, <2>3
  <2> QED
    BY <1>3, <2>1, <2>2, <2>3, ReactorIs
<1> QED
  BY <1>2, <1>3

\* Who moves: nobody, one caller, reactor and fiber, or all of them.
LEMMA CallerStep ==
  ASSUME Typed, [Next]_vars
  PROVE  \/ UNCHANGED calls
         \/ Take /\ OthersStay(Reactor)
         \/ \E t \in Turns : Forks(t)
         \/ Ensure /\ OthersStay(Reactor) /\ calls'[Reactor].pc \in {"idle", "report", "start"}
         \/ Bind /\ OthersStay(Reactor) /\ calls'[Reactor].pc \in {"idle", "report"}
         \/ (\E i \in Instances : StopStale(i)) /\ OthersStay(Reactor)
         \/ RecordNewSession /\ OthersStay(Reactor)
         \/ SetStopped /\ OthersStay(Reactor)
         \/ Interrupt /\ OthersStay(Reactor)
         \/ \E c \in Callers : (Call(c) \/ StartFails(c)) /\ OthersStay(c) /\ calls[c].pc # "idle"
         \/ \E t \in Turns : Send(t) /\ OthersStay(Fiber(t)) /\ calls[Fiber(t)].pc # "idle"
         \/ DeleteThread /\ OthersStay(Deletion)
         \/ ReaperStep /\ OthersStay(Reaper) /\ calls'[Reaper].pc \in {"idle", "check", "stopRoute"}
         \/ Restart
<1>1. CASE User
  <2>1. CASE DeleteThread
    <3>1. Goto(Deletion, "stopRoute") /\ "stopRoute" \in Places
      BY <2>1 DEF DeleteThread, Goto, Places, StopPlaces
    <3> QED
      BY <2>1, <3>1, CallersAre, GoesTo
  <2>2. CASE ~DeleteThread
    BY <1>1, <2>2 DEF User, RequestTurn, SetMode, RequestStop, RequestInterrupt, Queued
  <2> QED
    BY <2>1, <2>2
<1>2. CASE ReactorStep
  <2>1. CASE Take
    BY <2>1, TakeIs DEF OthersStay
  <2>2. CASE Ensure \/ Bind
    <3>1. CASE \E t \in Turns : Forks(t)
      BY <3>1
    <3>2. CASE OthersStay(Reactor) /\ Ensure
      BY <3>2, ForksIs DEF MovedTo
    <3>3. CASE OthersStay(Reactor) /\ Bind
      <4>1. ~Ensure
        BY <3>3 DEF Ensure, Bind
      <4> QED
        BY <3>3, <4>1, ForksIs
    <3> QED
      BY <2>2, <3>1, <3>2, <3>3, ForksIs
  <2>3. ASSUME NEW i \in Instances, StopStale(i) PROVE OthersStay(Reactor)
    BY <2>3, ReactorIs
  <2>4. CASE RecordNewSession \/ SetStopped \/ Interrupt
    BY <2>4, ReactorIs
  <2> QED
    BY <1>2, <2>1, <2>2, <2>3, <2>4 DEF ReactorStep
<1>3. ASSUME NEW c \in Callers, Call(c) \/ StartFails(c) PROVE OthersStay(c) /\ calls[c].pc # "idle"
  BY <1>3, CallIs DEF Call
<1>4. ASSUME NEW t \in Turns, Send(t) PROVE OthersStay(Fiber(t)) /\ calls[Fiber(t)].pc # "idle"
  BY <1>4, SendIs DEF Send
<1>5. CASE ReaperStep
  BY <1>5, ReaperIs, IdleIs DEF ReaperStep
<1>6. CASE Ingestion \/ Agent \/ IdleTime \/ UNCHANGED vars \/ \E i \in Instances : SessionExits(i)
  BY <1>6 DEF Ingestion, IngestRead, IngestWrite, Agent, TurnEnds, OwnTurn, IdleTime, vars, SessionExits
<1>7. CASE \E c \in Callers : Call(c) \/ StartFails(c)
  BY <1>3, <1>7
<1>8. CASE \E t \in Turns : Send(t)
  BY <1>4, <1>8
<1>9. CASE ReactorStep \/ Restart
  BY <1>2, <1>9
<1> QED
  BY <1>1, <1>5, <1>6, <1>7, <1>8, <1>9 DEF Next

LEMMA QueueStep ==
  ASSUME [Next]_vars
  PROVE  UNCHANGED queue \/ Take \/ (User /\ ~DeleteThread) \/ Restart
<1>1. CASE ReactorStep
  BY <1>1 DEF ReactorStep, Ensure, StopStale, RecordNewSession, Bind, SetStopped, Interrupt
<1>2. CASE User
  BY <1>2 DEF DeleteThread
<1>3. ASSUME NEW c \in Callers, Call(c) \/ StartFails(c) PROVE UNCHANGED queue
  BY <1>3 DEF Call, StartFails, StartBegins, StartEnds, RecordRecovered, Route, Recover, StopRoute, StopAdapter,
     StopRecord, Report
<1>4. ASSUME NEW t \in Turns, Send(t) PROVE UNCHANGED queue
  BY <1>4 DEF Send, SendBegins, Deliver, DeliveryFails, RecordTurn
<1>5. CASE \/ ReaperStep \/ Ingestion \/ Agent \/ IdleTime \/ UNCHANGED vars
           \/ \E i \in Instances : SessionExits(i)
  BY <1>5 DEF ReaperStep, Sweep, CheckTurn, Ingestion, IngestRead, IngestWrite, Agent, TurnEnds, OwnTurn,
     IdleTime, vars, SessionExits
<1> QED
  BY <1>1, <1>2, <1>3, <1>4, <1>5 DEF Next

\* What stays the same, and what is never taken back.
LEMMA FlagsStep ==
  ASSUME Typed, [Next]_vars
  PROVE  /\ patient' = patient /\ (alive' => alive) /\ (~crashed' => ~crashed) /\ (~clobbered' => ~clobbered)
         /\ (~switched' => ~switched)
         /\ switched' = switched \/ \E c \in Callers : StartEnds(c)
         /\ clobbered' = clobbered \/ IngestWrite
         /\ raced \subseteq raced'
<1>1. CASE User
  <2>1. UNCHANGED <<patient, crashed, clobbered, switched, raced>>
    BY <1>1 DEF User, RequestTurn, SetMode, RequestStop, RequestInterrupt, DeleteThread, Queued, client, observed
  <2>2. alive' = alive \/ ~alive'
    BY <1>1 DEF User, RequestTurn, SetMode, RequestStop, RequestInterrupt, DeleteThread, client
  <2> QED
    BY <2>1, <2>2
<1>2. CASE ReactorStep
  BY <1>2 DEF ReactorStep, Take, Ensure, StopStale, RecordNewSession, Bind, SetStopped, Interrupt, env, client,
     observed
<1>3. ASSUME NEW c \in Callers, Call(c) \/ StartFails(c)
      PROVE  /\ UNCHANGED <<client, crashed, clobbered, raced>>
             /\ switched' = switched \/ (StartEnds(c) /\ (~switched' => ~switched))
  BY <1>3 DEF Call, StartFails, StartBegins, StartEnds, RecordRecovered, Route, Recover, StopRoute, StopAdapter,
     StopRecord, Report, env, observed
<1>4. ASSUME NEW t \in Turns, Send(t)
      PROVE  UNCHANGED <<client, crashed, clobbered, switched>> /\ raced \subseteq raced'
  <2>1. Begin(t) => raced \subseteq raced'
    BY DEF Begin
  <2> QED
    BY <1>4, <2>1 DEF Send, SendBegins, Deliver, DeliveryFails, RecordTurn, env, observed
<1>5. CASE IngestWrite
  BY <1>5 DEF IngestWrite, client
<1>6. CASE \/ ReaperStep \/ IdleTime \/ UNCHANGED vars
           \/ (\E i \in Instances : SessionExits(i)) \/ \E i \in Instances : IngestRead(i)
  BY <1>6 DEF ReaperStep, Sweep, CheckTurn, IngestRead, IdleTime, vars, SessionExits, env, client, observed
<1>10. CASE Agent
  <2>1. ASSUME NEW i \in Instances, NEW s \in AtWork(i), TurnEnds(i, s) \/ OwnTurn(i, s)
        PROVE  UNCHANGED <<patient, alive, crashed, observed>>
    BY <2>1 DEF TurnEnds, OwnTurn, env, client, observed
  <2>2. UNCHANGED <<patient, alive, crashed, observed>>
    BY <1>10, <2>1 DEF Agent
  <2> QED
    BY <2>2 DEF observed
<1>7. CASE Restart
  BY <1>7 DEF Restart, client, observed
<1>8. CASE \E c \in Callers : Call(c) \/ StartFails(c)
  BY <1>3, <1>8 DEF client
<1>9. CASE \E t \in Turns : Send(t)
  BY <1>4, <1>9 DEF client
<1> QED
  BY <1>1, <1>2, <1>5, <1>6, <1>7, <1>8, <1>9, <1>10 DEF Next, Ingestion

\* Who writes the projected session, and who ingests.
LEMMA SessionStep ==
  ASSUME [Next]_vars
  PROVE  /\ \/ UNCHANGED session \/ Bind \/ SetStopped \/ IngestWrite
            \/ \E c \in Callers : Report(c)
         /\ \/ UNCHANGED ingest \/ IngestWrite \/ Restart
            \/ \E i \in Instances : IngestRead(i)
<1>1. CASE User
  BY <1>1 DEF User, RequestTurn, SetMode, RequestStop, RequestInterrupt, DeleteThread, Queued
<1>2. CASE ReactorStep
  BY <1>2 DEF ReactorStep, Take, Ensure, StopStale, RecordNewSession, Bind, SetStopped, Interrupt
<1>3. ASSUME NEW c \in Callers, Call(c) \/ StartFails(c) PROVE UNCHANGED ingest /\ (UNCHANGED session \/ Report(c))
  BY <1>3 DEF Call, StartFails, StartBegins, StartEnds, RecordRecovered, Route, Recover, StopRoute, StopAdapter,
     StopRecord, Report
<1>4. ASSUME NEW t \in Turns, Send(t) PROVE UNCHANGED <<session, ingest>>
  BY <1>4 DEF Send, SendBegins, Deliver, DeliveryFails, RecordTurn
<1>5. CASE \/ ReaperStep \/ Agent \/ IdleTime \/ UNCHANGED vars \/ Restart
           \/ (\E i \in Instances : SessionExits(i)) \/ \E i \in Instances : IngestRead(i)
  BY <1>5 DEF ReaperStep, Sweep, CheckTurn, IngestRead, Agent, TurnEnds, OwnTurn,
     IdleTime, vars, SessionExits, Restart
<1> QED
  BY <1>1, <1>2, <1>3, <1>4, <1>5 DEF Next, Ingestion

\* What a caller or the clock makes of the binding.
Rebound(i, m) == binding' # None /\ binding'.at = i /\ binding'.mode = m

LEMMA BindingStep ==
  ASSUME Typed, [Next]_vars
  PROVE  \/ UNCHANGED binding
         \/ RecordNewSession /\ Rebound(calls[Reactor].at, calls[Reactor].mode)
         \/ \E c \in Callers : /\ RecordRecovered(c) /\ binding # None
                               /\ Rebound(calls[c].at, calls[c].mode)
         \/ \E c \in Callers : /\ calls[c].pc \in {"recordTurn", "stopRecord"} /\ binding # None
                               /\ Rebound(calls[c].at, binding.mode)
         \/ (IdleTime \/ Restart) /\ binding # None /\ Rebound(binding.at, binding.mode)
<1>1. CASE User
  BY <1>1 DEF User, RequestTurn, SetMode, RequestStop, RequestInterrupt, DeleteThread, Queued
<1>a. ASSUME NEW c \in Callers
      PROVE  Bound(c) # None /\ Bound(c).at = calls[c].at /\ Bound(c).mode = calls[c].mode
  BY DEF Bound, None
<1>b. ASSUME NEW b \in BindingRow, NEW i \in Instances, NEW status \in {"running", "stopped"},
             NEW idle \in BOOLEAN
      PROVE  LET new == [b EXCEPT !.status = status, !.at = i, !.idle = idle] IN
               new # None /\ new.at = i /\ new.mode = b.mode
  <2> DEFINE new == [b EXCEPT !.status = status, !.at = i, !.idle = idle]
  <2>1. new \in BindingRow /\ new.at = i /\ new.mode = b.mode
    BY DEF BindingRow
  <2> HIDE DEF new
  <2>2. new # None
    BY <2>1, NothingIs
  <2> QED
    BY <2>1, <2>2 DEF new
<1>2. CASE ReactorStep
  <2>1. CASE RecordNewSession
    BY <2>1, <1>a, CallersAre DEF RecordNewSession, Rebound
  <2>2. CASE ~RecordNewSession
    BY <1>2, <2>2 DEF ReactorStep, Take, Ensure, StopStale, Bind, SetStopped, Interrupt
  <2> QED
    BY <2>1, <2>2
<1>3. ASSUME NEW c \in Callers, Call(c) \/ StartFails(c)
      PROVE  \/ UNCHANGED binding
             \/ RecordRecovered(c) /\ binding # None /\ Rebound(calls[c].at, calls[c].mode)
             \/ calls[c].pc = "stopRecord" /\ binding # None /\ Rebound(calls[c].at, binding.mode)
  <2>1. CASE RecordRecovered(c)
    <3>1. binding # None
      BY <2>1, WhoIsWhere DEF RecordRecovered, Fits, Starts, Recovering
    <3> QED
      BY <2>1, <3>1, <1>a DEF RecordRecovered, Rebound
  <2>2. CASE StopRecord(c)
    <3>1. calls[c].at \in Instances /\ binding # None /\ calls[c].pc = "stopRecord"
      BY <2>2, WhoIsWhere DEF StopRecord, Routed
    <3>2. binding \in BindingRow
      BY <3>1 DEF Typed, TypeOK
    <3>3. binding' = [binding EXCEPT !.status = "stopped", !.at = calls[c].at, !.idle = FALSE]
      BY <2>2 DEF StopRecord
    <3>4. binding' # None /\ binding'.at = calls[c].at /\ binding'.mode = binding.mode
      BY <3>1, <3>2, <3>3, <1>b
    <3> QED
      BY <3>1, <3>4 DEF Rebound
  <2>3. CASE ~RecordRecovered(c) /\ ~StopRecord(c)
    BY <1>3, <2>3 DEF Call, StartFails, StartBegins, StartEnds, Route, Recover, StopRoute, StopAdapter, Report
  <2> QED
    BY <2>1, <2>2, <2>3
<1>4. ASSUME NEW t \in Turns, Send(t)
      PROVE  \/ UNCHANGED binding
             \/ /\ calls[Fiber(t)].pc = "recordTurn" /\ binding # None
                /\ Rebound(calls[Fiber(t)].at, binding.mode)
  <2>1. CASE RecordTurn(t)
    <3>1. calls[Fiber(t)].at \in Instances /\ binding # None /\ calls[Fiber(t)].pc = "recordTurn"
      BY <2>1, WhoIsWhere, CallersAre DEF RecordTurn, Routed
    <3>2. binding \in BindingRow
      BY <3>1 DEF Typed, TypeOK
    <3> QED
      BY <2>1, <3>1, <3>2, <1>b DEF RecordTurn, Rebound
  <2>2. CASE SendBegins(t) \/ Deliver(t) \/ DeliveryFails(t)
    BY <2>2 DEF SendBegins, Deliver, DeliveryFails
  <2> QED
    BY <1>4, <2>1, <2>2 DEF Send
<1>5. CASE IdleTime \/ Restart
  <2>1. CASE UNCHANGED binding
    BY <2>1
  <2>2. CASE /\ binding # None
             /\ \/ binding' = [binding EXCEPT !.idle = TRUE]
                \/ binding' = [binding EXCEPT !.status = "stopped", !.idle = FALSE]
    <3>1. binding \in BindingRow
      BY <2>2 DEF Typed, TypeOK
    <3>2. binding' \in BindingRow /\ binding'.at = binding.at /\ binding'.mode = binding.mode
      BY <2>2, <3>1 DEF BindingRow
    <3>3. binding' # None
      BY <3>2, NothingIs
    <3> QED
      BY <1>5, <2>2, <3>2, <3>3 DEF Rebound
  <2> QED
    BY <1>5, <2>1, <2>2 DEF IdleTime, Restart
<1>6. CASE \/ ReaperStep \/ Ingestion \/ Agent \/ UNCHANGED vars
           \/ \E i \in Instances : SessionExits(i)
  BY <1>6 DEF ReaperStep, Sweep, CheckTurn, Ingestion, IngestRead, IngestWrite, Agent, TurnEnds, OwnTurn,
     vars, SessionExits
<1>7. CASE \E c \in Callers : Call(c) \/ StartFails(c)
  BY <1>3, <1>7
<1>8. CASE \E t \in Turns : Send(t)
  BY <1>4, <1>8, CallersAre
<1> QED
  BY <1>1, <1>2, <1>5, <1>6, <1>7, <1>8 DEF Next

\* What becomes of an instance: nothing, its session loses its turn or is gone, a session
\* is entered, a turn begins in it, a turn is started in none, an orphan goes on, an event
\* is taken.
Undisturbed(i) == live'[i] = live[i] /\ events'[i] = events[i] /\ orphans'[i] = orphans[i]
Ceases(i) ==
  /\ Live(i) /\ orphans'[i] = orphans[i] /\ live'[i].turn = NoTurn
  /\ \/ live'[i] = NoSession /\ events'[i] = events[i] \o (Completed(live[i].turn) \o Exited)
     \/ live'[i] = NoSession /\ events'[i] = events[i] \o Completed(live[i].turn)
     \/ /\ live'[i].mode = live[i].mode /\ live'[i] \in Sessions
        /\ events'[i] = events[i] \o Completed(live[i].turn)
EntersSession(c, i) ==
  /\ StartEnds(c) /\ calls[c].at = i /\ live'[i] = Session(calls[c].mode)
  /\ events'[i] = events[i] \o Started /\ orphans'[i] = AtWork(i)
Sent(t, i) == Send(t) /\ calls[Fiber(t)].pc = "sending" /\ calls[Fiber(t)].at = i
BeginsTurn(t, i) ==
  /\ \/ t \in Turns /\ Sent(t, i) /\ (live[i].turn # NoTurn => raced' # {})
     \/ t \in OwnTurns /\ live[i].turn = NoTurn
  /\ Live(i) /\ live'[i].turn = t /\ live'[i].mode = live[i].mode /\ live'[i] \in Sessions
  /\ events'[i] = events[i] \o Begun(t) /\ orphans'[i] = orphans[i]
LosesTurn(t, i) ==
  /\ Sent(t, i) /\ t \in raced' /\ live'[i] = live[i] /\ orphans'[i] = orphans[i]
  /\ events'[i] = events[i] \o Begun(t)
OrphanGoes(i) == orphans[i] # {} /\ live'[i] = live[i]
EventTaken(i) ==
  /\ IngestRead(i) /\ live'[i] = live[i] /\ orphans'[i] = orphans[i]
  /\ events[i] # <<>> /\ events'[i] = Tail(events[i])

LEMMA StopsAre ==
  ASSUME Typed, NEW i \in Instances, NEW j \in Instances, UNCHANGED orphans,
         \/ /\ live' = [live EXCEPT ![j] = NoSession]
            /\ \/ Live(j) /\ Reported(j, Completed(live[j].turn) \o Exited)
               \/ Reported(j, Completed(live[j].turn))
         \/ /\ \E r \in Sessions : /\ live' = [live EXCEPT ![j] = r]
                                 /\ r.turn = NoTurn /\ r.mode = live[j].mode
            /\ Live(j) /\ Reported(j, Completed(live[j].turn))
  PROVE  Undisturbed(i) \/ Ceases(i)
<1>1. TypeOK /\ live \in [Instances -> Sessions \cup {NoSession}] /\ events[j] \in Seq(RuntimeEvent)
  BY DEF Typed, TypeOK
<1>2. PICK t \in TurnIds : t = live[j].turn
  BY <1>1, LiveIs
<1>3. Completed(t) \in Seq(RuntimeEvent) /\ Exited \in Seq(RuntimeEvent)
      /\ Completed(t) \o Exited \in Seq(RuntimeEvent)
  BY NewsTyped
<1>4. \A k \in Instances : k # j => live'[k] = live[k] /\ events'[k] = events[k]
  BY <1>1, <1>2, <1>3, ReportedIs
<1>5. CASE i # j
  BY <1>4, <1>5 DEF Undisturbed
<1>6. CASE i = j /\ ~Live(j)
  <2>1. live[j] = NoSession /\ t = NoTurn
    BY <1>2, <1>6, <1>1, LiveIs DEF Live
  <2>2. Completed(t) = <<>> /\ events[j] \o <<>> = events[j]
    BY <1>1, <2>1 DEF Completed
  <2>3. live'[j] = live[j] /\ events'[j] = events[j]
    BY <1>1, <1>2, <1>3, <1>6, <2>1, <2>2, ReportedIs
  <2> QED
    BY <1>6, <2>3 DEF Undisturbed
<1>7. CASE i = j /\ Live(j)
  <2>1. CASE live' = [live EXCEPT ![j] = NoSession]
    <3>1. live'[j] = NoSession /\ live'[j].turn = NoTurn
      BY <1>1, <2>1, LiveIs
    <3>2. CASE Reported(j, Completed(live[j].turn))
      <4>1. events'[j] = events[j] \o Completed(t)
        BY <1>1, <1>2, <1>3, <3>2, ReportedIs
      <4> QED
        BY <1>2, <1>7, <3>1, <4>1 DEF Ceases
    <3>3. CASE Reported(j, Completed(live[j].turn) \o Exited)
      <4>1. events'[j] = events[j] \o (Completed(t) \o Exited)
        BY <1>1, <1>2, <1>3, <3>3, ReportedIs
      <4> QED
        BY <1>2, <1>7, <3>1, <4>1 DEF Ceases
    <3> QED
      BY <2>1, <3>2, <3>3
  <2>2. CASE /\ \E r \in Sessions : /\ live' = [live EXCEPT ![j] = r]
                                  /\ r.turn = NoTurn /\ r.mode = live[j].mode
             /\ Reported(j, Completed(live[j].turn))
    <3>3. live'[j].turn = NoTurn /\ live'[j].mode = live[j].mode /\ live'[j] \in Sessions
      BY <1>1, <2>2
    <3>4. events'[j] = events[j] \o Completed(t)
      BY <1>1, <1>2, <1>3, <2>2, ReportedIs
    <3> QED
      BY <1>2, <1>7, <3>3, <3>4 DEF Ceases
  <2> QED
    BY <2>1, <2>2
<1> QED
  BY <1>5, <1>6, <1>7

\* A session goes on with a turn, or with none.
LEMMA GoesOnIs ==
  ASSUME Typed, NEW j \in Instances, NEW s \in AtWork(j), NEW t \in TurnIds,
         Continues(j, s, [s EXCEPT !.turn = t]), NEW news \in Seq(RuntimeEvent), Reported(j, news),
         NEW i \in Instances
  PROVE  \/ Undisturbed(i)
         \/ OrphanGoes(i)
         \/ /\ i = j /\ s = live[i] /\ Live(i) /\ orphans'[i] = orphans[i]
            /\ live'[i] \in Sessions /\ live'[i].turn = t /\ live'[i].mode = live[i].mode
            /\ events'[i] = events[i] \o news
<1> DEFINE r == [s EXCEPT !.turn = t]
<1>1. TypeOK /\ s \in Sessions
  BY LiveIs DEF Typed
<1>2. r \in Sessions /\ r.turn = t /\ r.mode = s.mode
  BY <1>1 DEF Sessions
<1> HIDE DEF r
<1>3. /\ \A k \in Instances : k # j => live'[k] = live[k] /\ orphans'[k] = orphans[k]
      /\ \/ s = live[j] /\ live'[j] = r /\ UNCHANGED orphans
         \/ s \in orphans[j] /\ UNCHANGED live
  BY <1>1, <1>2, ContinuesIs DEF r
<1>4. events'[j] = events[j] \o news /\ \A k \in Instances : k # j => events'[k] = events[k]
  BY <1>1, ReportedIs
<1>5. s # NoSession
  BY <1>1, NothingIs
<1> QED
  BY <1>2, <1>3, <1>4, <1>5 DEF Undisturbed, OrphanGoes, Live

\* The agent ends a turn, or begins one of its own.
LEMMA AgentActs ==
  ASSUME Typed, NEW j \in Instances, NEW s \in AtWork(j), TurnEnds(j, s) \/ OwnTurn(j, s),
         NEW i \in Instances
  PROVE  Undisturbed(i) \/ Ceases(i) \/ OrphanGoes(i) \/ \E t \in OwnTurns : BeginsTurn(t, i)
<1>a. TypeOK /\ s.turn \in TurnIds /\ NoTurn \in TurnIds
  BY AgentIs DEF Typed
<1>1. CASE TurnEnds(j, s)
  <2>1. PICK news \in Seq(RuntimeEvent) : news = Completed(s.turn)
    BY <1>a, NewsTyped
  <2>2. Continues(j, s, [s EXCEPT !.turn = NoTurn]) /\ Reported(j, news)
    BY <1>1, <2>1 DEF TurnEnds
  <2>3. \/ Undisturbed(i) \/ OrphanGoes(i)
        \/ /\ i = j /\ s = live[i] /\ Live(i) /\ orphans'[i] = orphans[i]
           /\ live'[i] \in Sessions /\ live'[i].turn = NoTurn /\ live'[i].mode = live[i].mode
           /\ events'[i] = events[i] \o news
    BY <1>a, <2>2, GoesOnIs
  <2> QED
    BY <2>1, <2>3 DEF Ceases
<1>2. CASE OwnTurn(j, s)
  <2>1. PICK t \in OwnTurns : t = MaxTurns + own'
    BY <1>a, <1>2, AgentIs
  <2>2. PICK news \in Seq(RuntimeEvent) : news = Begun(t)
    BY NewsTyped DEF AllTurns
  <2>3. Continues(j, s, [s EXCEPT !.turn = t]) /\ Reported(j, news) /\ s.turn = NoTurn
    BY <1>2, <2>1, <2>2 DEF OwnTurn
  <2>4. t \in TurnIds
    BY DEF TurnIds, AllTurns
  <2>5. \/ Undisturbed(i) \/ OrphanGoes(i)
        \/ /\ i = j /\ s = live[i] /\ Live(i) /\ orphans'[i] = orphans[i]
           /\ live'[i] \in Sessions /\ live'[i].turn = t /\ live'[i].mode = live[i].mode
           /\ events'[i] = events[i] \o news
    BY <2>3, <2>4, GoesOnIs
  <2> QED
    BY <2>1, <2>2, <2>3, <2>5 DEF BeginsTurn
<1> QED
  BY <1>1, <1>2

LEMMA BeginIs ==
  ASSUME Typed, NEW t \in Turns, Send(t), Begin(t), calls[Fiber(t)].pc = "sending", NEW i \in Instances
  PROVE  Undisturbed(i) \/ OrphanGoes(i) \/ BeginsTurn(t, i) \/ LosesTurn(t, i)
<1>1. PICK j \in Instances : j = calls[Fiber(t)].at
  BY WhoIsWhere, CallersAre DEF Routed
<1>2. TypeOK /\ t \in AllTurns /\ t \in TurnIds
  BY NothingIs DEF Typed, TurnIds
<1>3. PICK news \in Seq(RuntimeEvent) : news = Begun(t)
  BY <1>2, NewsTyped
<1>4. Reported(j, news) /\ Sent(t, j)
  BY <1>1, <1>3 DEF Begin, Sent
<1>5. ASSUME NEW s \in AtWork(j), Continues(j, s, [s EXCEPT !.turn = t]),
             raced' = raced \cup ({s.turn} \ {NoTurn})
      PROVE  Undisturbed(i) \/ OrphanGoes(i) \/ BeginsTurn(t, i)
  <2>1. \/ Undisturbed(i) \/ OrphanGoes(i)
        \/ /\ i = j /\ s = live[i] /\ Live(i) /\ orphans'[i] = orphans[i]
           /\ live'[i] \in Sessions /\ live'[i].turn = t /\ live'[i].mode = live[i].mode
           /\ events'[i] = events[i] \o news
    BY <1>2, <1>4, <1>5, GoesOnIs
  <2>2. s.turn # NoTurn => raced' # {}
    BY <1>5
  <2> QED
    BY <1>3, <1>4, <2>1, <2>2 DEF BeginsTurn
<1>6. CASE raced' = raced \cup {t} /\ UNCHANGED <<live, orphans>>
  <2>1. events'[j] = events[j] \o news /\ \A k \in Instances : k # j => events'[k] = events[k]
    BY <1>2, <1>4, ReportedIs
  <2> QED
    BY <1>3, <1>4, <1>6, <2>1 DEF Undisturbed, LosesTurn
<1> QED
  BY <1>1, <1>5, <1>6 DEF Begin

LEMMA InstanceStep ==
  ASSUME Typed, [Next]_vars, NEW i \in Instances
  PROVE  \/ Undisturbed(i) \/ Ceases(i)
         \/ \E c \in Callers : EntersSession(c, i)
         \/ \E t \in AllTurns : BeginsTurn(t, i)
         \/ \E t \in Turns : LosesTurn(t, i)
         \/ OrphanGoes(i) \/ EventTaken(i) \/ Restart
<1>1. CASE User
  BY <1>1 DEF User, RequestTurn, SetMode, RequestStop, RequestInterrupt, DeleteThread, Queued, Undisturbed
<1>2. CASE ReactorStep
  <2>1. ASSUME NEW j \in Instances, StopStale(j) PROVE Undisturbed(i) \/ Ceases(i)
    <3>1. UNCHANGED orphans
      BY <2>1 DEF StopStale
    <3>2. CASE Live(j)
      BY <2>1, <3>1, <3>2, StopsAre DEF StopStale
    <3>3. CASE ~Live(j)
      BY <2>1, <3>3 DEF StopStale, Undisturbed
    <3> QED
      BY <3>2, <3>3
  <2>2. CASE Interrupt
    <3>1. PICK j \in Instances : j = calls[Reactor].at
      BY <2>2, WhoIsWhere, CallersAre DEF Interrupt, Routed
    <3>2. /\ UNCHANGED orphans /\ Reported(j, Completed(live[j].turn))
          /\ live' = IF Live(j) THEN [live EXCEPT ![j].turn = NoTurn] ELSE live
      BY <2>2, <3>1 DEF Interrupt
    <3>3. CASE Live(j)
      <4>1. live[j] \in Sessions /\ live' = [live EXCEPT ![j] = [live[j] EXCEPT !.turn = NoTurn]]
        BY <3>2, <3>3, LiveIs DEF Typed
      <4>2. [live[j] EXCEPT !.turn = NoTurn] \in Sessions /\ [live[j] EXCEPT !.turn = NoTurn].turn = NoTurn
            /\ [live[j] EXCEPT !.turn = NoTurn].mode = live[j].mode
        BY <4>1 DEF Sessions, TurnIds
      <4> QED
        BY <3>2, <3>3, <4>1, <4>2, StopsAre
    <3>4. CASE ~Live(j)
      <4>1. live' = [live EXCEPT ![j] = NoSession]
        BY <3>2, <3>4 DEF Live, Typed, TypeOK
      <4> QED
        BY <3>2, <4>1, StopsAre
    <3> QED
      BY <3>3, <3>4
  <2>3. CASE Take \/ Ensure \/ RecordNewSession \/ Bind \/ SetStopped
    BY <2>3 DEF Take, Ensure, RecordNewSession, Bind, SetStopped, Undisturbed
  <2> QED
    BY <1>2, <2>1, <2>2, <2>3 DEF ReactorStep
<1>3. ASSUME NEW c \in Callers, Call(c) \/ StartFails(c)
      PROVE  Undisturbed(i) \/ Ceases(i) \/ EntersSession(c, i)
  <2>1. CASE StartBegins(c)
    <3>1. PICK j \in Instances : j = calls[c].at
      BY <2>1, WhoIsWhere DEF StartBegins, Starts
    <3>2. UNCHANGED orphans /\ Reported(j, Completed(live[j].turn)) /\ live' = [live EXCEPT ![j] = NoSession]
      BY <2>1, <3>1 DEF StartBegins
    <3> QED
      BY <3>2, StopsAre
  <2>2. CASE StartEnds(c)
    <3>1. PICK j \in Instances : j = calls[c].at
      BY <2>2, WhoIsWhere DEF StartEnds, Starts
    <3>2. /\ Reported(j, Started) /\ live' = [live EXCEPT ![j] = Session(calls[c].mode)]
          /\ orphans' = [orphans EXCEPT ![j] = AtWork(j)]
      BY <2>2, <3>1 DEF StartEnds
    <3>3. events'[j] = events[j] \o Started /\ \A k \in Instances : k # j => events'[k] = events[k]
      BY <3>2, NewsTyped, ReportedIs DEF Typed
    <3>4. live'[j] = Session(calls[c].mode) /\ orphans'[j] = AtWork(j)
          /\ \A k \in Instances : k # j => live'[k] = live[k] /\ orphans'[k] = orphans[k]
      BY <3>2 DEF Typed, TypeOK
    <3> QED
      BY <2>2, <3>1, <3>3, <3>4 DEF Undisturbed, EntersSession
  <2>3. CASE StopAdapter(c)
    <3>1. PICK j \in Instances : j = calls[c].at
      BY <2>3, WhoIsWhere DEF StopAdapter, Routed
    <3>2. UNCHANGED orphans
      BY <2>3 DEF StopAdapter
    <3>3. CASE Live(j)
      BY <2>3, <3>1, <3>2, <3>3, StopsAre DEF StopAdapter
    <3>4. CASE ~Live(j)
      BY <2>3, <3>1, <3>2, <3>4 DEF StopAdapter, Undisturbed
    <3> QED
      BY <3>3, <3>4
  <2>4. CASE StartFails(c) \/ RecordRecovered(c) \/ Route(c) \/ Recover(c) \/ StopRoute(c) \/ StopRecord(c) \/ Report(c)
    BY <2>4 DEF StartFails, RecordRecovered, Route, Recover, StopRoute, StopRecord, Report, Undisturbed
  <2> QED
    BY <1>3, <2>1, <2>2, <2>3, <2>4 DEF Call
<1>4. ASSUME NEW t \in Turns, Send(t)
      PROVE  Undisturbed(i) \/ Ceases(i) \/ OrphanGoes(i) \/ BeginsTurn(t, i) \/ LosesTurn(t, i)
  <2>1. CASE SendBegins(t)
    <3>1. PICK j \in Instances : j = calls[Fiber(t)].at
      BY <2>1, SendBeginsIs
    <3>2. UNCHANGED orphans /\ Reported(j, Completed(live[j].turn))
      BY <2>1, <3>1 DEF SendBegins
    <3>3. /\ live' = [live EXCEPT ![j] = Held(j, t)] /\ Held(j, t) \in Sessions /\ Live(j)
          /\ Held(j, t).turn = NoTurn /\ Held(j, t).mode = live[j].mode
      BY <2>1, <3>1, SendBeginsIs
    <3> QED
      BY <3>2, <3>3, StopsAre
  <2>2. CASE Begin(t) /\ calls[Fiber(t)].pc = "sending"
    BY <1>4, <2>2, BeginIs
  <2>3. CASE UNCHANGED <<live, orphans, events>>
    BY <2>3 DEF Undisturbed
  <2> QED
    BY <1>4, <2>1, <2>2, <2>3 DEF Send, Deliver, DeliveryFails, RecordTurn
<1>7. ASSUME NEW j \in Instances, SessionExits(j) PROVE Undisturbed(i) \/ Ceases(i)
  <2>1. /\ UNCHANGED orphans /\ Reported(j, Completed(live[j].turn) \o Exited) /\ Live(j)
        /\ live' = [live EXCEPT ![j] = NoSession]
    BY <1>7 DEF SessionExits
  <2> QED
    BY <2>1, StopsAre
<1>8. ASSUME NEW j \in Instances, IngestRead(j) PROVE Undisturbed(i) \/ EventTaken(i)
  <2>1. UNCHANGED <<live, orphans>>
    BY <1>8 DEF IngestRead
  <2> QED
    BY <1>8, <2>1, IngestReadIs DEF Undisturbed, EventTaken
<1>9. CASE ReaperStep \/ IngestWrite \/ IdleTime \/ UNCHANGED vars
  BY <1>9 DEF ReaperStep, Sweep, CheckTurn, IngestWrite, IdleTime, vars, Undisturbed
<1>10. CASE \E c \in Callers : Call(c) \/ StartFails(c)
  BY <1>3, <1>10
<1>11. CASE \E t \in Turns : Send(t)
  BY <1>4, <1>11, NothingIs
<1>12. CASE Agent
  BY <1>12, AgentActs DEF Agent, AllTurns
<1>13. CASE Ingestion
  BY <1>8, <1>9, <1>13 DEF Ingestion
<1> QED
  BY <1>1, <1>2, <1>7, <1>9, <1>10, <1>11, <1>12, <1>13 DEF Next

-----------------------------------------------------------------------------
(* When the user waits, one thing is done at a time.                       *)

Busy(c) == calls[c].pc # "idle"

OneAtATime ==
  patient =>
    /\ Len(queue) <= 1
    /\ \A c \in Workers : Busy(c) => /\ queue = <<>>
                                     /\ \A d \in Workers : Busy(d) => c = d

\* A session is entered where none is left, so that none becomes an orphan.
Replaced ==
  patient => /\ \A c \in Callers : calls[c].pc = "spawn" => ~Live(calls[c].at)
             /\ \A i \in Instances : orphans[i] = {}

Serial == OneAtATime /\ Replaced

LEMMA WorkersAre ==
  /\ Reactor \in Workers /\ \A t \in Turns : Fiber(t) \in Workers
  /\ \A c \in Workers : c \in Callers /\ (c = Reactor \/ \E t \in Turns : c = Fiber(t))
  BY CallersAre DEF Workers

\* One caller goes on or is done.
LEMMA OneMoves ==
  ASSUME Typed, OneAtATime, UNCHANGED <<patient, queue>>, NEW c \in Callers, OthersStay(c),
         c \in Workers => Busy(c)
  PROVE  OneAtATime'
<1>1. \A d \in Workers : Busy(d)' => Busy(d)
  BY DEF Workers, OthersStay, Busy
<1> QED
  BY <1>1 DEF OneAtATime

LEMMA OneStep ==
  ASSUME Typed, OneAtATime, [Next]_vars
  PROVE  OneAtATime'
<1>0. patient' = patient
  BY FlagsStep
<1>1. CASE Take
  <2>1. queue \in Seq(Request) /\ queue # <<>> /\ queue' = Tail(queue) /\ OthersStay(Reactor)
    BY <1>1, TakeIs DEF OthersStay, Typed, TypeOK
  <2>2. ASSUME patient PROVE queue' = <<>> /\ \A c \in Workers : ~Busy(c)
    BY <2>1, <2>2 DEF OneAtATime
  <2> QED
    BY <1>0, <2>1, <2>2, WorkersAre DEF OneAtATime, OthersStay, Busy
<1>2. CASE User /\ ~DeleteThread
  <2>1. UNCHANGED calls /\ (patient => Handled) /\ \E e \in Request : queue' = Append(queue, e)
    BY <1>2, RequestsAreTyped
       DEF User, RequestTurn, SetMode, RequestStop, RequestInterrupt, MayAsk, Command, Queued
  <2>2. ASSUME patient PROVE Len(queue') <= 1 /\ \A c \in Workers : ~Busy(c)
    BY <2>1, <2>2, WorkersAre, IdleIs DEF Handled, Busy
  <2> QED
    BY <1>0, <2>1, <2>2 DEF OneAtATime, Busy
<1>3. CASE Restart
  <2>1. queue' = <<>> /\ \A c \in Workers : ~Busy(c)'
    BY <1>3, WorkersAre, IdleIs DEF Restart, Busy
  <2> QED
    BY <2>1 DEF OneAtATime
<1>4. CASE UNCHANGED queue
  <2>1. CASE UNCHANGED calls
    BY <1>0, <1>4, <2>1 DEF OneAtATime, Busy
  <2>2. ASSUME NEW t \in Turns, Forks(t) PROVE OneAtATime'
    <3>1. \A c \in Workers : Busy(c)' => c = Fiber(t) \/ (Busy(c) /\ c # Reactor)
      BY <2>2, WorkersAre, CallersAre, IdleIs DEF Forks, Busy
    <3>2. Busy(Reactor)
      BY <2>2 DEF Forks, Busy
    <3>3. ASSUME patient PROVE \A c \in Workers : Busy(c)' => c = Fiber(t)
      BY <3>1, <3>2, <3>3, WorkersAre DEF OneAtATime
    <3> QED
      BY <1>0, <1>4, <3>2, <3>3, WorkersAre DEF OneAtATime
  <2>3. CASE Ensure \/ Bind \/ (\E i \in Instances : StopStale(i)) \/ RecordNewSession \/ SetStopped \/ Interrupt
    <3>1. Busy(Reactor) /\ (OthersStay(Reactor) \/ \E t \in Turns : Forks(t))
      BY <2>3, ForksIs, ReactorIs DEF Busy
    <3> QED
      BY <1>0, <1>4, <2>2, <3>1, OneMoves, CallersAre
  <2>4. CASE \E c \in Callers : OthersStay(c) /\ calls[c].pc # "idle"
    BY <1>0, <1>4, <2>4, OneMoves DEF Busy
  <2>5. CASE OthersStay(Deletion) \/ OthersStay(Reaper)
    BY <1>0, <1>4, <2>5, OneMoves, CallersAre DEF Workers
  <2> QED
    BY <1>1, <1>3, <2>1, <2>2, <2>3, <2>4, <2>5, CallerStep, CallersAre
<1> QED
  BY <1>1, <1>2, <1>3, <1>4, QueueStep

\* Where a caller comes to, and by which step.  The others are at rest, or about to begin.
LEMMA Arrives ==
  ASSUME Typed, [Next]_vars, NEW c \in Callers
  PROVE  \/ UNCHANGED <<calls[c]>>
         \/ c = Reactor /\ Take
         \/ calls'[c].pc \in {"idle", "report", "check", "route"}
         \/ c # Reactor /\ calls'[c].pc = "stopRoute"
         \/ c = Reactor /\ Ensure /\ MovedTo(c, "start", Wanted(calls[c].event)) /\ calls'[c].mode = mode
         \/ c = Reactor /\ RecordNewSession
         \/ c = Reactor /\ \E i \in Instances : StopStale(i)
         \/ StartBegins(c) \/ StartEnds(c) \/ RecordRecovered(c) \/ Route(c) \/ Recover(c)
         \/ StopRoute(c) \/ StopAdapter(c) \/ StopRecord(c)
         \/ \E t \in Turns : c = Fiber(t) /\ (SendBegins(t) \/ Deliver(t))
<1>1. ASSUME NEW d \in Callers, OthersStay(d), d # c PROVE UNCHANGED <<calls[c]>>
  BY <1>1 DEF OthersStay
<1>2. CASE c # Reactor /\ OthersStay(Reactor)
  BY <1>1, <1>2, CallersAre
<1>3. CASE c = Reactor /\ Ensure
  BY <1>3, ForksIs
<1>4. CASE c = Reactor /\ Bind
  BY <1>4, ForksIs DEF Ensure, Bind
<1>5. CASE c = Reactor /\ (SetStopped \/ Interrupt)
  BY <1>5, ReactorIs, IdleIs
<1>6. CASE \E t \in Turns : Forks(t)
  BY <1>6, CallersAre, IdleIs DEF Forks
<1>7. ASSUME NEW d \in Callers, (Call(d) \/ StartFails(d)) /\ OthersStay(d)
      PROVE  \/ d # c
             \/ StartBegins(c) \/ StartEnds(c) \/ RecordRecovered(c) \/ Route(c) \/ Recover(c)
             \/ StopRoute(c) \/ StopAdapter(c) \/ StopRecord(c)
             \/ calls'[c].pc \in {"idle", "report", "check", "route"}
  BY <1>7, CallIs, IdleIs DEF Call, Failed
<1>8. ASSUME NEW t \in Turns, Send(t) /\ OthersStay(Fiber(t))
      PROVE  \/ c # Fiber(t)
             \/ SendBegins(t) \/ Deliver(t) \/ calls'[c].pc \in {"idle", "report", "check", "route"}
  <2>1. TurnOf(Fiber(t)) # NoTurn /\ Fiber(t) \in Callers
    BY TurnOfIs, NothingIs, CallersAre
  <2>2. DeliveryFails(t) => calls'[Fiber(t)].pc = "report"
    BY <2>1, Fails DEF DeliveryFails, Failed
  <2> QED
    BY <1>8, <2>2, SendIs, IdleIs DEF Send
<1>9. CASE DeleteThread /\ c = Deletion
  <2>1. Goto(Deletion, "stopRoute") /\ "stopRoute" \in Places
    BY <1>9 DEF DeleteThread, Goto, Places, StopPlaces
  <2> QED
    BY <1>9, <2>1, CallersAre, GoesTo DEF Moved
<1>10. CASE ReaperStep /\ calls'[Reaper].pc \in {"idle", "check", "stopRoute"} /\ c = Reaper
  BY <1>10, CallersAre
<1>11. CASE Restart
  BY <1>11, IdleIs DEF Restart
<1> QED
  BY <1>1, <1>2, <1>3, <1>4, <1>5, <1>6, <1>7, <1>8, <1>9, <1>10, <1>11, CallerStep, CallersAre

LEMMA ReplacedStep ==
  ASSUME Typed, Serial, [Next]_vars
  PROVE  Replaced'
<1>0. patient' = patient
  BY FlagsStep
<1> SUFFICES ASSUME patient
             PROVE  /\ \A c \in Callers : calls'[c].pc = "spawn" => ~Live(calls[c].at)'
                    /\ \A i \in Instances : orphans'[i] = {}
  BY <1>0 DEF Replaced, Live
<1>1. ASSUME NEW i \in Instances PROVE orphans'[i] = {}
  <2>1. orphans[i] = {}
    BY DEF Serial, Replaced
  <2>2. ASSUME NEW c \in Callers, EntersSession(c, i) PROVE orphans'[i] = {}
    <3>1. ~Live(i) /\ live[i] = NoSession
      BY <2>2 DEF EntersSession, StartEnds, Serial, Replaced, Live
    <3> QED
      BY <2>1, <2>2, <3>1 DEF EntersSession, AtWork
  <2>3. CASE Restart
    BY <2>3 DEF Restart
  <2>4. CASE OrphanGoes(i)
    BY <2>1, <2>4 DEF OrphanGoes
  <2> QED
    BY <2>1, <2>2, <2>3, <2>4, InstanceStep DEF Undisturbed, Ceases, BeginsTurn, LosesTurn, EventTaken
<1>2. ASSUME NEW c \in Callers, calls'[c].pc = "spawn" PROVE ~Live(calls[c].at)'
  <2>1. CASE StartBegins(c)
    <3>1. PICK i \in Instances : i = calls[c].at
      BY <2>1, WhoIsWhere DEF StartBegins, Starts
    <3>2. live'[i] = NoSession /\ calls'[c].at = i
      BY <2>1, <3>1, CallIs DEF StartBegins, Typed, TypeOK, Moved
    <3> QED
      BY <3>2 DEF Live
  <2>2. CASE UNCHANGED <<calls[c]>>
    <3>1. PICK i \in Instances : i = calls[c].at
      BY <1>2, <2>2, WhoIsWhere DEF Starts
    <3>2. live[i] = NoSession /\ calls'[c].at = i /\ calls[c].pc = "spawn"
      BY <1>2, <2>2, <3>1 DEF Serial, Replaced, Live
    <3>3. ASSUME NEW d \in Callers, EntersSession(d, i) PROVE FALSE
      <4>1. calls[d].pc = "spawn" /\ calls'[d].pc = "record"
        BY <3>3, CallIs DEF EntersSession, Moved
      <4>2. d \in Workers /\ c \in Workers /\ Busy(d) /\ Busy(c)
        BY <3>2, <4>1, WhoIsWhere DEF Workers, Busy
      <4>3. c = d
        BY <4>2 DEF Serial, OneAtATime
      <4> QED
        BY <1>2, <4>1, <4>3
    <3>4. CASE Restart
      BY <3>2, <3>4 DEF Restart, Live
    <3>5. live'[i] = NoSession
      BY <3>2, <3>3, <3>4, InstanceStep DEF Undisturbed, Ceases, BeginsTurn, LosesTurn, OrphanGoes,
         EventTaken, Live, Restart
    <3> QED
      BY <3>2, <3>5 DEF Live
  <2>3. UNCHANGED <<calls[c]>> \/ StartBegins(c)
    <3>1. CASE c = Reactor /\ Take
      BY <1>2, <3>1, TakeIs DEF FirstStep, Take, Typed, TypeOK, Request
    <3> QED
      BY <1>2, <3>1, Arrives, CallIs, ReactorIs, SendIs, IdleIs DEF Moved, MovedTo, Failed
  <2> QED
    BY <2>1, <2>2, <2>3
<1> QED
  BY <1>1, <1>2

LEMMA SerialInit == Init => Serial
  BY WorkersAre, IdleIs DEF Init, Serial, OneAtATime, Replaced, Busy

\* When the user waits for the server, reactor and forked fibers work one at a time, and
\* no session is entered over another (the worker of ProviderCommandReactor.ts and its
\* forks, startSession in ClaudeAdapter.ts).
THEOREM SpecSerial == Spec => []Serial
<1>1. Typed /\ Serial /\ [Next]_vars => Serial'
  BY OneStep, ReplacedStep DEF Serial
<1> QED
  BY <1>1, SerialInit, SpecTyped, PTL DEF Spec

-----------------------------------------------------------------------------
(* The thread's sessions are at one instance as long as it has not switched.*)

Quiet(i) == ~Live(i) /\ orphans[i] = {} /\ events[i] = <<>>

\* The instance of the binding or, before there is one, of the session that the reactor
\* has just started.
HomeBound == binding # None => \A i \in Instances \ {binding.at} : Quiet(i)
HomeNew ==
  binding = None => \A i \in Instances :
    Quiet(i) \/ (calls[Reactor].pc = "record" /\ calls[Reactor].at = i)

\* Whoever acts on a binding holds the instance that it names.
HomePlaces == {"recover", "deliver", "sending", "recordTurn", "stop", "stopRecord", "record", "bind"}
HomeHeld == binding # None => \A c \in Callers : calls[c].pc \in HomePlaces => calls[c].at = binding.at

AtHome == ~switched => HomeBound /\ HomeNew /\ HomeHeld

LEMMA QuietStays ==
  ASSUME Typed, [Next]_vars, NEW i \in Instances, Quiet(i), ~\E c \in Callers : EntersSession(c, i),
         ~\E t \in Turns : Sent(t, i)
  PROVE  Quiet(i)'
<1>1. CASE Restart
  BY <1>1 DEF Restart, Quiet, Live
<1> QED
  BY <1>1, InstanceStep DEF Quiet, Live, Undisturbed, Ceases, BeginsTurn, LosesTurn, OrphanGoes, EventTaken

\* Only one instance has a session or anything to report.
LEMMA OneHome ==
  ASSUME AtHome, ~switched, NEW i \in Instances, ~Quiet(i), NEW j \in Instances, j # i
  PROVE  Quiet(j)
  BY DEF AtHome, HomeBound, HomeNew

\* A session that is entered is at home.
LEMMA EntersAtHome ==
  ASSUME Typed, AtHome, ~switched', NEW c \in Callers, NEW i \in Instances, EntersSession(c, i)
  PROVE  /\ ~switched /\ (binding # None => binding.at = i)
         /\ binding = None => /\ c = Reactor /\ ~Recovering(c)
         /\ UNCHANGED binding /\ calls'[c].pc = "record" /\ calls'[c].at = i
<1>1. ~switched /\ (binding # None => binding.at = i) /\ UNCHANGED binding
  BY DEF EntersSession, StartEnds, Typed, TypeOK
<1>2. calls[c].pc = "spawn" /\ Moved(c, "record") /\ calls[c].at = i
  BY CallIs DEF EntersSession
<1>3. binding = None => c = Reactor /\ ~Recovering(c)
  BY <1>2, WhoIsWhere DEF Fits, Starts, Recovering
<1> QED
  BY <1>1, <1>2, <1>3 DEF Moved

LEMMA HomeStep ==
  ASSUME Typed, AtHome, [Next]_vars
  PROVE  AtHome'
<1> SUFFICES ASSUME ~switched' PROVE HomeBound' /\ HomeNew' /\ HomeHeld'
  BY DEF AtHome
<1>0. ~switched /\ HomeBound /\ HomeNew /\ HomeHeld
  BY FlagsStep DEF AtHome
<1>t. Typed'
  BY TypedStep
\* Where the binding was, it stays.
<1>1. ASSUME binding # None PROVE binding' # None /\ binding'.at = binding.at
  <2>1. ASSUME NEW c \in Callers, RecordRecovered(c) \/ calls[c].pc \in {"recordTurn", "stopRecord"}
        PROVE  calls[c].at = binding.at
    BY <1>0, <1>1, <2>1, CallIs DEF HomeHeld, HomePlaces
  <2>2. RecordNewSession => calls[Reactor].at = binding.at
    BY <1>0, <1>1, CallersAre DEF HomeHeld, HomePlaces, RecordNewSession
  <2> QED
    BY <1>1, <2>1, <2>2, BindingStep DEF Rebound
<1>2. ASSUME binding = None, binding' # None
      PROVE  RecordNewSession /\ binding'.at = calls[Reactor].at /\ calls[Reactor].pc = "record"
  BY <1>2, BindingStep DEF Rebound, RecordNewSession
<1>s. ASSUME NEW t \in Turns, NEW i \in Instances, Sent(t, i)
      PROVE  binding # None /\ i = binding.at
  <2>1. calls[Fiber(t)].pc = "sending" /\ calls[Fiber(t)].at = i /\ Fiber(t) \in Callers
    BY <1>s, CallersAre DEF Sent
  <2>2. binding # None
    BY <2>1, WhoIsWhere DEF Routed
  <2> QED
    BY <1>0, <2>1, <2>2 DEF HomeHeld, HomePlaces
<1>3. HomeBound'
  <2> SUFFICES ASSUME binding' # None, NEW i \in Instances, i # binding'.at PROVE Quiet(i)'
    BY DEF HomeBound, Quiet, Live
  <2>1. Quiet(i)
    BY <1>0, <1>1, <1>2 DEF HomeBound, HomeNew
  <2>2. ~\E c \in Callers : EntersSession(c, i)
    BY <1>1, <1>2, EntersAtHome
  <2>3. ~\E t \in Turns : Sent(t, i)
    BY <1>1, <1>s
  <2> QED
    BY <2>1, <2>2, <2>3, QuietStays
<1>4. HomeNew'
  <2> SUFFICES ASSUME binding' = None, NEW i \in Instances, ~Quiet(i)'
               PROVE  calls'[Reactor].pc = "record" /\ calls'[Reactor].at = i
    BY DEF HomeNew, Quiet, Live
  <2>1. binding = None
    BY <1>1
  <2>2. CASE \E c \in Callers : EntersSession(c, i)
    BY <2>1, <2>2, EntersAtHome
  <2>3. CASE ~\E c \in Callers : EntersSession(c, i)
    <3>1. calls[Reactor].pc = "record" /\ calls[Reactor].at = i
      BY <1>0, <1>s, <2>1, <2>3, QuietStays DEF HomeNew
    <3>2. CASE Restart
      BY <3>2 DEF Restart, Quiet, Live
    <3>3. calls[Reactor].event.type \in {"turn", "mode"} /\ ~Recovering(Reactor)
      BY <2>1, <3>1, WhoIsWhere, CallersAre DEF Fits, Starts, Recovering
    <3>4. (calls'[Reactor].pc = "record" /\ calls'[Reactor].at = i) \/ Restart
      <4>1. \A j \in Instances : StopStale(j) => calls'[Reactor].pc = "record" /\ calls'[Reactor].at = i
        BY <3>1, ReactorIs DEF Moved
      <4>2. ~RecordNewSession
        <5>1. ASSUME RecordNewSession PROVE FALSE
          BY <5>1, <2>1, BindingStep, CallersAre DEF RecordNewSession, Bound, None
        <5> QED
          BY <5>1
      <4>3. ~RecordRecovered(Reactor)
        BY <3>3, CallIs, CallersAre
      <4>4. /\ ~Take /\ ~Ensure /\ ~Bind /\ ~SetStopped /\ ~Interrupt /\ ~\E t \in Turns : Forks(t)
        BY <3>1, IdleIs DEF Take, Ensure, Bind, SetStopped, Interrupt, Forks
      <4>5. ASSUME NEW c \in Callers, Call(c) \/ StartFails(c), OthersStay(c) PROVE UNCHANGED <<calls[Reactor]>>
        <5>1. CASE c # Reactor
          BY <4>5, <5>1, CallersAre DEF OthersStay
        <5>2. CASE c = Reactor
          BY <4>3, <4>5, <5>2, <3>1, CallIs DEF Call
        <5> QED
          BY <5>1, <5>2
      <4>6. ASSUME OthersStay(Deletion) \/ OthersStay(Reaper) \/ \E t \in Turns : OthersStay(Fiber(t))
            PROVE  UNCHANGED <<calls[Reactor]>>
        BY <4>6, CallersAre DEF OthersStay
      <4> QED
        BY <3>1, <4>1, <4>2, <4>4, <4>5, <4>6, CallerStep
    <3> QED
      BY <3>2, <3>4
  <2> QED
    BY <2>2, <2>3
<1>5. HomeHeld'
  <2> SUFFICES ASSUME binding' # None, NEW c \in Callers, calls'[c].pc \in HomePlaces
               PROVE  calls'[c].at = binding'.at
    BY DEF HomeHeld
  <2>1. CASE binding = None
    <3>1. RecordNewSession /\ binding'.at = calls[Reactor].at
      BY <1>2, <2>1
    <3>2. OthersStay(Reactor) /\ Moved(Reactor, "bind")
      BY <3>1, ReactorIs
    <3>3. CASE c # Reactor
      <4>1. calls[c].pc \in HomePlaces /\ Fits(c, calls[c], FALSE)
        BY <2>1, <3>2, <3>3, WhoIsWhere DEF OthersStay
      <4> QED
        BY <3>3, <4>1 DEF Fits, HomePlaces, Routed, Starts
    <3> QED
      BY <3>1, <3>2, <3>3 DEF Moved
  <2>2. CASE binding # None
    <3>1. binding'.at = binding.at
      BY <1>1, <2>2
    <3>2. CASE UNCHANGED <<calls[c]>>
      BY <1>0, <2>2, <3>1, <3>2 DEF HomeHeld
    <3>3. CASE StartEnds(c)
      <4>1. PICK i \in Instances : i = calls[c].at
        BY <3>3, WhoIsWhere DEF StartEnds, Starts
      <4>2. calls'[c].at = i /\ i = binding.at
        BY <1>0, <2>2, <3>3, <4>1, CallIs DEF StartEnds, Moved, Typed, TypeOK
      <4> QED
        BY <3>1, <4>2
    <3>4. CASE RecordRecovered(c) \/ Recover(c) \/ StopAdapter(c) \/ StopRecord(c)
      <4>1. calls[c].pc \in HomePlaces /\ calls'[c].at = calls[c].at
        BY <3>4, CallIs, IdleIs DEF HomePlaces, Moved, MovedTo
      <4> QED
        BY <1>0, <2>2, <3>1, <4>1 DEF HomeHeld
    <3>5. CASE Route(c) \/ StopRoute(c)
      <4>1. calls'[c].at = binding.at
        BY <2>2, <3>5, CallIs DEF MovedTo
      <4> QED
        BY <3>1, <4>1
    <3>6. CASE c = Reactor /\ (RecordNewSession \/ \E i \in Instances : StopStale(i))
      <4>1. calls[c].pc \in HomePlaces /\ calls'[c].at = calls[c].at
        BY <3>6, ReactorIs DEF HomePlaces, Moved
      <4> QED
        BY <1>0, <2>2, <3>1, <4>1 DEF HomeHeld
    <3>7. CASE \E t \in Turns : c = Fiber(t) /\ (SendBegins(t) \/ Deliver(t))
      <4>1. calls[c].pc \in HomePlaces /\ calls'[c].at = calls[c].at
        BY <3>7, SendIs DEF HomePlaces, Moved
      <4> QED
        BY <1>0, <2>2, <3>1, <4>1 DEF HomeHeld
    <3>8. ~(c = Reactor /\ Take)
      BY TakeIs DEF FirstStep, HomePlaces, Take, Typed, TypeOK, Request
    <3>9. ~StartBegins(c) /\ ~(Ensure /\ MovedTo(c, "start", Wanted(calls[c].event)))
      BY CallIs DEF HomePlaces, Moved, MovedTo
    <3> QED
      BY <3>2, <3>3, <3>4, <3>5, <3>6, <3>7, <3>8, <3>9, Arrives DEF HomePlaces
  <2> QED
    BY <2>1, <2>2
<1> QED
  BY <1>3, <1>4, <1>5

\* As long as a thread has not switched, only the instance of its binding has a session or
\* has reported anything, and that is the instance every caller acts on
\* (resolveRoutableSession and startSession in ProviderService.ts).
THEOREM SpecAtHome == Spec => []AtHome
<1>1. Init => AtHome
  BY DEF Init, AtHome, HomeBound, HomeNew, HomeHeld, Quiet, Live
<1>2. Typed /\ AtHome /\ [Next]_vars => AtHome'
  BY HomeStep
<1> QED
  BY <1>1, <1>2, SpecTyped, PTL DEF Spec

-----------------------------------------------------------------------------
(* The modes of the thread's session, its binding and its provider's session.*)

ModeOf(s) == IF s = None THEN InitialMode ELSE s.mode

\* From when the reactor has started a session until it binds it to the thread.
InFlight == calls[Reactor].pc \in {"record", "bind"} /\ ~Recovering(Reactor)

Steady == patient /\ ~clobbered /\ ~crashed /\ alive

\* With no session projected there is none at all.
NothingYet ==
  ~InFlight /\ session = None =>
    binding = None /\ ingest = NotIngesting /\ \A i \in Instances : ~Live(i) /\ events[i] = <<>>
LiveMode == ~InFlight => \A i \in Instances : Live(i) => live[i].mode = ModeOf(session)
BindingMode == ~InFlight /\ binding # None => binding.mode = ModeOf(session)

\* The new session has the reactor's mode, the others are being stopped.
NewMode ==
  InFlight =>
    /\ \A i \in Instances : Live(i) => i \in calls[Reactor].stale \/ live[i].mode = calls[Reactor].mode
    /\ calls[Reactor].pc = "bind" => binding.mode = calls[Reactor].mode /\ calls[Reactor].stale = {}

\* What a caller recovers a session with, and what the reactor will write when it stops it.
RecoveringMode ==
  \A c \in Callers : Recovering(c) /\ calls[c].pc \in {"recover"} \cup Starts =>
    calls[c].mode = ModeOf(session)
StoppingMode == calls[Reactor].event.type = "stop" => calls[Reactor].mode = ModeOf(session)

ModesFollow ==
  Steady => NothingYet /\ LiveMode /\ BindingMode /\ NewMode /\ RecoveringMode /\ StoppingMode

\* How a session comes to be in flight, and how that ends.
LEMMA FlightStep ==
  ASSUME Typed, [Next]_vars
  PROVE  /\ InFlight' => \/ InFlight /\ UNCHANGED <<calls[Reactor]>>
                         \/ InFlight /\ RecordNewSession
                         \/ InFlight /\ \E i \in Instances : StopStale(i)
                         \/ StartEnds(Reactor) /\ ~Recovering(Reactor)
         /\ InFlight => InFlight' \/ Bind \/ Restart
<1>1. ASSUME InFlight'
      PROVE  \/ InFlight /\ UNCHANGED <<calls[Reactor]>>
             \/ InFlight /\ RecordNewSession
             \/ InFlight /\ \E i \in Instances : StopStale(i)
             \/ StartEnds(Reactor) /\ ~Recovering(Reactor)
  <2>0. calls'[Reactor].pc \in {"record", "bind"} /\ calls'[Reactor].event.type # "interrupt"
    BY <1>1 DEF InFlight, Recovering
  <2>1. CASE UNCHANGED <<calls[Reactor]>>
    BY <2>0, <2>1 DEF InFlight, Recovering
  <2>2. CASE Take
    BY <2>0, <2>2, TakeIs DEF FirstStep, Take, Typed, TypeOK, Request
  <2>3. CASE RecordNewSession
    BY <2>3 DEF RecordNewSession, InFlight
  <2>4. CASE \E i \in Instances : StopStale(i)
    BY <2>0, <2>4, ReactorIs DEF InFlight, Recovering, Moved
  <2>5. CASE StartEnds(Reactor)
    BY <2>0, <2>5, CallIs, CallersAre DEF Recovering, Moved
  <2>6. ~Recover(Reactor)
    <3> SUFFICES ASSUME Recover(Reactor) PROVE FALSE
      OBVIOUS
    <3>1. calls[Reactor].pc = "recover" /\ calls'[Reactor].event = calls[Reactor].event
      BY CallIs, CallersAre DEF MovedTo
    <3>2. calls[Reactor].event.type = "interrupt"
      BY <3>1, WhoIsWhere, CallersAre
    <3> QED
      BY <2>0, <3>1, <3>2
  <2>7. /\ ~StartBegins(Reactor) /\ ~RecordRecovered(Reactor) /\ ~Route(Reactor)
        /\ ~StopRoute(Reactor) /\ ~StopAdapter(Reactor) /\ ~StopRecord(Reactor)
    <3>1. Failed(Reactor) => calls'[Reactor].pc \in {"idle", "report"}
      BY IdleIs DEF Failed
    <3> QED
      BY <2>0, <3>1, CallIs, CallersAre, IdleIs DEF Moved, MovedTo
  <2> QED
    BY <2>0, <2>1, <2>2, <2>3, <2>4, <2>5, <2>6, <2>7, Arrives, CallersAre DEF MovedTo
<1>2. ASSUME InFlight, ~Bind, ~Restart PROVE InFlight'
  <2>0. calls[Reactor].pc \in {"record", "bind"} /\ ~Recovering(Reactor) /\ calls[Reactor].event.type # "interrupt"
    BY <1>2 DEF InFlight, Recovering
  <2>1. CASE UNCHANGED <<calls[Reactor]>>
    BY <2>0, <2>1 DEF InFlight, Recovering
  <2>2. CASE RecordNewSession \/ \E i \in Instances : StopStale(i)
    BY <2>0, <2>2, ReactorIs DEF Moved, InFlight, Recovering
  <2>3. ~Take /\ ~Ensure /\ ~SetStopped /\ ~Interrupt /\ ~\E t \in Turns : Forks(t)
    BY <1>2, <2>0, IdleIs DEF Take, Ensure, SetStopped, Interrupt, Forks
  <2>4. ASSUME NEW c \in Callers, Call(c) \/ StartFails(c), OthersStay(c) PROVE UNCHANGED <<calls[Reactor]>>
    <3>1. CASE c # Reactor
      BY <2>4, <3>1, CallersAre DEF OthersStay
    <3>2. CASE c = Reactor
      BY <2>0, <2>4, <3>2, CallIs DEF Call
    <3> QED
      BY <3>1, <3>2
  <2>5. ASSUME OthersStay(Deletion) \/ OthersStay(Reaper) \/ \E t \in Turns : OthersStay(Fiber(t))
        PROVE  UNCHANGED <<calls[Reactor]>>
    BY <2>5, CallersAre DEF OthersStay
  <2> QED
    BY <1>2, <2>1, <2>2, <2>3, <2>4, <2>5, CallerStep
<1> QED
  BY <1>1, <1>2

\* Who moves in a step of one thread at a time: a caller that is busy before it is the
\* only worker.
LEMMA Alone ==
  ASSUME Serial, patient, NEW c \in Workers, Busy(c), NEW d \in Workers, Busy(d)
  PROVE  c = d /\ queue = <<>>
  BY DEF Serial, OneAtATime

\* With a session in flight nobody recovers one.
LEMMA FlightAlone ==
  ASSUME Typed, Serial, patient, InFlight, NEW c \in Callers, Recovering(c)
  PROVE  calls[c].pc \notin {"recover", "route"} \cup Starts
<1>1. ASSUME calls[c].pc \in {"recover", "route"} \cup Starts PROVE FALSE
  <2>1. c # Reactor
    BY DEF InFlight
  <2>2. c \in Workers /\ Busy(c)
    BY <1>1, WhoIsWhere DEF Workers, Busy, Starts
  <2>3. Reactor \in Workers /\ Busy(Reactor)
    BY WorkersAre DEF InFlight, Busy
  <2> QED
    BY <2>1, <2>2, <2>3, Alone
<1> QED
  BY <1>1

\* What becomes of the projected session, but for the reactor binding a new one.
LEMMA ShownModeStep ==
  ASSUME Typed, ModesFollow, [Next]_vars, Steady'
  PROVE  \/ Bind \/ (InFlight /\ IngestWrite)
         \/ ModeOf(session') = ModeOf(session) /\ (session' = None => session = None)
<1>0. Steady
  BY FlagsStep DEF Steady
<1>t. session \in SessionRow \cup {None} /\ \A x \in SessionRow : x # None
  BY NothingIs DEF Typed, TypeOK
<1>1. CASE UNCHANGED session
  BY <1>1
<1>2. CASE SetStopped
  <2>1. calls[Reactor].event.type = "stop"
    BY <1>2, WhoIsWhere, CallersAre DEF SetStopped, Fits, PlacesOf, ReactorPlaces, Starts, StopPlaces
  <2>2. calls[Reactor].mode = ModeOf(session) /\ session' = Projected("stopped", NoTurn, calls[Reactor].mode)
    BY <1>0, <1>2, <2>1 DEF ModesFollow, StoppingMode, SetStopped
  <2>3. session' \in SessionRow
    BY <2>2, WhoIsWhere, CallersAre DEF Projected, SessionRow, TurnIds
  <2> QED
    BY <1>t, <2>2, <2>3 DEF ModeOf, Projected
<1>3. CASE \E c \in Callers : Report(c)
  <2>1. \/ session' = session
        \/ session # None /\ \E x \in {"stopped", "ready"} : session' = Projected(x, NoTurn, session.mode)
    BY <1>3 DEF Report
  <2>2. ASSUME NEW x \in {"stopped", "ready"}, session # None, session' = Projected(x, NoTurn, session.mode)
        PROVE  session' \in SessionRow /\ session'.mode = session.mode
    BY <1>t, <2>2 DEF Projected, SessionRow, TurnIds
  <2> QED
    BY <1>t, <2>1, <2>2 DEF ModeOf
<1>4. CASE IngestWrite /\ ~InFlight
  <2>1. session # None /\ session = ingest.seen /\ ingest.event \in RuntimeEvent
    BY <1>0, <1>4, IngestingIs DEF ModesFollow, NothingYet, IngestWrite, Steady, Typed, TypeOK
  <2>2. Applied(ingest.event, session) \in SessionRow /\ Applied(ingest.event, session).mode = session.mode
    BY <1>t, <2>1, AppliedIs
  <2>3. session' = session \/ session' = Applied(ingest.event, session)
    BY <1>4, <2>1 DEF IngestWrite
  <2> QED
    BY <1>t, <2>1, <2>2, <2>3 DEF ModeOf
<1> QED
  BY <1>1, <1>2, <1>3, <1>4, SessionStep

LEMMA ModesStep ==
  ASSUME Typed, Serial, ModesFollow, [Next]_vars
  PROVE  ModesFollow'
<1> SUFFICES ASSUME Steady'
             PROVE  NothingYet' /\ LiveMode' /\ BindingMode' /\ NewMode' /\ RecoveringMode' /\ StoppingMode'
  BY DEF ModesFollow
<1>0. Steady /\ patient
  BY FlagsStep DEF Steady
<1>m. NothingYet /\ LiveMode /\ BindingMode /\ NewMode /\ RecoveringMode /\ StoppingMode
  BY <1>0 DEF ModesFollow
<1>r. ~Restart
  BY DEF Steady, Restart
<1>n. ASSUME NEW s \in Modes PROVE Session(s).mode = s
  BY DEF Session
\* While no session is in flight, and the step binds none.
<1>1. ASSUME ~InFlight, ~Bind
      PROVE  ModeOf(session') = ModeOf(session) /\ (session' = None => session = None)
  BY <1>1, ShownModeStep
<1>2. ASSUME ~InFlight, NEW c \in Callers, calls[c].pc \in Starts
      PROVE  Recovering(c) => binding # None /\ session # None /\ calls[c].mode = ModeOf(session)
  BY <1>m, <1>2, WhoIsWhere DEF Fits, Recovering, RecoveringMode, NothingYet
\* The reactor binds the session that it has started.
<1>b. ASSUME Bind
      PROVE  /\ InFlight /\ calls[Reactor].pc = "bind"
             /\ ModeOf(session') = calls[Reactor].mode /\ session' # None
             /\ UNCHANGED <<binding, live, events, ingest>>
             /\ calls'[Reactor].pc \in {"idle", "report"}
  <2>1. calls[Reactor].pc = "bind" /\ session' = Projected("ready", NoTurn, calls[Reactor].mode)
        /\ UNCHANGED <<binding, live, events, ingest>>
    BY <1>b DEF Bind
  <2>2. InFlight
    BY <2>1, WhoIsWhere, CallersAre
       DEF Fits, InFlight, Recovering, PlacesOf, ReactorPlaces, StopPlaces, Starts
  <2>3. session' # None /\ ModeOf(session') = calls[Reactor].mode
    <3>1. session' \in SessionRow /\ session'.mode = calls[Reactor].mode
      BY <2>1, WhoIsWhere, CallersAre DEF Projected, SessionRow, TurnIds
    <3> QED
      BY <3>1, NothingIs DEF ModeOf
  <2>4. calls'[Reactor].pc \in {"idle", "report"}
    BY <1>b, ForksIs DEF Bind, Ensure
  <2> QED
    BY <2>1, <2>2, <2>3, <2>4
\* A session that is live after the step was live, in the same mode, or is entered.
<1>l. ASSUME NEW i \in Instances, Live(i)'
      PROVE  \/ Live(i) /\ live'[i].mode = live[i].mode
             \/ \E c \in Callers : EntersSession(c, i) /\ live'[i].mode = calls[c].mode
  <2>1. CASE \E c \in Callers : EntersSession(c, i)
    BY <2>1, <1>n, WhoIsWhere DEF EntersSession
  <2> QED
    BY <1>l, <1>r, <2>1, InstanceStep
       DEF Live, Undisturbed, Ceases, BeginsTurn, LosesTurn, OrphanGoes, EventTaken
<1>3. NothingYet'
  <2> SUFFICES ASSUME ~InFlight', session' = None
               PROVE  binding' = None /\ ingest' = NotIngesting
                      /\ \A i \in Instances : ~Live(i)' /\ events'[i] = <<>>
    BY DEF NothingYet, Live
  <2>1. ~Bind /\ ~InFlight
    BY <1>b, <1>r, FlightStep
  <2>2. session = None
    BY <1>1, <2>1
  <2>3. binding = None /\ ingest = NotIngesting /\ \A i \in Instances : ~Live(i) /\ events[i] = <<>>
    BY <1>m, <2>1, <2>2 DEF NothingYet
  <2>4. ~RecordNewSession
    BY <2>1 DEF InFlight, RecordNewSession
  <2>5. binding' = None
    BY <1>r, <2>3, <2>4, BindingStep
  <2>6. ingest' = NotIngesting
    BY <1>r, <2>3, SessionStep DEF IngestRead, IngestWrite
  <2>7. ASSUME NEW c \in Callers, NEW i \in Instances PROVE ~EntersSession(c, i)
    <3>1. ASSUME EntersSession(c, i) PROVE FALSE
      <4>1. StartEnds(c) /\ calls[c].pc = "spawn" /\ ~Recovering(c)
        BY <3>1, <1>2, <2>1, <2>2, CallIs DEF EntersSession, Starts
      <4>2. c = Reactor
        BY <4>1 DEF Recovering
      <4>3. InFlight'
        BY <4>1, <4>2, CallIs DEF InFlight, Recovering, Moved
      <4> QED
        BY <4>3
    <3> QED
      BY <3>1
  <2>8. ASSUME NEW i \in Instances PROVE ~Live(i)' /\ events'[i] = <<>>
    <3>1. ASSUME NEW t \in Turns PROVE ~Sent(t, i)
      BY <2>3, WhoIsWhere, CallersAre DEF Sent, Routed
    <3> QED
      BY <1>0, <1>r, <2>3, <2>7, <3>1, InstanceStep
         DEF Live, Undisturbed, Ceases, BeginsTurn, LosesTurn, OrphanGoes, EventTaken, Serial, Replaced
  <2> QED
    BY <2>5, <2>6, <2>8
<1>4. LiveMode'
  <2> SUFFICES ASSUME ~InFlight', NEW i \in Instances, Live(i)'
               PROVE  live'[i].mode = ModeOf(session')
    BY DEF LiveMode, Live
  <2>1. CASE Bind
    <3>1. live'[i] = live[i] /\ Live(i) /\ calls[Reactor].stale = {}
      BY <1>m, <1>b, <2>1 DEF Live, NewMode
    <3> QED
      BY <1>m, <1>b, <2>1, <3>1 DEF NewMode
  <2>2. CASE ~Bind
    <3>1. ~InFlight /\ ModeOf(session') = ModeOf(session)
      BY <1>1, <1>r, <2>2, FlightStep
    <3>2. CASE Live(i) /\ live'[i].mode = live[i].mode
      BY <1>m, <3>1, <3>2 DEF LiveMode
    <3>3. ASSUME NEW c \in Callers, EntersSession(c, i), live'[i].mode = calls[c].mode
          PROVE  live'[i].mode = ModeOf(session')
      <4>1. StartEnds(c) /\ calls[c].pc = "spawn"
        BY <3>3, CallIs DEF EntersSession
      <4>2. Recovering(c)
        <5>1. ASSUME ~Recovering(c) PROVE InFlight'
          BY <4>1, <5>1, CallIs DEF InFlight, Recovering, Moved
        <5> QED
          BY <5>1
      <4> QED
        BY <1>2, <3>1, <3>3, <4>1, <4>2 DEF Starts
    <3> QED
      BY <1>l, <3>2, <3>3
  <2> QED
    BY <2>1, <2>2
<1>5. BindingMode'
  <2> SUFFICES ASSUME ~InFlight', binding' # None PROVE binding'.mode = ModeOf(session')
    BY DEF BindingMode
  <2>1. CASE Bind
    BY <1>m, <1>b, <2>1 DEF NewMode
  <2>2. CASE ~Bind
    <3>1. ~InFlight /\ ModeOf(session') = ModeOf(session)
      BY <1>1, <1>r, <2>2, FlightStep
    <3>2. ~RecordNewSession
      BY <3>1 DEF InFlight, RecordNewSession
    <3>3. ASSUME NEW c \in Callers, RecordRecovered(c), Rebound(calls[c].at, calls[c].mode)
          PROVE  binding'.mode = ModeOf(session)
      BY <1>2, <3>1, <3>3, CallIs DEF Rebound, Starts
    <3> QED
      BY <1>m, <1>r, <3>1, <3>2, <3>3, BindingStep DEF BindingMode, Rebound
  <2> QED
    BY <2>1, <2>2
<1>6. NewMode'
  <2> SUFFICES ASSUME InFlight'
               PROVE  /\ \A i \in Instances : Live(i)' =>
                           i \in calls'[Reactor].stale \/ live'[i].mode = calls'[Reactor].mode
                      /\ calls'[Reactor].pc = "bind" =>
                           binding'.mode = calls'[Reactor].mode /\ calls'[Reactor].stale = {}
    BY DEF NewMode, Live
  <2>1. CASE StartEnds(Reactor) /\ ~Recovering(Reactor)
    <3>1. PICK j \in Instances : j = calls[Reactor].at
      BY <2>1, CallIs, WhoIsWhere, CallersAre DEF Starts
    <3>2. calls'[Reactor].stale = Instances \ {j} /\ calls'[Reactor].mode = calls[Reactor].mode
          /\ calls'[Reactor].pc = "record"
      BY <2>1, <3>1, CallIs, CallersAre DEF Moved
    <3>3. live'[j].mode = calls[Reactor].mode
      BY <1>n, <2>1, <3>1, WhoIsWhere, CallersAre DEF StartEnds, Typed, TypeOK
    <3> QED
      BY <3>2, <3>3
  <2>2. CASE InFlight
    <3>a. ASSUME NEW c \in Callers, NEW i \in Instances PROVE ~EntersSession(c, i)
      <4>1. ASSUME EntersSession(c, i) PROVE FALSE
        <5>1. calls[c].pc = "spawn"
          BY <4>1, CallIs DEF EntersSession
        <5>2. Recovering(c)
          BY <2>2, <5>1 DEF InFlight, Recovering
        <5> QED
          BY <1>0, <2>2, <5>1, <5>2, FlightAlone DEF Starts
      <4> QED
        BY <4>1
    <3>b. \A i \in Instances : Live(i)' => Live(i) /\ live'[i].mode = live[i].mode
      BY <1>l, <3>a
    <3>c. ASSUME NEW c \in Callers PROVE ~RecordRecovered(c)
      BY <1>0, <2>2, CallIs, FlightAlone DEF Starts
    <3>1. CASE UNCHANGED <<calls[Reactor]>>
      <4>1. ~RecordNewSession
        BY <3>1, ReactorIs DEF Moved
      <4>2. calls[Reactor].pc = "bind" => binding'.mode = binding.mode
        BY <1>r, <3>c, <4>1, BindingStep DEF Rebound
      <4> QED
        BY <1>m, <2>2, <3>1, <3>b, <4>2 DEF NewMode
    <3>2. CASE RecordNewSession
      <4>1. Moved(Reactor, "bind") /\ calls'[Reactor].stale = {} /\ calls[Reactor].stale = {}
            /\ binding' = Bound(Reactor)
        BY <3>2, ReactorIs DEF RecordNewSession
      <4> QED
        BY <1>m, <2>2, <3>b, <4>1 DEF NewMode, Moved, Bound
    <3>3. ASSUME NEW j \in Instances, StopStale(j)
          PROVE  /\ \A i \in Instances : Live(i)' =>
                      i \in calls'[Reactor].stale \/ live'[i].mode = calls'[Reactor].mode
                 /\ calls'[Reactor].pc = "record"
      <4>1. Moved(Reactor, "record") /\ calls'[Reactor].stale = calls[Reactor].stale \ {j}
        BY <3>3, ReactorIs
      <4>2. ~Live(j)'
        BY <3>3 DEF StopStale, Live, Typed, TypeOK
      <4> QED
        BY <1>m, <2>2, <3>b, <4>1, <4>2 DEF NewMode, Moved
    <3> QED
      BY <2>2, <3>1, <3>2, <3>3, FlightStep, CallIs, CallersAre DEF InFlight
  <2> QED
    BY <2>1, <2>2, FlightStep
<1>7. RecoveringMode'
  <2> SUFFICES ASSUME NEW c \in Callers, Recovering(c)', calls'[c].pc \in {"recover"} \cup Starts
               PROVE  calls'[c].mode = ModeOf(session')
    BY DEF RecoveringMode, Recovering
  <2>1. c # Reactor \/ calls'[c].event.type = "interrupt"
    BY DEF Recovering
  <2>2. ~Bind
    <3>1. ASSUME Bind PROVE FALSE
      <4>1. c # Reactor
        BY <1>b, <3>1 DEF Starts
      <4>2. c \in Workers /\ calls'[c] = calls[c]
        <5>1. CASE \E t \in Turns : Forks(t)
          <6>1. PICK t \in Turns : Forks(t)
            BY <5>1
          <6>2. c # Fiber(t)
            BY <6>1 DEF Forks, Starts
          <6>3. calls'[c] = calls[c]
            BY <4>1, <6>1, <6>2 DEF Forks
          <6> QED
            BY <6>3, WhoIsWhere DEF Workers, Starts
        <5>2. CASE OthersStay(Reactor)
          <6>1. calls'[c] = calls[c]
            BY <4>1, <5>2 DEF OthersStay
          <6> QED
            BY <6>1, WhoIsWhere DEF Workers, Starts
        <5> QED
          BY <3>1, <5>1, <5>2, ForksIs
      <4>3. Recovering(c) /\ calls[c].pc \in {"recover"} \cup Starts
        BY <4>1, <4>2 DEF Recovering
      <4> QED
        BY <1>0, <1>b, <3>1, <4>3, FlightAlone
    <3> QED
      BY <3>1
  <2>3. CASE UNCHANGED <<calls[c]>>
    <3>1. Recovering(c) /\ calls[c].pc \in {"recover"} \cup Starts
      BY <2>1, <2>3 DEF Recovering
    <3>2. ~InFlight
      BY <1>0, <3>1, FlightAlone
    <3> QED
      BY <1>m, <1>1, <2>2, <2>3, <3>1, <3>2 DEF RecoveringMode
  <2>4. ASSUME \/ StartBegins(c) \/ StartEnds(c) \/ Recover(c)
               \/ c = Reactor /\ \E i \in Instances : StopStale(i)
        PROVE  calls'[c].mode = ModeOf(session')
    <3>1. Recovering(c) /\ calls[c].pc \in {"recover"} \cup Starts
      BY <2>1, <2>4, CallIs, ReactorIs DEF Recovering, Moved, MovedTo, Starts
    <3>2. ~InFlight
      BY <1>0, <3>1, FlightAlone
    <3>3. calls[c].mode = ModeOf(session) /\ ModeOf(session') = ModeOf(session)
      BY <1>m, <1>1, <2>2, <3>1, <3>2 DEF RecoveringMode
    <3>4. CASE Recover(c)
      <4>1. PICK i \in Instances : i = calls[c].at
        BY <3>4, CallIs, WhoIsWhere DEF Routed
      <4>2. Live(i) => live[i].mode = ModeOf(session)
        BY <1>m, <3>2 DEF LiveMode
      <4> QED
        BY <3>3, <3>4, <4>1, <4>2, CallIs
    <3> QED
      BY <2>4, <3>3, <3>4, CallIs, ReactorIs DEF Moved
  <2>5. ASSUME Route(c) PROVE calls'[c].mode = ModeOf(session')
    <3>1. calls[c].pc = "route" /\ binding # None /\ calls'[c].mode = binding.mode
      BY <2>5, CallIs, IdleIs DEF Failed, Starts
    <3>2. Recovering(c)
      BY <3>1, WhoIsWhere DEF Recovering
    <3>3. ~InFlight
      BY <1>0, <3>1, <3>2, FlightAlone
    <3> QED
      BY <1>m, <1>1, <2>2, <3>1, <3>3 DEF BindingMode
  <2>6. ~(c = Reactor /\ (Ensure \/ RecordNewSession))
    <3>1. c = Reactor /\ Ensure => calls[c].event.type \in {"turn", "mode"}
      BY WhoIsWhere, CallersAre, ReactorIs
         DEF Fits, PlacesOf, ReactorPlaces, StopPlaces, Starts
    <3>2. c = Reactor /\ Ensure => calls'[c].pc \in {"idle", "report"} \/ calls'[c].event.type \in {"turn", "mode"}
      BY <3>1, ForksIs DEF MovedTo
    <3>3. c = Reactor /\ RecordNewSession => calls[c].event.type # "interrupt" /\ Moved(c, "bind")
      BY ReactorIs DEF RecordNewSession, Recovering
    <3> QED
      BY <2>1, <3>2, <3>3 DEF Moved, Starts
  <2>7. ~(c = Reactor /\ Take)
    BY TakeIs DEF FirstStep, Starts, Take, Typed, TypeOK, Request
  <2>8. ~StopRoute(c) /\ ~StopAdapter(c) /\ ~StopRecord(c) /\ ~RecordRecovered(c)
    BY CallIs, IdleIs DEF Moved, MovedTo, Starts
  <2>9. \A t \in Turns : ~(c = Fiber(t) /\ (SendBegins(t) \/ Deliver(t)))
    BY SendIs DEF Moved, Starts
  <2> QED
    BY <2>3, <2>4, <2>5, <2>6, <2>7, <2>8, <2>9, Arrives DEF Starts
<1>8. StoppingMode'
  <2> SUFFICES ASSUME calls'[Reactor].event.type = "stop" PROVE calls'[Reactor].mode = ModeOf(session')
    BY DEF StoppingMode
  <2>0. calls'[Reactor].pc \in {"setStopped"} \cup StopPlaces
    <3>1. Typed'
      BY TypedStep
    <3>2. Fits(Reactor, calls'[Reactor], binding' # None)
      BY <3>1, CallersAre DEF Typed, InPlace
    <3> QED
      BY <3>2 DEF Fits, PlacesOf, ReactorPlaces
  <2>1. CASE Take
    BY <2>0, <2>1, TakeIs DEF Take, ModeOf, StopPlaces
  <2>2. CASE ~Take
    <3>1. \/ UNCHANGED <<calls[Reactor]>>
          \/ StopRoute(Reactor) \/ StopAdapter(Reactor) \/ StopRecord(Reactor)
      <4>1. ~StartBegins(Reactor) /\ ~StartEnds(Reactor) /\ ~RecordRecovered(Reactor) /\ ~Route(Reactor)
            /\ ~Recover(Reactor)
        <5>1. Failed(Reactor) => calls'[Reactor].pc \in {"idle", "report"}
          BY IdleIs DEF Failed
        <5> QED
          BY <2>0, <5>1, CallIs, CallersAre DEF Moved, MovedTo, StopPlaces
      <4>2. ~RecordNewSession /\ \A i \in Instances : ~StopStale(i)
        BY <2>0, ReactorIs DEF Moved, StopPlaces
      <4> QED
        BY <2>0, <2>2, <4>1, <4>2, Arrives, CallersAre DEF MovedTo, StopPlaces
    <3>2. calls[Reactor].event.type = "stop" /\ calls'[Reactor].mode = calls[Reactor].mode
      BY <2>0, <3>1, CallIs, CallersAre, IdleIs DEF Moved, MovedTo, StopPlaces
    <3>3. ~InFlight
      BY <3>2, WhoIsWhere, CallersAre DEF InFlight, Fits, PlacesOf, ReactorPlaces, StopPlaces
    <3>4. ~Bind
      BY <1>b, <3>3
    <3> QED
      BY <1>m, <1>1, <3>2, <3>3, <3>4 DEF StoppingMode
  <2> QED
    BY <2>1, <2>2
<1> QED
  BY <1>3, <1>4, <1>5, <1>6, <1>7, <1>8

LEMMA ModesInit == Init => ModesFollow
<1> SUFFICES ASSUME Init PROVE ModesFollow
  OBVIOUS
<1>1. \A c \in Callers : calls[c] = Idle
  BY DEF Init
<1>2. ~InFlight /\ RecoveringMode /\ StoppingMode
  BY <1>1, CallersAre, IdleIs DEF InFlight, RecoveringMode, StoppingMode, Starts
<1>3. NothingYet /\ LiveMode /\ BindingMode
  BY DEF Init, NothingYet, LiveMode, BindingMode, Live
<1> QED
  BY <1>2, <1>3 DEF ModesFollow, NewMode

\* When the user waits for the server, the runtime mode that the thread's session shows is
\* the mode of its provider session, whatever exits, is reaped or recovered meanwhile: what
\* a restart, a recovery or a stop writes comes from the binding or from the session, and
\* the two agree (ensureSessionForThread in ProviderCommandReactor.ts, recoverSessionForThread
\* in ProviderService.ts).
THEOREM SpecShownModeIsReal == Spec => []ShownModeIsReal
<1>1. Typed /\ Serial /\ ModesFollow /\ [Next]_vars => ModesFollow'
  BY ModesStep
<1>2. ModesFollow => ShownModeIsReal
  <2> SUFFICES ASSUME ModesFollow, Handled, Steady, Active PROVE \A i \in Instances : Live(i) => live[i].mode = session.mode
    BY DEF ShownModeIsReal, Steady
  <2>1. ~InFlight
    BY CallersAre, IdleIs DEF Handled, InFlight
  <2> QED
    BY <2>1 DEF ModesFollow, LiveMode, ModeOf, Active
<1> QED
  BY <1>1, <1>2, ModesInit, SpecTyped, SpecSerial, PTL DEF Spec

-----------------------------------------------------------------------------
(* A session at work is shown.                                             *)

IsExit(e) == e.type = "session.exited"

\* The last event of an instance with a session is not that of an exit, and when all are
\* taken, the thread shows a session.
NotExiting(i) == IF events[i] = <<>> THEN ~IsExit(ingest.event) ELSE ~IsExit(events[i][Len(events[i])])
ShownActive(i) ==
  events[i] = <<>> /\ (ingest = NotIngesting \/ Conflicts(ingest.event, ingest.seen)) => Active

\* A request finds the session shown, and nothing on its way that would change that.
NothingExits(i) ==
  queue # <<>> => /\ Active /\ ~IsExit(ingest.event)
                  /\ \A k \in 1 .. Len(events[i]) : ~IsExit(events[i][k])

LiveShown == \A i \in Instances : Live(i) => NotExiting(i) /\ ShownActive(i) /\ NothingExits(i)
NoneLeft == calls[Reactor].pc \in {"stopRecord", "setStopped"} => \A i \in Instances : ~Live(i)

LiveIsShown == patient /\ ~switched /\ alive => LiveShown /\ NoneLeft

Harmless(news) == news # <<>> /\ \A k \in 1 .. Len(news) : ~IsExit(news[k])

LEMMA SingleIs ==
  ASSUME NEW e \in RuntimeEvent, ~IsExit(e)
  PROVE  <<e>> \in Seq(RuntimeEvent) /\ Harmless(<<e>>)
<1>0. <<e>> \in Seq(RuntimeEvent)
  OBVIOUS
<1>1. PICK s \in Seq(RuntimeEvent) : s = <<e>>
  BY <1>0
<1>2. Len(s) = 1 /\ s[1] = e
  BY <1>1
<1> QED
  BY <1>1, <1>2 DEF Harmless

\* What a session that is live after a step reports in it.
LEMMA LiveReports ==
  ASSUME Typed, Serial, patient, [Next]_vars, NEW i \in Instances, Live(i)'
  PROVE  \/ Live(i) /\ events'[i] = events[i]
         \/ Live(i) /\ EventTaken(i)
         \/ /\ Live(i) \/ queue' = <<>>
            /\ \E news \in Seq(RuntimeEvent) : Harmless(news) /\ events'[i] = events[i] \o news
<1>e. /\ \A t \in AllTurns : EndOf(t) \in RuntimeEvent /\ StartOf(t) \in RuntimeEvent
      /\ \A t \in AllTurns : ~IsExit(EndOf(t)) /\ ~IsExit(StartOf(t))
      /\ [type |-> "session.started"] \in RuntimeEvent /\ ~IsExit([type |-> "session.started"])
  BY DEF EndOf, StartOf, RuntimeEvent, IsExit
<1>1. ASSUME NEW c \in Callers, EntersSession(c, i)
      PROVE  queue' = <<>> /\ \E news \in Seq(RuntimeEvent) : Harmless(news) /\ events'[i] = events[i] \o news
  <2>1. StartEnds(c) /\ calls[c].pc = "spawn" /\ UNCHANGED queue
    BY <1>1, CallIs DEF EntersSession, StartEnds
  <2>2. c \in Workers /\ Busy(c)
    BY <2>1, WhoIsWhere DEF Workers, Busy
  <2>3. queue' = <<>>
    BY <2>1, <2>2, Alone
  <2>4. PICK e \in RuntimeEvent : e = [type |-> "session.started"]
    BY <1>e
  <2>5. Started = <<e>> /\ <<e>> \in Seq(RuntimeEvent) /\ ~IsExit(e)
    BY <1>e, <2>4 DEF Started
  <2> QED
    BY <1>1, <2>3, <2>5, SingleIs DEF EntersSession
<1>2. ASSUME NEW t \in AllTurns, events'[i] = events[i] \o Begun(t)
      PROVE  \E news \in Seq(RuntimeEvent) : Harmless(news) /\ events'[i] = events[i] \o news
  <2>1. PICK e \in RuntimeEvent : e = StartOf(t)
    BY <1>e
  <2>2. Begun(t) = <<e>> /\ ~IsExit(e)
    BY <1>e, <2>1 DEF Begun, StartOf
  <2> QED
    BY <1>2, <2>2, SingleIs
<1>7. ASSUME NEW t \in AllTurns, BeginsTurn(t, i)
      PROVE  Live(i) /\ \E news \in Seq(RuntimeEvent) : Harmless(news) /\ events'[i] = events[i] \o news
  BY <1>2, <1>7 DEF BeginsTurn
<1>8. ASSUME NEW t \in Turns, LosesTurn(t, i)
      PROVE  Live(i) /\ \E news \in Seq(RuntimeEvent) : Harmless(news) /\ events'[i] = events[i] \o news
  BY <1>2, <1>8, NothingIs DEF LosesTurn, Live
<1>3. CASE Ceases(i)
  <2>1. events'[i] = events[i] \o Completed(live[i].turn) /\ Live(i) /\ live[i].turn \in TurnIds
    BY <1>3, LiveIs DEF Ceases, Live, Typed
  <2>2. CASE live[i].turn = NoTurn
    BY <2>1, <2>2 DEF Completed, Typed, TypeOK
  <2>3. CASE live[i].turn # NoTurn
    <3>1. PICK f \in RuntimeEvent : f = EndOf(live[i].turn)
      BY <1>e, <2>1, <2>3 DEF TurnIds
    <3>2. Completed(live[i].turn) = <<f>> /\ ~IsExit(f) /\ <<f>> \in Seq(RuntimeEvent)
      BY <1>e, <2>1, <2>3, <3>1 DEF Completed, EndOf, TurnIds
    <3> QED
      BY <2>1, <3>1, <3>2, SingleIs
  <2> QED
    BY <2>2, <2>3
<1>4. ~OrphanGoes(i)
  BY DEF OrphanGoes, Serial, Replaced
<1>5. CASE Undisturbed(i) \/ EventTaken(i)
  BY <1>5 DEF Undisturbed, EventTaken, Live
<1>6. ~Restart
  BY DEF Restart, Live
<1> QED
  BY <1>1, <1>3, <1>4, <1>5, <1>6, <1>7, <1>8, InstanceStep

\* A request that is there after a step was there before, or is made when all is handled.
LEMMA RequestWaits ==
  ASSUME Typed, Serial, patient, [Next]_vars, queue' # <<>>
  PROVE  queue # <<>> \/ (Handled /\ UNCHANGED <<session, ingest, events, live>>)
<1>1. CASE Take
  BY <1>1, TakeIs
<1>2. CASE User /\ ~DeleteThread
  BY <1>2 DEF User, RequestTurn, SetMode, RequestStop, RequestInterrupt, MayAsk, Command, Queued
<1>3. CASE Restart
  BY <1>3 DEF Restart
<1> QED
  BY <1>1, <1>2, <1>3, QueueStep

\* A thread goes on to show a session, unless the reactor or an exit stops it.
LEMMA ActiveStep ==
  ASSUME Typed, [Next]_vars, Active, ~SetStopped,
         IngestWrite => Conflicts(ingest.event, ingest.seen) \/ ~IsExit(ingest.event)
  PROVE  Active'
<1>t. session \in SessionRow /\ \A x \in SessionRow : x # None
  BY NothingIs DEF Typed, TypeOK, Active
<1>1. CASE UNCHANGED session
  BY <1>1 DEF Active
<1>2. CASE Bind
  <2>1. session' \in SessionRow /\ session'.status = "ready"
    BY <1>2, WhoIsWhere, CallersAre DEF Bind, Projected, SessionRow, TurnIds
  <2> QED
    BY <1>t, <2>1 DEF Active
<1>3. CASE \E c \in Callers : Report(c)
  <2>1. session' = session \/ session' = Projected("ready", NoTurn, session.mode)
    BY <1>3 DEF Report, Active
  <2>2. Projected("ready", NoTurn, session.mode) \in SessionRow
    BY <1>t DEF Projected, SessionRow, TurnIds
  <2> QED
    BY <1>t, <2>1, <2>2 DEF Active, Projected
<1>4. CASE IngestWrite
  <2>1. session' = session \/ (~IsExit(ingest.event) /\ session' = Applied(ingest.event, ingest.seen))
    BY <1>4 DEF IngestWrite
  <2>2. ingest.event \in RuntimeEvent /\ ingest.seen \in SessionRow \cup {None}
    BY <1>4, IngestingIs DEF IngestWrite
  <2>3. /\ Applied(ingest.event, ingest.seen) \in SessionRow
        /\ ~IsExit(ingest.event) => Applied(ingest.event, ingest.seen).status # "stopped"
    BY <2>2, AppliedIs DEF IsExit
  <2> QED
    BY <1>t, <2>1, <2>3 DEF Active
<1> QED
  BY <1>1, <1>2, <1>3, <1>4, SessionStep

\* Only one instance has a session or something to report.
LEMMA OneLive ==
  ASSUME AtHome, ~switched, NEW i \in Instances, Live(i), NEW j \in Instances, events[j] # <<>> \/ Live(j)
  PROVE  i = j
  BY OneHome DEF Quiet

\* An instance that has a session after the step, step by step: the events go on ...
LEMMA LiveGoesOn ==
  ASSUME Typed, Serial, AtHome, LiveIsShown, [Next]_vars, patient, ~switched', alive',
         NEW i \in Instances, Live(i)', UNCHANGED ingest
  PROVE  NotExiting(i)' /\ ShownActive(i)' /\ NothingExits(i)'
<1>0. ~switched /\ alive /\ LiveShown /\ NoneLeft
  BY FlagsStep DEF LiveIsShown
<1>t. events[i] \in Seq(RuntimeEvent) /\ Typed'
  BY TypedStep DEF Typed, TypeOK
<1>1. ASSUME Live(i), Active PROVE Active'
  <2>1. ~SetStopped
    BY <1>0, <1>1 DEF NoneLeft, SetStopped
  <2>2. ~IngestWrite
    BY DEF IngestWrite
  <2> QED
    BY <1>1, <2>1, <2>2, ActiveStep
\* A request that is there finds the session shown and nothing that would change that.
<1>2. ASSUME Live(i), queue' # <<>>
      PROVE  Active /\ ~IsExit(ingest.event) /\ \A k \in 1 .. Len(events[i]) : ~IsExit(events[i][k])
  <2>1. CASE queue # <<>>
    BY <1>0, <1>2, <2>1 DEF LiveShown, NothingExits
  <2>2. CASE Handled
    <3>1. events[i] = <<>> /\ ingest = NotIngesting /\ ~IsExit(ingest.event)
      BY <2>2, IngestingIs DEF Handled, IsExit, NoEvent
    <3>2. Active
      BY <1>0, <1>2, <3>1 DEF LiveShown, ShownActive
    <3> QED
      BY <3>1, <3>2
  <2> QED
    BY <1>2, <2>1, <2>2, RequestWaits
<1>3. CASE Live(i) /\ events'[i] = events[i]
  <2>1. NotExiting(i) /\ ShownActive(i)
    BY <1>0, <1>3 DEF LiveShown
  <2>2. NotExiting(i)'
    BY <1>3, <2>1 DEF NotExiting
  <2>3. ShownActive(i)'
    <3>1. ASSUME Active PROVE ShownActive(i)'
      BY <1>1, <1>3, <3>1 DEF ShownActive
    <3>2. ASSUME ~(events[i] = <<>> /\ (ingest = NotIngesting \/ Conflicts(ingest.event, ingest.seen)))
          PROVE  ShownActive(i)'
      BY <1>3, <3>2 DEF ShownActive, Conflicts
    <3> QED
      BY <2>1, <3>1, <3>2 DEF ShownActive
  <2>4. NothingExits(i)'
    <3>1. ASSUME queue' # <<>> PROVE Active' /\ ~IsExit(ingest.event)' /\ \A k \in 1 .. Len(events'[i]) : ~IsExit(events'[i][k])
      BY <1>1, <1>2, <1>3, <3>1 DEF IsExit
    <3> QED
      BY <3>1 DEF NothingExits, IsExit
  <2> QED
    BY <2>2, <2>3, <2>4
<1>4. ASSUME NEW news \in Seq(RuntimeEvent), Harmless(news), events'[i] = events[i] \o news,
             Live(i) \/ queue' = <<>>
      PROVE  NotExiting(i)' /\ ShownActive(i)' /\ NothingExits(i)'
  <2>1. /\ events'[i] # <<>> /\ Len(events'[i]) = Len(events[i]) + Len(news) /\ Len(news) \in Nat \ {0}
        /\ events'[i][Len(events'[i])] = news[Len(news)]
        /\ \A k \in 1 .. Len(events[i]) : events'[i][k] = events[i][k]
        /\ \A k \in 1 .. Len(events'[i]) \ 1 .. Len(events[i]) :
             k - Len(events[i]) \in 1 .. Len(news) /\ events'[i][k] = news[k - Len(events[i])]
    BY <1>t, <1>4 DEF Harmless
  <2>2. ~IsExit(events'[i][Len(events'[i])])
    BY <1>4, <2>1 DEF Harmless
  <2>3. NotExiting(i)' /\ ShownActive(i)'
    BY <2>1, <2>2 DEF NotExiting, ShownActive, IsExit
  <2>4. ASSUME queue' # <<>>
        PROVE  Active' /\ ~IsExit(ingest'.event) /\ \A k \in 1 .. Len(events'[i]) : ~IsExit(events'[i][k])
    <3>1. Active' /\ ~IsExit(ingest'.event) /\ \A k \in 1 .. Len(events[i]) : ~IsExit(events[i][k])
      BY <1>1, <1>2, <1>4, <2>4
    <3>2. ASSUME NEW k \in 1 .. Len(events'[i]) PROVE ~IsExit(events'[i][k])
      <4>1. CASE k \in 1 .. Len(events[i])
        BY <2>1, <3>1, <4>1
      <4>2. CASE k \notin 1 .. Len(events[i])
        BY <1>4, <2>1, <4>2 DEF Harmless
      <4> QED
        BY <4>1, <4>2
    <3> QED
      BY <3>1, <3>2
  <2>5. NothingExits(i)'
    BY <2>4 DEF NothingExits, IsExit
  <2> QED
    BY <2>3, <2>5
<1>5. ~EventTaken(i)
  <2>1. ASSUME IngestRead(i) PROVE FALSE
    <3>1. Head(events[i]) \in RuntimeEvent /\ Head(events[i]) # NoEvent
      BY <2>1, IngestReadIs, NothingIs
    <3>2. ingest'.event = Head(events[i]) /\ ingest.event = NoEvent
      BY <1>0, <2>1 DEF IngestRead, NotIngesting
    <3> QED
      BY <3>1, <3>2
  <2> QED
    BY <2>1 DEF EventTaken
<1> QED
  BY <1>3, <1>4, <1>5, LiveReports

LEMMA TailIs ==
  ASSUME NEW s \in Seq(RuntimeEvent), s # <<>>, NEW r, r = Tail(s)
  PROVE  /\ Head(s) = s[1] /\ Len(s) \in Nat \ {0} /\ Len(r) = Len(s) - 1
         /\ \A k \in 1 .. Len(r) : r[k] = s[k + 1] /\ k + 1 \in 1 .. Len(s)
         /\ r = <<>> => Len(s) = 1
         /\ r # <<>> => Len(r) \in Nat \ {0} /\ r[Len(r)] = s[Len(s)]
<1>1. Head(s) = s[1] /\ Len(s) \in Nat \ {0} /\ Len(r) = Len(s) - 1 /\ r \in Seq(RuntimeEvent)
  OBVIOUS
<1>2. \A k \in 1 .. Len(r) : r[k] = s[k + 1] /\ k + 1 \in 1 .. Len(s)
  BY <1>1
<1>3. r = <<>> => Len(s) = 1
  <2>1. \A n, m \in Nat : m = 0 /\ m = n - 1 => n = 1
    OBVIOUS
  <2>2. Len(<<>>) = 0
    OBVIOUS
  <2> QED
    BY <1>1, <2>1, <2>2
<1>4. r # <<>> => Len(r) \in Nat \ {0}
  <2>1. \A q \in Seq(RuntimeEvent) : q # <<>> => Len(q) \in Nat \ {0}
    OBVIOUS
  <2> QED
    BY <1>1, <2>1
<1>5. ASSUME r # <<>> PROVE r[Len(r)] = s[Len(s)]
  <2>1. PICK n \in Nat \ {0} : n = Len(r)
    BY <1>4, <1>5
  <2>2. n \in 1 .. Len(r) /\ n + 1 = Len(s)
    BY <1>1, <2>1
  <2> QED
    BY <1>2, <2>1, <2>2
<1> QED
  BY <1>1, <1>2, <1>3, <1>4, <1>5

\* ... one of them is taken ...
LEMMA LiveReads ==
  ASSUME Typed, AtHome, LiveIsShown, [Next]_vars, patient, ~switched, alive,
         NEW i \in Instances, Live(i), NEW j \in Instances, IngestRead(j)
  PROVE  NotExiting(i)' /\ ShownActive(i)' /\ NothingExits(i)'
<1>1. i = j
  BY IngestReadIs, OneLive
<1>2. NotExiting(i) /\ NothingExits(i)
  BY DEF LiveIsShown, LiveShown
<1>t. events[i] \in Seq(RuntimeEvent) /\ events[i] # <<>> /\ events'[i] = Tail(events[i])
      /\ Head(events[i]) \in RuntimeEvent
  BY <1>1, IngestReadIs DEF Typed, TypeOK
<1>3. ingest' = [event |-> Head(events[i]), seen |-> session] /\ UNCHANGED <<session, queue>>
  BY <1>1 DEF IngestRead
<1>4. /\ Head(events[i]) = events[i][1] /\ Len(events[i]) \in Nat \ {0}
      /\ Len(events'[i]) = Len(events[i]) - 1
      /\ \A k \in 1 .. Len(events'[i]) : events'[i][k] = events[i][k + 1] /\ k + 1 \in 1 .. Len(events[i])
      /\ events'[i] = <<>> => Len(events[i]) = 1
      /\ events'[i] # <<>> => /\ Len(events'[i]) \in Nat \ {0}
                              /\ events'[i][Len(events'[i])] = events[i][Len(events[i])]
  BY <1>t, TailIs
<1>5. NotExiting(i)'
  BY <1>2, <1>3, <1>4, <1>t DEF NotExiting, IsExit
<1>6. ShownActive(i)'
  <2>1. ingest' # NotIngesting
    BY <1>3, <1>t, NothingIs DEF NotIngesting
  <2>2. Conflicts(ingest'.event, ingest'.seen) => session # None /\ session.turn # NoTurn
    BY <1>3 DEF Conflicts
  <2>3. Conflicts(ingest'.event, ingest'.seen) => Active'
    BY <1>3, <2>2 DEF Typed, Stopped, Active
  <2> QED
    BY <2>1, <2>3 DEF ShownActive, Conflicts
<1>7. NothingExits(i)'
  <2>1. ASSUME queue' # <<>>
        PROVE  Active' /\ ~IsExit(ingest'.event) /\ \A k \in 1 .. Len(events'[i]) : ~IsExit(events'[i][k])
    <3>1. Active /\ \A k \in 1 .. Len(events[i]) : ~IsExit(events[i][k])
      BY <1>2, <1>3, <2>1 DEF NothingExits
    <3>2. Active'
      BY <1>3, <3>1 DEF Active
    <3>3. ~IsExit(ingest'.event)
      BY <1>3, <1>4, <3>1
    <3> QED
      BY <1>4, <3>1, <3>2, <3>3
  <2> QED
    BY <2>1 DEF NothingExits, IsExit
<1> QED
  BY <1>5, <1>6, <1>7

\* ... or becomes the session.
LEMMA LiveWrites ==
  ASSUME Typed, LiveIsShown, [Next]_vars, patient, ~switched, alive,
         NEW i \in Instances, Live(i), IngestWrite
  PROVE  NotExiting(i)' /\ ShownActive(i)' /\ NothingExits(i)'
<1>1. NotExiting(i) /\ ShownActive(i) /\ NothingExits(i)
  BY DEF LiveIsShown, LiveShown
<1>2. ingest' = NotIngesting /\ UNCHANGED <<events, queue>> /\ ingest # NotIngesting
  BY DEF IngestWrite
<1>3. ~IsExit(ingest'.event)
  BY <1>2, IngestingIs, IdleIs DEF IsExit
<1>t. ~SetStopped
  BY <1>2 DEF SetStopped
\* What is not an exit shows a session.
<1>4. ASSUME ~IsExit(ingest.event), Active \/ ~Conflicts(ingest.event, ingest.seen) PROVE Active'
  <2>1. CASE Active
    BY <1>4, <1>t, <2>1, ActiveStep
  <2>2. CASE ~Conflicts(ingest.event, ingest.seen)
    <3>1. ingest.event \in RuntimeEvent /\ ingest.seen \in SessionRow \cup {None}
      BY <1>2, IngestingIs
    <3>2. session' = Applied(ingest.event, ingest.seen)
      BY <2>2 DEF IngestWrite
    <3>3. session' \in SessionRow /\ session'.status # "stopped"
      BY <1>4, <3>1, <3>2, AppliedIs DEF IsExit
    <3> QED
      BY <3>3, NothingIs DEF Active
  <2> QED
    BY <1>4, <2>1, <2>2
<1>5. NotExiting(i)'
  BY <1>1, <1>2, <1>3 DEF NotExiting, IsExit
<1>6. ShownActive(i)'
  <2>1. ASSUME events[i] = <<>> PROVE Active'
    BY <1>1, <1>4, <2>1 DEF NotExiting, ShownActive
  <2> QED
    BY <1>2, <2>1 DEF ShownActive
<1>7. NothingExits(i)'
  <2>1. ASSUME queue # <<>> PROVE Active'
    BY <1>1, <1>4, <2>1 DEF NothingExits
  <2>2. ASSUME queue' # <<>>
        PROVE  Active' /\ ~IsExit(ingest'.event) /\ \A k \in 1 .. Len(events'[i]) : ~IsExit(events'[i][k])
    BY <1>1, <1>2, <1>3, <2>1, <2>2 DEF NothingExits
  <2> QED
    BY <2>2 DEF NothingExits, IsExit
<1> QED
  BY <1>5, <1>6, <1>7

\* The reactor marks the thread stopped when nothing is left of its sessions.
LEMMA NoneLeftStep ==
  ASSUME Typed, Serial, AtHome, LiveIsShown, [Next]_vars, patient, ~switched', alive'
  PROVE  NoneLeft'
<1>0. ~switched /\ alive /\ LiveShown /\ NoneLeft
  BY FlagsStep DEF LiveIsShown
<1> SUFFICES ASSUME calls'[Reactor].pc \in {"stopRecord", "setStopped"}
             PROVE  \A i \in Instances : ~Live(i)'
  BY DEF NoneLeft, Live
<1>1. CASE Take
  <2>1. queue # <<>> /\ FirstStep(Head(queue)) = "setStopped" /\ UNCHANGED live
    BY <1>1, TakeIs DEF FirstStep, Take, Request
  <2>2. ~Active
    BY <1>1, <2>1, TakeIs DEF FirstStep, Request
  <2> QED
    BY <1>0, <2>1, <2>2 DEF LiveShown, NothingExits, Live
<1>2. CASE UNCHANGED <<calls[Reactor]>>
  <2>1. \A i \in Instances : ~Live(i)
    BY <1>0, <1>2 DEF NoneLeft
  <2>2. ASSUME NEW i \in Instances, Live(i)' PROVE FALSE
    <3>1. PICK c \in Callers : EntersSession(c, i)
      BY <2>1, <2>2, InstanceStep
         DEF Live, Undisturbed, Ceases, BeginsTurn, LosesTurn, OrphanGoes, EventTaken, Restart
    <3>2. c \in Workers /\ Busy(c) /\ calls[c].pc = "spawn"
      BY <3>1, CallIs, WhoIsWhere DEF EntersSession, Workers, Busy
    <3>3. Busy(Reactor) /\ Reactor \in Workers
      BY <1>2, WorkersAre DEF Busy
    <3> QED
      BY <1>2, <3>2, <3>3, Alone
  <2> QED
    BY <2>2
<1>3. CASE StopRoute(Reactor)
  <2>1. binding # None /\ ~Live(binding.at) /\ UNCHANGED live
    BY <1>3, CallIs, CallersAre, IdleIs DEF StopRoute, MovedTo
  <2> QED
    BY <1>0, <2>1 DEF AtHome, HomeBound, Quiet, Live
<1>4. CASE StopAdapter(Reactor)
  <2>1. PICK i \in Instances : i = calls[Reactor].at
    BY <1>4, WhoIsWhere, CallersAre DEF StopAdapter, Routed
  <2>2. Live(i) /\ calls[Reactor].pc = "stop"
    BY <1>4, <2>1, CallIs, CallersAre, IdleIs
  <2>3. live' = [live EXCEPT ![i] = NoSession]
    BY <1>4, <2>1, <2>2 DEF StopAdapter
  <2>4. \A j \in Instances \ {i} : ~Live(j)
    BY <1>0, <2>2, OneLive
  <2> QED
    BY <2>3, <2>4 DEF Live, Typed, TypeOK
<1>5. CASE StopRecord(Reactor)
  BY <1>0, <1>5 DEF StopRecord, NoneLeft, Live
<1>6. /\ ~StartBegins(Reactor) /\ ~StartEnds(Reactor) /\ ~RecordRecovered(Reactor) /\ ~Route(Reactor)
      /\ ~Recover(Reactor)
  <2>1. Failed(Reactor) => calls'[Reactor].pc \in {"idle", "report"}
    BY IdleIs DEF Failed
  <2> QED
    BY <2>1, CallIs, CallersAre DEF Moved, MovedTo
<1>7. ~RecordNewSession /\ \A i \in Instances : ~StopStale(i)
  BY ReactorIs DEF Moved
<1> QED
  BY <1>1, <1>2, <1>3, <1>4, <1>5, <1>6, <1>7, Arrives, CallersAre DEF MovedTo

LEMMA LiveIsShownStep ==
  ASSUME Typed, Serial, AtHome, LiveIsShown, [Next]_vars
  PROVE  LiveIsShown'
<1> SUFFICES ASSUME patient, ~switched', alive' PROVE LiveShown' /\ NoneLeft'
  BY FlagsStep DEF LiveIsShown
<1>0. ~switched /\ alive
  BY FlagsStep
<1>1. ASSUME NEW i \in Instances, Live(i)' PROVE NotExiting(i)' /\ ShownActive(i)' /\ NothingExits(i)'
  <2>1. CASE UNCHANGED ingest
    BY <1>1, <2>1, LiveGoesOn
  <2>2. CASE IngestWrite
    BY <1>0, <1>1, <2>2, LiveWrites DEF IngestWrite, Live
  <2>3. CASE \E j \in Instances : IngestRead(j)
    BY <1>0, <1>1, <2>3, LiveReads DEF IngestRead, Live
  <2>4. ~Restart
    BY <1>1 DEF Restart, Live
  <2> QED
    BY <2>1, <2>2, <2>3, <2>4, SessionStep
<1>2. LiveShown'
  BY <1>1 DEF LiveShown, Live
<1> QED
  BY <1>2, NoneLeftStep

\* When the user waits for the server, a thread that shows no session, or a stopped one,
\* has none at work, as long as it has not been switched to another instance: the reactor
\* marks it stopped when it has stopped what the binding names, and the events that show a
\* session come after those that stop one (processSessionStopRequested in
\* ProviderCommandReactor.ts, ProviderRuntimeIngestion.ts).
THEOREM SpecStoppedIsStopped == Spec => []StoppedIsStopped
<1>1. Typed /\ Serial /\ AtHome /\ LiveIsShown /\ [Next]_vars => LiveIsShown'
  BY LiveIsShownStep
<1>2. Init => LiveIsShown
  BY CallersAre, IdleIs DEF Init, LiveIsShown, LiveShown, NoneLeft, Live
<1>3. LiveIsShown => StoppedIsStopped
  BY DEF LiveIsShown, LiveShown, ShownActive, StoppedIsStopped, Handled
<1> QED
  BY <1>1, <1>2, <1>3, SpecTyped, SpecSerial, SpecAtHome, PTL DEF Spec

-----------------------------------------------------------------------------
(* A turn that is at work is shown.                                        *)

\* What is still to be done is not a turn that has been reported as failed.
Asked == patient => \A t \in Turns : Pending(t) => outcome[t] # "reported"

\* Who says what became of a turn.
LEMMA OutcomeStep ==
  ASSUME Typed, [Next]_vars, NEW t \in Turns
  PROVE  \/ outcome'[t] = outcome[t]
         \/ outcome[t] = "none" /\ outcome'[t] = "requested"
         \/ Deliver(t) \/ Restart
         \/ outcome'[t] = "reported" /\ \E c \in Callers : Report(c) /\ TurnOf(c) = t
<1>o. outcome \in [Turns -> Outcomes]
  BY DEF Typed, TypeOK
<1>1. CASE User
  BY <1>o, <1>1 DEF User, RequestTurn, SetMode, RequestStop, RequestInterrupt, DeleteThread
<1>2. CASE ReactorStep
  BY <1>2 DEF ReactorStep, Take, Ensure, StopStale, RecordNewSession, Bind, SetStopped, Interrupt
<1>3. ASSUME NEW c \in Callers, Call(c) \/ StartFails(c)
      PROVE  UNCHANGED outcome \/ (Report(c) /\ outcome' = [outcome EXCEPT ![TurnOf(c)] = "reported"])
  BY <1>3 DEF Call, StartFails, StartBegins, StartEnds, RecordRecovered, Route, Recover, StopRoute, StopAdapter,
     StopRecord, Report
<1>4. ASSUME NEW u \in Turns, Send(u) PROVE outcome'[t] = outcome[t] \/ Deliver(t)
  BY <1>o, <1>4 DEF Send, SendBegins, Deliver, DeliveryFails, RecordTurn
<1>6. CASE \/ ReaperStep \/ Agent \/ Ingestion \/ IdleTime \/ UNCHANGED vars
           \/ \E i \in Instances : SessionExits(i)
  BY <1>6 DEF ReaperStep, Sweep, CheckTurn, Ingestion, IngestRead, IngestWrite, Agent, TurnEnds, OwnTurn,
     IdleTime, vars, SessionExits
<1> QED
  BY <1>o, <1>1, <1>2, <1>3, <1>4, <1>6 DEF Next

\* A request is waited for, or worked on, when it was before or has just been made.
LEMMA PendingStep ==
  ASSUME Typed, [Next]_vars, NEW t \in Turns, Pending(t)'
  PROVE  Pending(t) \/ outcome'[t] = "requested"
<1>1. CASE Waiting(t)'
  <2>1. PICK k \in 1 .. Len(queue') : queue'[k].type = "turn" /\ queue'[k].turn = t
    BY <1>1 DEF Waiting
  <2>2. queue \in Seq(Request)
    BY DEF Typed, TypeOK
  <2>3. CASE UNCHANGED queue
    BY <2>1, <2>3 DEF Pending, Waiting
  <2>4. CASE Take
    <3>1. queue' = Tail(queue) /\ queue # <<>>
      BY <2>4, TakeIs
    <3>2. k + 1 \in 1 .. Len(queue) /\ queue[k + 1] = queue'[k]
      BY <2>1, <2>2, <3>1
    <3> QED
      BY <2>1, <3>2 DEF Pending, Waiting
  <2>5. CASE User /\ ~DeleteThread
    <3>1. PICK e \in Request : /\ queue' = Append(queue, e)
                               /\ e.type = "turn" => outcome'[e.turn] = "requested"
      <4>1. ASSUME NEW u \in Turns, NEW i \in Instances, RequestTurn(u, i)
            PROVE  \E e \in Request : /\ queue' = Append(queue, e)
                                      /\ e.type = "turn" => outcome'[e.turn] = "requested"
        <5>1. PICK e \in Request : e = [type |-> "turn", turn |-> u, at |-> i]
          BY RequestsAreTyped
        <5>2. queue' = Append(queue, e) /\ outcome' = [outcome EXCEPT ![u] = "requested"] /\ e.turn = u
          BY <4>1, <5>1 DEF RequestTurn, Queued
        <5> QED
          BY <5>2 DEF Typed, TypeOK
      <4>2. CASE SetMode \/ RequestStop \/ RequestInterrupt
        <5>1. \E x \in {"mode", "stop", "interrupt"} : queue' = Append(queue, [type |-> x])
          BY <4>2 DEF SetMode, RequestStop, RequestInterrupt, Queued
        <5> QED
          BY <5>1, RequestsAreTyped
      <4> QED
        BY <2>5, <4>1, <4>2 DEF User
    <3>2. CASE k \in 1 .. Len(queue)
      BY <2>1, <2>2, <3>1, <3>2 DEF Pending, Waiting
    <3>3. CASE k \notin 1 .. Len(queue)
      <4>1. queue'[k] = e
        BY <2>1, <2>2, <3>1, <3>3
      <4> QED
        BY <2>1, <3>1, <4>1
    <3> QED
      BY <3>2, <3>3
  <2>6. CASE Restart
    BY <2>1, <2>6 DEF Restart
  <2> QED
    BY <2>3, <2>4, <2>5, <2>6, QueueStep
<1>2. CASE Taken(t)'
  <2>0. calls'[Reactor].event.type = "turn" /\ calls'[Reactor].event.turn = t
        /\ calls'[Reactor] # Idle
    BY <1>2, IdleIs DEF Taken
  <2>1. CASE calls'[Reactor].event = calls[Reactor].event
    BY <2>0, <2>1 DEF Pending, Taken
  <2>2. CASE Take
    <3>1. calls'[Reactor].event = Head(queue) /\ queue # <<>>
      BY <2>0, <2>2, TakeIs, IdleIs
    <3>2. 1 \in 1 .. Len(queue) /\ Head(queue) = queue[1]
      BY <3>1 DEF Typed, TypeOK
    <3> QED
      BY <2>0, <3>1, <3>2 DEF Pending, Waiting
  <2>3. ~Take => calls'[Reactor].event = calls[Reactor].event
    <3>1. Ensure \/ Bind => calls'[Reactor].event = calls[Reactor].event
      <4>1. Proceed /\ UNCHANGED binding /\ calls[Reactor].pc \in {"ensure", "bind"}
              => calls'[Reactor].event = calls[Reactor].event
        <5>1. calls[Reactor] \in CallRecord /\ "report" \in Places
          BY WhoIsWhere, CallersAre DEF Places, SendPlaces
        <5>2. At(Reactor, "report").event = calls[Reactor].event
          BY <5>1, AtIs DEF At
        <5> QED
          BY <2>0, <5>2, ProceedIs
      <4> QED
        BY <2>0, <4>1, ReactorIs DEF Bind, MovedTo, Failed
    <3>2. (\E i \in Instances : StopStale(i)) \/ RecordNewSession \/ SetStopped \/ Interrupt
            => calls'[Reactor].event = calls[Reactor].event
      BY <2>0, ReactorIs DEF Moved
    <3>3. ASSUME NEW c \in Callers, Call(c) \/ StartFails(c), OthersStay(c)
          PROVE  calls'[Reactor].event = calls[Reactor].event
      <4>1. CASE c # Reactor
        BY <3>3, <4>1, CallersAre DEF OthersStay
      <4>2. CASE c = Reactor
        BY <2>0, <3>3, <4>2, CallIs DEF Call, Moved, MovedTo, Failed
      <4> QED
        BY <4>1, <4>2
    <3>4. ASSUME OthersStay(Deletion) \/ OthersStay(Reaper) \/ \E u \in Turns : OthersStay(Fiber(u))
          PROVE  calls'[Reactor].event = calls[Reactor].event
      BY <3>4, CallersAre DEF OthersStay
    <3>5. ~Restart
      BY <2>0, CallersAre DEF Restart
    <3>6. \A u \in Turns : ~Forks(u)
      BY <2>0 DEF Forks
    <3> QED
      BY <3>1, <3>2, <3>3, <3>4, <3>5, <3>6, CallerStep
  <2> QED
    BY <2>1, <2>2, <2>3
<1>3. CASE calls'[Fiber(t)].pc # "idle"
  <2>1. CASE calls[Fiber(t)].pc # "idle"
    BY <2>1 DEF Pending
  <2>2. CASE calls[Fiber(t)].pc = "idle"
    <3>1. ~UNCHANGED <<calls[Fiber(t)]>> /\ Fiber(t) \in Callers
      BY <1>3, <2>2, CallersAre
    <3>2. ASSUME NEW c \in Callers, OthersStay(c) PROVE c = Fiber(t)
      BY <3>1, <3>2 DEF OthersStay
    <3>3. ASSUME NEW u \in Turns, Forks(u) PROVE u = t /\ Taken(t)
      <4>1. Fiber(t) = Fiber(u)
        BY <3>1, <3>3, CallersAre DEF Forks
      <4> QED
        BY <3>3, <4>1, CallersAre DEF Forks, Taken
    <3>4. ~OthersStay(Reactor) /\ ~OthersStay(Deletion) /\ ~OthersStay(Reaper)
      BY <3>2, CallersAre
    <3>5. ~\E u \in Turns : OthersStay(Fiber(u)) /\ calls[Fiber(u)].pc # "idle"
      BY <2>2, <3>2, CallersAre
    <3>6. ~Restart
      BY <1>3, <3>1, IdleIs DEF Restart
    <3>7. ~UNCHANGED calls
      BY <3>1
    <3>8. ~\E c \in Callers : OthersStay(c) /\ calls[c].pc # "idle"
      BY <2>2, <3>2
    <3> QED
      BY <3>3, <3>4, <3>5, <3>6, <3>7, <3>8, CallerStep DEF Pending
  <2> QED
    BY <2>1, <2>2
<1> QED
  BY <1>1, <1>2, <1>3 DEF Pending, Waiting, Taken

LEMMA AskedStep ==
  ASSUME Typed, Serial, Asked, [Next]_vars
  PROVE  Asked'
<1>0. patient' = patient
  BY FlagsStep
<1> SUFFICES ASSUME patient, NEW t \in Turns, Pending(t)' PROVE outcome'[t] # "reported"
  BY <1>0 DEF Asked, Pending, Waiting, Taken
<1>1. CASE outcome'[t] = outcome[t] \/ outcome'[t] = "requested"
  BY <1>1, PendingStep DEF Asked
<1>2. CASE Deliver(t)
  BY <1>2 DEF Deliver, Typed, TypeOK
<1>3. ASSUME NEW c \in Callers, Report(c), TurnOf(c) = t PROVE FALSE
  <2>1. calls[c].pc = "report" /\ OthersStay(c) /\ calls'[c] = Idle /\ UNCHANGED queue
    BY <1>3, CallIs DEF Report
  <2>2. c \in Workers /\ Busy(c)
    BY <2>1, WhoIsWhere DEF Workers, Busy
  <2>3. queue' = <<>>
    BY <2>1, <2>2, Alone
  <2>4. ASSUME NEW d \in Workers PROVE calls'[d].pc = "idle"
    <3>1. d \in Callers /\ (d # c => ~Busy(d))
      BY <2>2, Alone, WorkersAre
    <3> QED
      BY <2>1, <3>1, IdleIs DEF OthersStay, Busy
  <2>5. Typed'
    BY TypedStep
  <2>6. calls'[Reactor] = Idle /\ calls'[Fiber(t)].pc = "idle"
    BY <2>4, <2>5, WorkersAre, CallersAre DEF Typed, InPlace, Fits
  <2> QED
    BY <2>3, <2>6, IdleIs DEF Pending, Waiting, Taken
<1>4. ~Restart
  BY CallersAre, IdleIs DEF Restart, Pending, Waiting, Taken
<1> QED
  BY <1>1, <1>2, <1>3, <1>4, OutcomeStep

\* No turn has been reported as failed or overwritten, nor has anything else happened after
\* which a turn need not be shown.
Watched ==
  /\ patient /\ ~switched /\ alive /\ ~crashed /\ raced = {}
  /\ \A t \in Turns : outcome[t] # "reported"

\* The start of the turn at work is the last event of the instance, is being ingested, or
\* is shown.
ShownBy(i, t) ==
  IF events[i] # <<>> THEN events[i][Len(events[i])] = StartOf(t)
  ELSE IF ingest # NotIngesting
    THEN ingest.event = StartOf(t) /\ ShownTurn(ingest.seen) \in {NoTurn, t}
    ELSE ShownTurn(session) = t

TurnShown == \A i \in Instances : live[i].turn \in Turns => ShownBy(i, live[i].turn)
NewHasNone == InFlight => \A i \in Instances : live[i].turn \notin Turns
TurnIsShown == Watched => TurnShown /\ NewHasNone

LEMMA WatchedStep ==
  ASSUME Typed, Asked, [Next]_vars, Watched'
  PROVE  Watched /\ \A c \in Callers : ~Report(c)
<1>1. patient /\ ~switched /\ alive /\ ~crashed /\ raced = {}
  BY FlagsStep DEF Watched
<1>2. ASSUME NEW t \in Turns PROVE outcome[t] # "reported"
  <2>1. CASE Deliver(t)
    <3>1. Pending(t)
      BY <2>1, SendIs DEF Pending
    <3> QED
      BY <1>1, <3>1 DEF Asked
  <2>2. CASE outcome'[t] = outcome[t]
    BY <2>2 DEF Watched
  <2>3. ~Restart
    BY DEF Watched, Restart
  <2> QED
    BY <2>1, <2>2, <2>3, OutcomeStep DEF Watched
<1>3. ASSUME NEW c \in Callers, Report(c) PROVE FALSE
  <2>1. TurnOf(c) \in Turns
    BY <1>3, WhoIsWhere DEF Report
  <2>2. outcome'[TurnOf(c)] = "reported"
    BY <1>3, <2>1 DEF Report, Typed, TypeOK
  <2> QED
    BY <2>1, <2>2 DEF Watched
<1> QED
  BY <1>1, <1>2, <1>3 DEF Watched

\* Nothing that happens meanwhile takes the turn from the session.
LEMMA TurnStaysShown ==
  ASSUME Typed, LiveIsShown, TurnIsShown, [Next]_vars, Watched, \A c \in Callers : ~Report(c),
         NEW i \in Instances, live[i].turn \in Turns, UNCHANGED ingest
  PROVE  UNCHANGED session
<1>1. Live(i)
  BY LiveIs, NothingIs DEF Typed
<1>2. ~SetStopped
  BY <1>1 DEF LiveIsShown, NoneLeft, Watched, SetStopped
<1>3. ~Bind
  <2>1. ASSUME Bind PROVE FALSE
    <3>1. InFlight
      BY <2>1, WhoIsWhere, CallersAre
         DEF Bind, Fits, InFlight, Recovering, PlacesOf, ReactorPlaces, StopPlaces, Starts
    <3> QED
      BY <3>1 DEF TurnIsShown, NewHasNone
  <2> QED
    BY <2>1
<1>4. ~IngestWrite
  BY DEF IngestWrite
<1> QED
  BY <1>2, <1>3, <1>4, SessionStep

\* The event that ingestion takes is the start of the turn that is at work, or another
\* event of the same instance before it; what the thread shows then is over.
LEMMA TurnIsTaken ==
  ASSUME Typed, Serial, AtHome, Accounted, TurnIsShown, Watched, [Next]_vars,
         NEW i \in Instances, live[i].turn \in Turns, NEW j \in Instances, IngestRead(j)
  PROVE  ShownBy(i, live[i].turn)'
<1> DEFINE t == live[i].turn
<1>1. Live(i) /\ t \in Turns
  BY LiveIs, NothingIs DEF Typed
<1>2. i = j
  BY <1>1, IngestReadIs, OneLive DEF Watched
<1>3. /\ events[i] \in Seq(RuntimeEvent) /\ events[i] # <<>> /\ events'[i] = Tail(events[i])
      /\ live' = live /\ ingest = NotIngesting
      /\ ingest' = [event |-> Head(events[i]), seen |-> session]
  BY <1>2 DEF IngestRead, Typed, TypeOK, Watched
<1>4. events[i][Len(events[i])] = StartOf(t)
  BY <1>3 DEF TurnIsShown, TurnShown, ShownBy
<1>5. CASE events'[i] # <<>>
  <2>1. events'[i][Len(events'[i])] = StartOf(t)
    BY <1>3, <1>4, <1>5, TailIs
  <2> QED
    BY <1>3, <1>5, <2>1 DEF ShownBy
<1>6. CASE events'[i] = <<>>
  <2>1. Len(events[i]) = 1 /\ Head(events[i]) = StartOf(t) /\ events[i][1] = StartOf(t)
    BY <1>3, <1>4, <1>6, TailIs
  <2>2. ASSUME ShownTurn(session) # NoTurn PROVE ShownTurn(session) = t
    <3>1. Ending(ShownTurn(session))
      <4>1. ingest.event = NoEvent /\ \A u : NoEvent # EndOf(u)
        BY <1>3, IngestingIs DEF NoEvent, EndOf
      <4> QED
        BY <2>2, <4>1 DEF Accounted, ShownEnds, Watched
    <3>2. PICK k \in Instances : ShownTurn(session) \in Working(k) \/ CompletedLater(k, 0, ShownTurn(session))
      BY <3>1 DEF Ending
    <3>3. k = i
      <4>1. ASSUME k # i PROVE FALSE
        <5>1. Quiet(k)
          BY <1>1, <4>1, OneHome DEF Watched, Quiet
        <5>2. Working(k) = {}
          BY <5>1 DEF Quiet, Working, AtWork, Live, Watched
        <5>3. ~CompletedLater(k, 0, ShownTurn(session))
          BY <5>1 DEF Quiet, CompletedLater
        <5> QED
          BY <3>2, <5>2, <5>3
      <4> QED
        BY <4>1
    <3>4. ~CompletedLater(i, 0, ShownTurn(session))
      <4>1. StartOf(t) # EndOf(ShownTurn(session))
        BY DEF StartOf, EndOf
      <4> QED
        BY <2>1, <4>1 DEF CompletedLater
    <3>5. Working(i) = {t}
      <4>1. AtWork(i) = {live[i]} /\ raced = {} /\ t # NoTurn
        BY <1>1, NothingIs DEF AtWork, Live, Serial, Replaced, Watched
      <4> QED
        BY <4>1 DEF Working
    <3> QED
      BY <3>2, <3>3, <3>4, <3>5
  <2>3. ingest' # NotIngesting /\ ingest'.event = StartOf(t) /\ ShownTurn(ingest'.seen) \in {NoTurn, t}
    <3>1. StartOf(t) # NoEvent
      BY DEF StartOf, NoEvent
    <3> QED
      BY <1>3, <2>1, <2>2, <3>1 DEF NotIngesting
  <2> QED
    BY <1>3, <1>6, <2>3 DEF ShownBy, ShownTurn
<1> QED
  BY <1>5, <1>6

\* What is ingested last shows the turn.
LEMMA TurnIsWritten ==
  ASSUME Typed, TurnIsShown, Watched, [Next]_vars, NEW i \in Instances, live[i].turn \in Turns, IngestWrite
  PROVE  ShownBy(i, live[i].turn)'
<1>1. ingest # NotIngesting /\ UNCHANGED <<live, events>> /\ ingest' = NotIngesting
      /\ session' = IF Conflicts(ingest.event, ingest.seen) THEN session ELSE Applied(ingest.event, ingest.seen)
  BY DEF IngestWrite
<1>2. ShownBy(i, live[i].turn)
  BY DEF TurnIsShown, TurnShown
<1>3. CASE events[i] # <<>>
  BY <1>1, <1>2, <1>3 DEF ShownBy
<1>4. CASE events[i] = <<>>
  <2>1. ingest.event = StartOf(live[i].turn) /\ ShownTurn(ingest.seen) \in {NoTurn, live[i].turn}
    BY <1>1, <1>2, <1>4 DEF ShownBy
  <2>2. ~Conflicts(ingest.event, ingest.seen)
    BY <2>1 DEF Conflicts, ShownTurn, StartOf
  <2>3. session' = Applied(ingest.event, ingest.seen) /\ ingest.event \in RuntimeEvent
        /\ ingest.seen \in SessionRow \cup {None}
    BY <1>1, <2>2, IngestingIs
  <2>4. session' \in SessionRow /\ session'.turn = live[i].turn
    BY <2>1, <2>3, AppliedIs DEF StartOf
  <2>5. ShownTurn(session') = live'[i].turn
    BY <1>1, <2>4, NothingIs DEF ShownTurn
  <2> QED
    BY <1>1, <1>4, <2>5 DEF ShownBy, ShownTurn
<1> QED
  BY <1>3, <1>4

LEMMA LastIs ==
  ASSUME NEW s \in Seq(RuntimeEvent), NEW e \in RuntimeEvent
  PROVE  \A all : all = s \o <<e>> => all # <<>> /\ all[Len(all)] = e
<1>0. <<e>> \in Seq(RuntimeEvent) /\ Len(<<e>>) = 1 /\ <<e>>[1] = e
  OBVIOUS
<1>1. PICK q \in Seq(RuntimeEvent) : q = <<e>>
  BY <1>0
<1>2. Len(s \o q) = Len(s) + 1 /\ (s \o q)[Len(s) + 1] = e /\ s \o q # <<>>
  BY <1>0, <1>1
<1> QED
  BY <1>1, <1>2

LEMMA TurnShownStep ==
  ASSUME Typed, Serial, AtHome, Accounted, LiveIsShown, TurnIsShown, Watched,
         \A c \in Callers : ~Report(c), Watched', [Next]_vars
  PROVE  TurnShown'
<1> SUFFICES ASSUME NEW i \in Instances, live'[i].turn \in Turns PROVE ShownBy(i, live[i].turn)'
  BY DEF TurnShown
<1>0. TurnShown /\ patient /\ NoTurn \notin Turns
  BY NothingIs DEF TurnIsShown, Watched
<1>1. CASE Undisturbed(i) /\ UNCHANGED ingest
  <2>1. UNCHANGED session
    BY <1>1, TurnStaysShown DEF Undisturbed
  <2> QED
    BY <1>0, <1>1, <2>1 DEF Undisturbed, TurnShown, ShownBy, ShownTurn
<1>2. CASE \E j \in Instances : IngestRead(j)
  <2>1. live' = live
    BY <1>2 DEF IngestRead
  <2> QED
    BY <1>2, <2>1, TurnIsTaken
<1>3. CASE IngestWrite
  <2>1. live' = live
    BY <1>3 DEF IngestWrite
  <2> QED
    BY <1>3, <2>1, TurnIsWritten
<1>4. ASSUME NEW t \in AllTurns, BeginsTurn(t, i) PROVE ShownBy(i, live[i].turn)'
  <2>1. PICK e \in RuntimeEvent : e = StartOf(t)
    BY DEF StartOf, RuntimeEvent
  <2>2. live'[i].turn = t /\ events'[i] = events[i] \o <<e>>
    BY <1>4, <2>1 DEF BeginsTurn, Begun, StartOf
  <2>3. events[i] \in Seq(RuntimeEvent)
    BY DEF Typed, TypeOK
  <2>4. events'[i] # <<>> /\ events'[i][Len(events'[i])] = e
    BY <2>2, <2>3, LastIs
  <2> QED
    BY <2>1, <2>2, <2>4 DEF ShownBy
<1>7. ASSUME NEW t \in Turns, LosesTurn(t, i) PROVE FALSE
  BY <1>7 DEF LosesTurn, Watched
<1>5. ~Ceases(i) /\ ~OrphanGoes(i) /\ ~Restart
  BY <1>0 DEF Ceases, OrphanGoes, Serial, Replaced, Restart, Watched
<1>6. ASSUME NEW c \in Callers, EntersSession(c, i) PROVE FALSE
  BY <1>0, <1>6 DEF EntersSession, Session
<1> QED
  BY <1>1, <1>2, <1>3, <1>4, <1>5, <1>6, <1>7, InstanceStep, SessionStep DEF EventTaken

LEMMA OwnTurnsAre == \A t \in OwnTurns : t \notin Turns
  BY SessionsAssumption DEF OwnTurns, Turns

\* A session that has just been started has no turn but one of the agent's own, and the one that it replaces is at
\* another instance only if the thread has been switched.
LEMMA NewHasNoneStep ==
  ASSUME Typed, Serial, AtHome, TurnIsShown, Watched, Watched', [Next]_vars
  PROVE  NewHasNone'
<1> SUFFICES ASSUME InFlight', NEW i \in Instances PROVE live'[i].turn \notin Turns
  BY DEF NewHasNone
<1>t. Typed' /\ patient /\ NoTurn \notin Turns
  BY TypedStep, NothingIs DEF Watched
<1>1. CASE InFlight
  <2>1. live[i].turn \notin Turns
    BY <1>1 DEF TurnIsShown, NewHasNone
  <2>2. ASSUME NEW t \in AllTurns, BeginsTurn(t, i) PROVE live'[i].turn \notin Turns
    <3>1. CASE t \in OwnTurns
      BY <2>2, <3>1, OwnTurnsAre DEF BeginsTurn
    <3>2. CASE t \in Turns /\ Sent(t, i)
      <4>1. Fiber(t) \in Workers /\ Busy(Fiber(t)) /\ Reactor \in Workers /\ Busy(Reactor)
        BY <1>1, <3>2, WorkersAre DEF Sent, InFlight, Busy
      <4> QED
        BY <1>t, <3>2, <4>1, Alone, CallersAre
    <3> QED
      BY <2>2, <3>1, <3>2 DEF BeginsTurn
  <2>3. ASSUME NEW c \in Callers, EntersSession(c, i) PROVE live'[i].turn \notin Turns
    BY <1>t, <2>3 DEF EntersSession, Session
  <2>4. ~Restart
    BY DEF Restart, Watched
  <2> QED
    BY <1>t, <2>1, <2>2, <2>3, <2>4, InstanceStep DEF Undisturbed, Ceases, LosesTurn, OrphanGoes, EventTaken
<1>2. CASE StartEnds(Reactor) /\ ~Recovering(Reactor)
  <2>1. PICK j \in Instances : j = calls[Reactor].at
    BY <1>2, CallIs, WhoIsWhere, CallersAre DEF Starts
  <2>2. live' = [live EXCEPT ![j] = Session(calls[Reactor].mode)] /\ calls[Reactor].pc = "spawn"
        /\ (switched' = (switched \/ (binding # None /\ binding.at # j)))
    BY <1>2, <2>1 DEF StartEnds
  <2>3. CASE i = j
    BY <1>t, <2>2, <2>3 DEF Session, Typed, TypeOK
  <2>4. CASE i # j
    <3>1. Quiet(i)
      BY <2>2, <2>4 DEF AtHome, HomeBound, HomeNew, Watched
    <3>2. live'[i] = NoSession
      BY <2>2, <2>4, <3>1 DEF Quiet, Live, Typed, TypeOK
    <3> QED
      BY <1>t, <3>2 DEF NoSession
  <2> QED
    BY <2>3, <2>4
<1> QED
  BY <1>1, <1>2, FlightStep

LEMMA TurnIsShownStep ==
  ASSUME Typed, Serial, AtHome, Accounted, Asked, LiveIsShown, TurnIsShown, [Next]_vars
  PROVE  TurnIsShown'
<1> SUFFICES ASSUME Watched' PROVE TurnShown' /\ NewHasNone'
  BY DEF TurnIsShown
<1>1. Watched /\ \A c \in Callers : ~Report(c)
  BY WatchedStep
<1> QED
  BY <1>1, TurnShownStep, NewHasNoneStep

\* A requested turn that a provider works on is shown as active, so that the reaper leaves
\* its session alone, when the user waits for the server, the thread stays at its instance
\* and no turn has failed, been overwritten or been started in a session that was over: the
\* start of a turn is the last that is reported of it, ingestion drops it only for another
\* turn that is shown, and each of those, the agents' own among them, is over (sendTurn in
\* ClaudeAdapter.ts, conflictsWithActiveTurn in ProviderRuntimeIngestion.ts).
THEOREM SpecRunningIsShown == Spec => []RunningIsShown
<1>1. /\ Typed /\ Serial /\ Asked /\ [Next]_vars => Asked'
      /\ Typed /\ Serial /\ AtHome /\ LiveIsShown /\ [Next]_vars => LiveIsShown'
      /\ Typed /\ Accounted /\ [Next]_vars => Accounted'
  BY AskedStep, LiveIsShownStep, AccountedStep
<1>2. Typed /\ Serial /\ AtHome /\ Accounted /\ Asked /\ LiveIsShown /\ TurnIsShown /\ [Next]_vars
        => TurnIsShown'
  BY TurnIsShownStep
<1>3. Init => Asked /\ LiveIsShown /\ Accounted /\ TurnIsShown
  <2> SUFFICES ASSUME Init PROVE Asked /\ LiveIsShown /\ Accounted /\ TurnIsShown
    OBVIOUS
  <2>1. \A c \in Callers : calls[c] = Idle
    BY DEF Init
  <2>2. Asked /\ ~InFlight
    BY <2>1, CallersAre, IdleIs DEF Init, Asked, Pending, Waiting, Taken, InFlight
  <2>3. TurnIsShown
    BY <2>2, NothingIs DEF Init, TurnIsShown, TurnShown, NewHasNone, NoSession
  <2>4. LiveIsShown
    BY <2>1, CallersAre, IdleIs DEF Init, LiveIsShown, LiveShown, NoneLeft, Live
  <2> QED
    BY <2>2, <2>3, <2>4, AccountedInit
<1>4. TurnIsShown => RunningIsShown
  <2> SUFFICES ASSUME TurnIsShown, Handled, Watched, NEW i \in Instances, live[i].turn \in Turns
               PROVE  session # None /\ session.turn = live[i].turn
    BY DEF RunningIsShown, Watched
  <2>1. ShownTurn(session) = live[i].turn
    BY DEF TurnIsShown, TurnShown, ShownBy, Handled
  <2> QED
    BY <2>1, NothingIs DEF ShownTurn
<1> QED
  BY <1>1, <1>2, <1>3, <1>4, SpecTyped, SpecSerial, SpecAtHome, PTL DEF Spec
=============================================================================
