--------------------------- MODULE ClientSyncProofs ---------------------------
(***************************************************************************)
(* CommandGate's and ClientSync's properties, for any commands, threads,   *)
(* faults and lost connections.                                            *)
(***************************************************************************)
EXTENDS ClientSync, WellFoundedInduction, TLAPS

\* A non-empty set of numbers up to n has a greatest element.
LEMMA MaxOfBounded ==
  ASSUME NEW n \in Nat, NEW S \in SUBSET (0 .. n), S # {}
  PROVE  Max(S) \in S /\ \A x \in S : x <= Max(S)
<1> DEFINE T == {n - x : x \in S}
<1>1. T \subseteq Nat /\ T # {}
  <2>1. \A x \in S : n - x \in Nat
    OBVIOUS
  <2>2. QED
    BY <2>1, Zenon
<1>2. PICK m \in T : \A y \in T : ~(<<y, m>> \in OpToRel(<, Nat))
  BY <1>1, NatLessThanWellFounded, WFMin
<1>3. \A y \in T : ~(y < m)
  BY <1>1, <1>2 DEF OpToRel
<1>4. \E x \in S : \A y \in S : x >= y
  <2>1. PICK x \in S : m = n - x
    OBVIOUS
  <2>2. \A y \in S : n - y \in T
    OBVIOUS
  <2>3. \A y \in S : x >= y
    BY <1>3, <2>1, <2>2
  <2>4. QED  BY <2>3
<1>5. QED
  BY <1>4 DEF Max

-----------------------------------------------------------------------------
(* The gate                                                                *)

\* What the log's events and the commands have for times has been.
TimesArePast ==
  /\ \A c \in Commands : issued[c] <= clock
  /\ \A i \in 1 .. Len(log) : log[i].time <= clock

\* Each call is where its command can be: a bootstrap creates its thread first, only
\* what it has created is deleted again, and what runs runs in a started server, unless
\* it was posted to the HTTP route.
InPlace ==
  \A c \in Commands :
    /\ call[c] = "create" => c \in Creates
    /\ call[c] \in {"worktree", "meta"} => c \in Worktrees
    /\ call[c] \in {"idle", "held", "refused", "create"} => ~created[c]
    /\ call[c] = "cleanup" => created[c]
    /\ created[c] => c \in Creates
    /\ call[c] \in Running => gate = "ready" \/ c \in Posts

ServerInv == GateTypeOK /\ TimesArePast /\ InPlace

\* The steps of the client leave the server alone, but for the faults.
LEMMA ClientFrame ==
  ASSUME ClientNext, GateTypeOK
  PROVE  UNCHANGED serverVars /\ faults' \in 0 .. MaxFaults
BY GateAssumption DEF ClientNext, ClientStep, Subscribe, ApplySnapshot, Deliver, LoseConnection,
  Fault, gateVars, serverVars, GateTypeOK

\* The events that a command adds to the log.
LEMMA BlockType ==
  ASSUME GateTypeOK, NEW c \in Commands, NEW t \in Threads,
         NEW kind \in {"created", "updated", "turn", "deleted"}, NEW now \in Nat
  PROVE  /\ Block(c, t, kind, now) \in Seq(Events)
         /\ Len(Block(c, t, kind, now)) = IF kind = "turn" THEN 2 ELSE 1
         /\ \A i \in 1 .. Len(Block(c, t, kind, now)) :
              /\ Block(c, t, kind, now)[i].thread = t /\ Block(c, t, kind, now)[i].cmd = c
              /\ Block(c, t, kind, now)[i].time \in {issued[c], now}
         /\ kind = "turn" => LET e == Block(c, t, kind, now)[2] IN e.cmd = c /\ e.kind = "turn"
         /\ kind = "deleted" => Block(c, t, kind, now)[1].kind = "deleted"
<1>1. issued[c] \in Nat
  BY DEF GateTypeOK
<1>2. \A k \in {"created", "updated", "turn", "deleted", "message"}, n \in Nat :
        Event(c, t, k, n) \in Events
  BY DEF Event, Events
<1>3. CASE kind = "turn"
  <2> DEFINE b == Block(c, t, kind, now)
             m == Event(c, t, "message", issued[c])
             e == Event(c, t, "turn", issued[c])
  <2>1. b = <<m, e>>
    BY <1>3 DEF Block
  <2>2. m \in Events /\ e \in Events
    BY <1>1, <1>2
  <2>3. /\ m.thread = t /\ m.time = issued[c] /\ m.cmd = c
        /\ e.thread = t /\ e.time = issued[c] /\ e.cmd = c /\ e.kind = "turn"
    BY DEF Event
  <2> HIDE DEF m, e
  <2>4. b \in Seq(Events) /\ Len(b) = 2 /\ b[1] = m /\ b[2] = e
    BY <2>1, <2>2
  <2> HIDE DEF b
  <2>5. \A i \in 1 .. Len(b) : b[i] = m \/ b[i] = e
    BY <2>4
  <2>6. QED
    BY <1>3, <2>3, <2>4, <2>5 DEF b
<1>4. CASE kind = "created"
  <2> DEFINE b == Block(c, t, kind, now)
  <2>1. b = <<Event(c, t, kind, issued[c])>>
    BY <1>4 DEF Block
  <2>2. Event(c, t, kind, issued[c]) \in Events
    BY <1>1, <1>2, <1>4
  <2>3. /\ Event(c, t, kind, issued[c]).thread = t /\ Event(c, t, kind, issued[c]).cmd = c
        /\ Event(c, t, kind, issued[c]).time = issued[c]
        /\ Event(c, t, kind, issued[c]).kind = kind
    BY DEF Event
  <2>4. b \in Seq(Events) /\ Len(b) = 1 /\ b[1] = Event(c, t, kind, issued[c])
    BY <2>1, <2>2
  <2> HIDE DEF b
  <2>5. \A i \in 1 .. Len(b) : b[i] = Event(c, t, kind, issued[c])
    BY <2>4
  <2>6. QED
    BY <1>4, <2>3, <2>4, <2>5 DEF b
<1>5. CASE kind \in {"updated", "deleted"}
  <2> DEFINE b == Block(c, t, kind, now)
  <2>1. b = <<Event(c, t, kind, now)>>
    BY <1>5 DEF Block
  <2>2. Event(c, t, kind, now) \in Events
    BY <1>1, <1>2, <1>5
  <2>3. /\ Event(c, t, kind, now).thread = t /\ Event(c, t, kind, now).cmd = c
        /\ Event(c, t, kind, now).time = now
        /\ Event(c, t, kind, now).kind = kind
    BY DEF Event
  <2>4. b \in Seq(Events) /\ Len(b) = 1 /\ b[1] = Event(c, t, kind, now)
    BY <2>1, <2>2
  <2> HIDE DEF b
  <2>5. \A i \in 1 .. Len(b) : b[i] = Event(c, t, kind, now)
    BY <2>4
  <2>6. QED
    BY <1>5, <2>3, <2>4, <2>5 DEF b
<1>6. QED
  BY <1>3, <1>4, <1>5

\* A commit appends events of its command and thread.
LEMMA CommitAppends ==
  ASSUME GateTypeOK, TimesArePast, NEW c \in Commands, NEW t \in Threads,
         NEW kind \in {"created", "updated", "turn", "deleted"}, Commit(c, t, kind)
  PROVE  /\ log' \in Seq(Events) /\ clock' \in Nat /\ clock' = clock + 1 /\ faults' = faults
         /\ Len(log') > Len(log) /\ \A i \in 1 .. Len(log) : log'[i] = log[i]
         /\ \A i \in Len(log) + 1 .. Len(log') : log'[i].thread = t /\ log'[i].cmd = c
         /\ \A i \in 1 .. Len(log') : log'[i].time <= clock'
         /\ kind = "turn" => \E i \in 1 .. Len(log') : log'[i].cmd = c /\ log'[i].kind = "turn"
         /\ kind = "deleted" =>
              \E i \in 1 .. Len(log') : log'[i].thread = t /\ log'[i].kind = "deleted"
<1> DEFINE b == Block(c, t, kind, clock')
<1>1. clock' = clock + 1 /\ clock' \in Nat /\ log' = log \o b /\ faults' = faults
  BY DEF Commit, GateTypeOK
<1>2. b \in Seq(Events) /\ log \in Seq(Events)
  BY <1>1, BlockType DEF GateTypeOK
<1>3. /\ log' \in Seq(Events) /\ Len(log') = Len(log) + Len(b)
      /\ \A i \in 1 .. Len(log) : log'[i] = log[i]
      /\ \A i \in 1 .. Len(b) : log'[Len(log) + i] = b[i]
      /\ \A i \in Len(log) + 1 .. Len(log') : i - Len(log) \in 1 .. Len(b) /\ log'[i] = b[i - Len(log)]
  BY <1>1, <1>2
<1>4. /\ Len(b) \in {1, 2}
      /\ \A i \in 1 .. Len(b) :
           b[i].thread = t /\ b[i].cmd = c /\ b[i].time \in {issued[c], clock'}
      /\ kind = "turn" => Len(b) = 2 /\ b[2].cmd = c /\ b[2].kind = "turn"
      /\ kind = "deleted" => b[1].kind = "deleted"
  BY <1>1, BlockType
<1>5. \A i \in 1 .. Len(log') : log'[i].time <= clock'
  <2>1. issued[c] <= clock' /\ issued[c] \in Nat
    BY <1>1 DEF TimesArePast, GateTypeOK
  <2>2. ASSUME NEW i \in 1 .. Len(log) PROVE log'[i].time <= clock'
    <3>1. log[i] \in Events
      BY <1>2
    <3>2. log[i].time \in Nat /\ log[i].time <= clock /\ clock \in Nat
      BY <3>1 DEF Events, TimesArePast, GateTypeOK
    <3>3. QED
      BY <1>1, <1>3, <3>2
  <2>3. ASSUME NEW i \in Len(log) + 1 .. Len(log') PROVE log'[i].time <= clock'
    <3>1. log'[i].time \in {issued[c], clock'}
      BY <1>3, <1>4
    <3>2. QED
      BY <1>1, <2>1, <3>1
  <2>4. Len(log) \in Nat /\ Len(log') \in Nat
    BY <1>2, <1>3
  <2>5. QED
    BY <2>2, <2>3, <2>4
<1>6. ASSUME kind = "turn" PROVE \E i \in 1 .. Len(log') : log'[i].cmd = c /\ log'[i].kind = "turn"
  <2>1. log'[Len(log) + 2] = b[2] /\ Len(log) + 2 \in 1 .. Len(log')
    BY <1>2, <1>3, <1>4, <1>6
  <2>2. QED
    BY <1>4, <1>6, <2>1
<1>7. ASSUME kind = "deleted"
      PROVE  \E i \in 1 .. Len(log') : log'[i].thread = t /\ log'[i].kind = "deleted"
  <2>1. Len(log) \in Nat /\ 1 \in 1 .. Len(b)
    <3>1. Len(log) \in Nat
      BY <1>2
    <3>2. Len(b) = 1 \/ Len(b) = 2
      BY <1>4
    <3>3. QED
      BY <3>1, <3>2
  <2>2. log'[Len(log) + 1] = b[1] /\ Len(log) + 1 \in 1 .. Len(log')
    BY <1>3, <2>1
  <2>3. b[1].kind = "deleted" /\ b[1].thread = t
    BY <1>4, <1>7, <2>1
  <2>4. QED
    BY <2>2, <2>3
<1>8. \A i \in Len(log) + 1 .. Len(log') : log'[i].thread = t /\ log'[i].cmd = c
  BY <1>3, <1>4
<1>9. Len(log') > Len(log)
  BY <1>2, <1>3, <1>4
<1>10. QED
  BY <1>1, <1>2, <1>3, <1>5, <1>6, <1>7, <1>8, <1>9

CallStates == [Commands -> {"idle", "held"} \cup Running \cup Ended]

\* A refused command leaves the log as it is, and costs at most a fault.
LEMMA RefusalKeepsLog ==
  ASSUME GateTypeOK, NEW t, NEW kind, Refuse(t, kind)
  PROVE  UNCHANGED <<clock, log>> /\ faults' \in 0 .. MaxFaults
BY GateAssumption DEF GateTypeOK, Refuse, Fault

\* A call that goes on is of its type.
LEMMA GoTypes ==
  ASSUME GateTypeOK, NEW c \in Commands, NEW pc \in Running \cup Ended, Go(c, pc)
  PROVE  call' \in CallStates /\ worker' \in Commands \cup {None}
BY DEF GateTypeOK, Go, CallStates

\* A call that fails is of its type.
LEMMA FailsTypes ==
  ASSUME GateTypeOK, NEW c \in Commands, Fails(c)
  PROVE  call' \in CallStates /\ worker' \in Commands \cup {None}
<1>1. PICK pc \in {"cleanup", "failed"} : Go(c, pc)
  BY DEF Fails
<1>2. QED
  BY <1>1, GoTypes DEF Running, Ended

\* A step of a call that runs: what it may do to the log, and to the call.
LEMMA RunStepShape ==
  ASSUME ServerInv, NEW c \in Commands, RunStep(c)
  PROVE  /\ call[c] \in Running /\ UNCHANGED <<gate, held, issued, published>>
         /\ \/ UNCHANGED <<clock, log>> /\ faults' \in 0 .. MaxFaults
            \/ \E t \in Threads, kind \in {"created", "updated", "turn", "deleted"} : Commit(c, t, kind)
         /\ call' \in CallStates /\ worker' \in Commands \cup {None}
         /\ created' \in [Commands -> BOOLEAN]
         /\ \A d \in Commands : d # c => call'[d] = call[d] /\ created'[d] = created[d]
<1> USE DEF Running, Ended
<1>1. created \in [Commands -> BOOLEAN] /\ call \in CallStates /\ c \in Commands
  BY DEF ServerInv, GateTypeOK, CallStates
<1>2. c \in Bootstraps => ThreadOf[c] \in Threads
  BY GateAssumption
<1>3. ASSUME NEW pc \in Running \cup Ended, Go(c, pc)
      PROVE  /\ call' \in CallStates /\ worker' \in Commands \cup {None}
             /\ \A d \in Commands : d # c => call'[d] = call[d]
  BY <1>1, <1>3, GoTypes DEF Go, CallStates, ServerInv
<1>4. ASSUME Fails(c)
      PROVE  /\ call' \in CallStates /\ worker' \in Commands \cup {None}
             /\ \A d \in Commands : d # c => call'[d] = call[d]
  BY <1>3, <1>4 DEF Fails
<1>5. CASE CreateThread(c)
  <2>1. c \in Bootstraps
    BY <1>5 DEF CreateThread, ServerInv, InPlace, Bootstraps
  <2>2. CASE /\ Commit(c, ThreadOf[c], "created")
             /\ created' = [created EXCEPT ![c] = TRUE]
             /\ Go(c, IF c \in Worktrees THEN "worktree" ELSE "final")
    BY <1>1, <1>2, <1>3, <1>5, <2>1, <2>2 DEF CreateThread
  <2>3. CASE Refuse(ThreadOf[c], "created") /\ Fails(c) /\ UNCHANGED created
    BY <1>1, <1>4, <1>5, <2>3, RefusalKeepsLog DEF CreateThread, ServerInv
  <2>4. QED
    BY <1>5, <2>2, <2>3 DEF CreateThread
<1>6. CASE MakeWorktree(c)
  <2>1. faults' \in 0 .. MaxFaults
    BY <1>6, GateAssumption DEF MakeWorktree, Fault, ServerInv, GateTypeOK
  <2>2. QED
    BY <1>1, <1>3, <1>4, <1>6, <2>1 DEF MakeWorktree
<1>7. CASE NoteWorktree(c)
  <2>1. c \in Bootstraps
    BY <1>7 DEF NoteWorktree, ServerInv, InPlace, Bootstraps
  <2>2. CASE Commit(c, ThreadOf[c], "updated") /\ Go(c, "final")
    BY <1>1, <1>2, <1>3, <1>7, <2>1, <2>2 DEF NoteWorktree
  <2>3. CASE Refuse(ThreadOf[c], "updated") /\ Fails(c)
    BY <1>1, <1>4, <1>7, <2>3, RefusalKeepsLog DEF NoteWorktree, ServerInv
  <2>4. QED
    BY <1>7, <2>2, <2>3 DEF NoteWorktree
<1>8. CASE DispatchFinal(c)
  <2>1. PICK k \in Final(c) : \/ Commit(c, k[1], k[2]) /\ Go(c, "done")
                              \/ Refuse(k[1], k[2]) /\ Fails(c)
    BY <1>8 DEF DispatchFinal
  <2>2. k[1] \in Threads /\ k[2] \in {"created", "updated", "turn", "deleted"}
    BY <1>2 DEF Final
  <2>3. CASE Commit(c, k[1], k[2]) /\ Go(c, "done")
    BY <1>1, <1>3, <1>8, <2>2, <2>3 DEF DispatchFinal
  <2>4. CASE Refuse(k[1], k[2]) /\ Fails(c)
    BY <1>1, <1>4, <1>8, <2>4, RefusalKeepsLog DEF DispatchFinal, ServerInv
  <2>5. QED
    BY <2>1, <2>3, <2>4
<1>9. CASE Cleanup(c)
  <2>1. c \in Bootstraps
    BY <1>9 DEF Cleanup, ServerInv, InPlace, Bootstraps
  <2>2. CASE Commit(c, ThreadOf[c], "deleted") /\ Go(c, "failed")
    BY <1>1, <1>2, <1>3, <1>9, <2>1, <2>2 DEF Cleanup
  <2>3. CASE Refuse(ThreadOf[c], "deleted") /\ Go(c, "left")
    BY <1>1, <1>3, <1>9, <2>3, RefusalKeepsLog DEF Cleanup, ServerInv
  <2>4. QED
    BY <1>9, <2>2, <2>3 DEF Cleanup
<1>10. QED
  BY <1>5, <1>6, <1>7, <1>8, <1>9 DEF RunStep

\* What the log holds it keeps, and what comes has a time that has been.
LEMMA RunStepLog ==
  ASSUME ServerInv, NEW c \in Commands, RunStep(c)
  PROVE  /\ log' \in Seq(Events) /\ clock' \in Nat /\ clock <= clock' /\ faults' \in 0 .. MaxFaults
         /\ Len(log') >= Len(log) /\ \A i \in 1 .. Len(log) : log'[i] = log[i]
         /\ \A i \in 1 .. Len(log') : log'[i].time <= clock'
<1>1. CASE UNCHANGED <<clock, log>> /\ faults' \in 0 .. MaxFaults
  BY <1>1 DEF ServerInv, GateTypeOK, TimesArePast
<1>2. ASSUME NEW t \in Threads, NEW kind \in {"created", "updated", "turn", "deleted"},
             Commit(c, t, kind)
      PROVE  /\ log' \in Seq(Events) /\ clock' = clock + 1 /\ faults' = faults
             /\ Len(log') > Len(log) /\ \A i \in 1 .. Len(log) : log'[i] = log[i]
             /\ \A i \in 1 .. Len(log') : log'[i].time <= clock'
  BY <1>2, CommitAppends DEF ServerInv
<1>3. ASSUME NEW t \in Threads, NEW kind \in {"created", "updated", "turn", "deleted"},
             Commit(c, t, kind)
      PROVE  /\ clock' \in Nat /\ clock <= clock' /\ faults' \in 0 .. MaxFaults
             /\ Len(log') >= Len(log)
  BY <1>2, <1>3 DEF ServerInv, GateTypeOK
<1>4. QED
  BY <1>1, <1>2, <1>3, RunStepShape

\* What the server writes of its own accord is one event, of no command.
LEMMA ServerAppends ==
  ASSUME ServerInv, ServerWrites
  PROVE  /\ log' \in Seq(Events) /\ clock' = clock + 1 /\ clock' \in Nat
         /\ Len(log') = Len(log) + 1 /\ \A i \in 1 .. Len(log) : log'[i] = log[i]
         /\ log'[Len(log) + 1].cmd = None
         /\ \A i \in 1 .. Len(log') : log'[i].time <= clock'
         /\ UNCHANGED <<gate, held, worker, call, created, issued, published, faults>>
<1>1. log \in Seq(Events) /\ clock \in Nat /\ clock' = clock + 1 /\ clock' \in Nat
  BY DEF ServerWrites, ServerInv, GateTypeOK
<1>2. PICK t \in Threads, kind \in {"created", "updated"}, time \in 0 .. clock' :
        log' = Append(log, Event(None, t, kind, time))
  BY DEF ServerWrites
<1> DEFINE e == Event(None, t, kind, time)
<1>3. e \in Events /\ e.cmd = None /\ e.time = time
  BY <1>1 DEF Event, Events, None
<1> HIDE DEF e
<1>4. /\ log' \in Seq(Events) /\ Len(log') = Len(log) + 1 /\ log'[Len(log) + 1] = e
      /\ \A i \in 1 .. Len(log) : log'[i] = log[i]
  BY <1>1, <1>2, <1>3 DEF e
<1>5. ASSUME NEW i \in 1 .. Len(log') PROVE log'[i].time <= clock'
  <2>1. CASE i \in 1 .. Len(log)
    <3>1. log[i] \in Events
      BY <1>1, <2>1
    <3>2. log[i].time \in Nat /\ log[i].time <= clock
      BY <2>1, <3>1 DEF Events, ServerInv, TimesArePast
    <3>3. QED
      BY <1>1, <1>4, <2>1, <3>2
  <2>2. CASE i = Len(log) + 1
    BY <1>1, <1>3, <1>4, <2>2
  <2>3. QED
    BY <1>1, <1>4, <2>1, <2>2
<1>6. QED
  BY <1>1, <1>3, <1>4, <1>5 DEF ServerWrites

\* The server's invariant, whatever the clients do: types, times and places.
THEOREM ServerIsSound == Spec => []ServerInv
<1>1. Init => ServerInv
  <2> SUFFICES ASSUME Init PROVE ServerInv
    OBVIOUS
  <2>1. GateTypeOK
    BY GateAssumption DEF Init, GateInit, GateTypeOK, Running, Ended
  <2>2. TimesArePast
    BY GateAssumption DEF Init, GateInit, TimesArePast
  <2>3. InPlace
    BY DEF Init, GateInit, InPlace, Running
  <2>4. QED
    BY <2>1, <2>2, <2>3 DEF ServerInv
<1>2. ServerInv /\ [Next]_vars => ServerInv'
  <2> SUFFICES ASSUME ServerInv, [Next]_vars PROVE ServerInv'
    OBVIOUS
  <2> USE DEF ServerInv
  <2>1. ASSUME NEW c \in Commands, Enqueue(c) PROVE ServerInv'
    <3>1. FirstStep(c) \in Running
      BY DEF FirstStep, Running
    <3>2. call' \in CallStates
      BY <2>1, <3>1 DEF Enqueue, GateTypeOK, CallStates, Ended
    <3>3. held' \in Seq(Commands) /\ issued' \in [Commands -> Nat]
      <4>1. held \in Seq(Commands) /\ Append(held, c) \in Seq(Commands)
        BY DEF GateTypeOK
      <4>2. held' = held \/ held' = Append(held, c)
        BY <2>1 DEF Enqueue
      <4>3. issued' \in [Commands -> Nat]
        BY <2>1 DEF Enqueue, GateTypeOK
      <4>4. QED
        BY <4>1, <4>2, <4>3
    <3>4. GateTypeOK'
      BY <2>1, <3>2, <3>3 DEF Enqueue, GateTypeOK, CallStates
    <3>5. TimesArePast'
      BY <2>1 DEF Enqueue, GateTypeOK, TimesArePast
    <3>6. /\ FirstStep(c) = "create" => c \in Creates
          /\ FirstStep(c) \in {"worktree", "meta"} => c \in Worktrees
          /\ FirstStep(c) \in {"create", "worktree", "final"}
      BY DEF FirstStep
    <3>7. InPlace'
      BY <2>1, <3>1, <3>6 DEF Enqueue, GateTypeOK, InPlace, Running
    <3>8. QED
      BY <3>4, <3>5, <3>7
  <2>2. ASSUME NEW c \in Commands, RunStep(c) PROVE ServerInv'
    <3>1. Len(log) \in Nat /\ Len(log') \in Nat
      BY <2>2, RunStepLog DEF GateTypeOK
    <3>2. GateTypeOK'
      <4>1. published' = published /\ published' \in 0 .. Len(log')
        BY <2>2, <3>1, RunStepShape, RunStepLog DEF GateTypeOK
      <4>2. /\ gate' = gate /\ held' = held /\ issued' = issued
            /\ call' \in CallStates /\ worker' \in Commands \cup {None}
            /\ created' \in [Commands -> BOOLEAN]
        BY <2>2, RunStepShape
      <4>3. log' \in Seq(Events) /\ clock' \in Nat /\ faults' \in 0 .. MaxFaults
        BY <2>2, RunStepLog
      <4>4. QED
        BY <4>1, <4>2, <4>3 DEF GateTypeOK, CallStates
    <3>3. TimesArePast'
      BY <2>2, RunStepShape, RunStepLog DEF GateTypeOK, TimesArePast
    <3>4. \A d \in Commands : d # c => call'[d] = call[d] /\ created'[d] = created[d]
      BY <2>2, RunStepShape
    <3>5. gate' = gate /\ (gate = "ready" \/ c \in Posts)
      BY <2>2, RunStepShape DEF InPlace
    <3>6. InPlace' 
      BY <2>2, <3>4, <3>5
      DEF RunStep, CreateThread, MakeWorktree, NoteWorktree, DispatchFinal, Cleanup, Fails, Go,
          InPlace, GateTypeOK, Running
    <3>7. QED
      BY <3>2, <3>3, <3>6
  <2>3. ASSUME NEW c \in Commands, Interrupt(c) PROVE ServerInv'
    <3>1. GateTypeOK'
      BY <2>3, GoTypes DEF Interrupt, GateTypeOK, Running, Ended, CallStates
    <3>2. TimesArePast' /\ InPlace'
      BY <2>3 DEF Interrupt, Go, TimesArePast, InPlace, GateTypeOK, Running
    <3>3. QED
      BY <3>1, <3>2
  <2>4. CASE StartupEnds
    BY <2>4 DEF StartupEnds, GateTypeOK, TimesArePast, InPlace
  <2>5. CASE WorkerTakes
    BY <2>5 DEF WorkerTakes, GateTypeOK, TimesArePast, InPlace
  <2>6. CASE WorkerBegins
    BY <2>6 DEF WorkerBegins, FirstStep, GateTypeOK, TimesArePast, InPlace, Running, Ended
  <2>7. CASE Publish
    BY <2>7 DEF Publish, GateTypeOK, TimesArePast, InPlace
  <2>8. CASE ClientNext
    BY <2>8, ClientFrame DEF serverVars, GateTypeOK, TimesArePast, InPlace
  <2>9. CASE UNCHANGED vars
    BY <2>9 DEF vars, gateVars, GateTypeOK, TimesArePast, InPlace
  <2>10. ASSUME NEW c \in Commands, Post(c) PROVE ServerInv'
    <3>1. GateTypeOK'
      BY <2>10 DEF Post, GateTypeOK, Running
    <3>2. TimesArePast'
      BY <2>10 DEF Post, GateTypeOK, TimesArePast
    <3>3. InPlace'
      BY <2>10 DEF Post, GateTypeOK, InPlace, Running
    <3>4. QED
      BY <3>1, <3>2, <3>3
  <2>11. CASE ServerWrites
    <3>1. Len(log) \in Nat /\ published \in 0 .. Len(log) /\ clock \in Nat
      BY DEF GateTypeOK
    <3>2. published' \in 0 .. Len(log')
      BY <2>11, <3>1, ServerAppends
    <3>3. GateTypeOK'
      BY <2>11, <3>2, ServerAppends DEF GateTypeOK
    <3>4. TimesArePast'
      BY <2>11, <3>1, ServerAppends DEF TimesArePast, GateTypeOK
    <3>5. InPlace'
      BY <2>11, ServerAppends DEF InPlace
    <3>6. QED
      BY <3>3, <3>4, <3>5
  <2>12. QED
    BY <2>1, <2>2, <2>3, <2>4, <2>5, <2>6, <2>7, <2>8, <2>9, <2>10, <2>11
    DEF Next, ServerNext, GateNext, GateWorker
<1>3. QED
  BY <1>1, <1>2, PTL DEF Spec

-----------------------------------------------------------------------------
\* What is written before the server has started, or after it has failed to, is posted
\* to the HTTP route or the server's own, and never a command of a client's socket:
\* OnlyWhenReady, for any commands.
THEOREM WritesWhenReady == Spec => OnlyWhenReady
<1>1. ServerInv /\ [Next]_vars =>
        [\A i \in Len(log) + 1 .. Len(log') :
           log'[i].cmd \in Commands \ Posts => gate = "ready"]_gateVars
  <2> SUFFICES ASSUME ServerInv, [Next]_vars, NEW i \in Len(log) + 1 .. Len(log'),
                      log'[i].cmd \in Commands \ Posts
               PROVE  gate = "ready"
    OBVIOUS
  <2>0. Len(log) \in Nat
    BY DEF ServerInv, GateTypeOK
  <2>1. CASE UNCHANGED log
    BY <2>0, <2>1
  <2>2. CASE ServerWrites
    <3>1. Len(log') = Len(log) + 1 /\ log'[Len(log) + 1].cmd = None
      BY <2>2, ServerAppends
    <3>2. i = Len(log) + 1
      BY <2>0, <3>1
    <3>3. QED
      BY <3>1, <3>2, GateAssumption DEF None
  <2>3. ASSUME NEW c \in Commands, RunStep(c) PROVE gate = "ready"
    <3>1. CASE UNCHANGED <<clock, log>>
      BY <2>1, <3>1
    <3>2. ASSUME NEW t \in Threads, NEW kind \in {"created", "updated", "turn", "deleted"},
                 Commit(c, t, kind)
          PROVE  gate = "ready"
      <4>1. log'[i].cmd = c
        BY <3>2, CommitAppends DEF ServerInv
      <4>2. call[c] \in Running
        BY <2>3, RunStepShape
      <4>3. QED
        BY <4>1, <4>2 DEF ServerInv, InPlace
    <3>3. QED
      BY <2>3, <3>1, <3>2, RunStepShape
  <2>4. QED
    BY <2>1, <2>2, <2>3, ClientFrame DEF Next, ServerNext, GateNext, GateWorker, Enqueue, Post,
      Interrupt, StartupEnds, WorkerTakes, WorkerBegins, Publish, serverVars, vars, gateVars,
      ServerInv
<1>2. QED
  BY ServerIsSound, <1>1, PTL DEF Spec, OnlyWhenReady

\* The log only grows, in every step.
LEMMA LogGrows ==
  ASSUME ServerInv, [Next]_vars
  PROVE  /\ log' \in Seq(Events) /\ log \in Seq(Events) /\ Len(log') >= Len(log)
         /\ \A i \in 1 .. Len(log) : log'[i] = log[i]
<1>1. CASE UNCHANGED log
  BY <1>1 DEF ServerInv, GateTypeOK
<1>2. ASSUME NEW c \in Commands, RunStep(c)
      PROVE  /\ log' \in Seq(Events) /\ log \in Seq(Events) /\ Len(log') >= Len(log)
             /\ \A i \in 1 .. Len(log) : log'[i] = log[i]
  BY <1>2, RunStepLog DEF ServerInv, GateTypeOK
<1>3. CASE ServerWrites
  <2>1. Len(log) \in Nat /\ log \in Seq(Events)
    BY DEF ServerInv, GateTypeOK
  <2>2. QED
    BY <1>3, <2>1, ServerAppends
<1>4. QED
  BY <1>1, <1>2, <1>3, ClientFrame DEF Next, ServerNext, GateNext, GateWorker, Enqueue, Post,
    Interrupt, StartupEnds, WorkerTakes, WorkerBegins, Publish, ServerInv, serverVars, vars,
    gateVars

\* A bootstrap that is over has done everything or nothing: BootstrapIsWhole, for
\* any commands.  A thread that is deleted stays so, and a turn stays in the log.
THEOREM BootstrapsAreWhole == Spec => []BootstrapIsWhole
<1>1. Init => BootstrapIsWhole
  <2> SUFFICES ASSUME Init, NEW c \in Creates PROVE ~created[c]
    BY DEF BootstrapIsWhole
  <2>1. QED
    BY GateAssumption DEF Init, GateInit, Bootstraps
<1>2. ServerInv /\ BootstrapIsWhole /\ [Next]_vars => BootstrapIsWhole'
  <2> SUFFICES ASSUME ServerInv, BootstrapIsWhole, [Next]_vars,
                      NEW d \in Creates, created'[d], call'[d] \in Ended,
                      call'[d] \notin {"interrupted", "left"}
               PROVE  \/ Deleted(ThreadOf[d])'
                      \/ \E i \in 1 .. Len(log') : log'[i].cmd = d /\ log'[i].kind = "turn"
    BY DEF BootstrapIsWhole
  <2> USE DEF Deleted
  <2>0. d \in Commands /\ d \in Bootstraps /\ ThreadOf[d] \in Threads
    BY GateAssumption DEF Bootstraps
  <2>1. CASE call'[d] = call[d] /\ created'[d] = created[d]
    <3>1. Len(log) \in Nat /\ Len(log') \in Nat /\ Len(log') >= Len(log)
          /\ \A i \in 1 .. Len(log) : i \in 1 .. Len(log') /\ log'[i] = log[i]
      BY LogGrows
    <3>2. QED
      BY <2>1, <3>1 DEF BootstrapIsWhole
  <2>2. CASE RunStep(d)
    <3>1. call \in CallStates /\ created \in [Commands -> BOOLEAN]
      BY DEF ServerInv, GateTypeOK, CallStates
    <3>2. CASE CreateThread(d)
      BY <2>0, <3>1, <3>2 DEF CreateThread, Fails, Go, CallStates, Ended, ServerInv, InPlace
    <3>3. CASE MakeWorktree(d) \/ NoteWorktree(d)
      BY <2>0, <3>1, <3>3 DEF MakeWorktree, NoteWorktree, Fails, Go, CallStates, Ended
    <3>4. CASE DispatchFinal(d)
      <4>1. PICK k \in Final(d) : \/ Commit(d, k[1], k[2]) /\ Go(d, "done")
                                  \/ Refuse(k[1], k[2]) /\ Fails(d)
        BY <3>4 DEF DispatchFinal
      <4>2. k[1] = ThreadOf[d] /\ k[2] = "turn"
        BY <2>0 DEF Final
      <4>3. CASE Commit(d, k[1], k[2])
        BY <2>0, <4>2, <4>3, CommitAppends DEF ServerInv
      <4>4. CASE Fails(d)
        BY <2>0, <3>1, <3>4, <4>4 DEF DispatchFinal, Fails, Go, CallStates, Ended
      <4>5. QED
        BY <4>1, <4>3, <4>4
    <3>5. CASE Cleanup(d)
      <4>1. CASE Commit(d, ThreadOf[d], "deleted")
        BY <2>0, <4>1, CommitAppends DEF ServerInv
      <4>2. CASE Go(d, "left")
        BY <2>0, <3>1, <4>2 DEF Go, CallStates
      <4>3. QED
        BY <3>5, <4>1, <4>2 DEF Cleanup
    <3>6. QED
      BY <2>2, <3>2, <3>3, <3>4, <3>5 DEF RunStep
  <2>3. ASSUME NEW c \in Commands, c # d, RunStep(c) PROVE call'[d] = call[d] /\ created'[d] = created[d]
    BY <2>0, <2>3, RunStepShape
  <2>4. ASSUME NEW c \in Commands, Enqueue(c) \/ Post(c) \/ Interrupt(c)
        PROVE  call'[d] = call[d] /\ created'[d] = created[d]
    BY <2>0, <2>4
    DEF Enqueue, Post, Interrupt, Go, ServerInv, GateTypeOK, InPlace, Ended, Running
  <2>5. CASE WorkerBegins
    BY <2>0, <2>1, <2>5 DEF WorkerBegins, ServerInv, GateTypeOK, InPlace
  <2>6. CASE \/ StartupEnds \/ WorkerTakes \/ ServerWrites \/ Publish \/ ClientNext
             \/ UNCHANGED vars
    <3>1. UNCHANGED <<call, created>>
      BY <2>6, ClientFrame
      DEF StartupEnds, ServerWrites, WorkerTakes, Publish, vars, gateVars, serverVars, ServerInv
    <3>2. QED
      BY <2>1, <3>1
  <2>7. QED
    BY <2>1, <2>2, <2>3, <2>4, <2>5, <2>6 DEF Next, ServerNext, GateNext, GateWorker
<1>3. QED
  BY ServerIsSound, <1>1, <1>2, PTL DEF Spec

-----------------------------------------------------------------------------
(* The client                                                              *)

ClientTypes ==
  /\ stream \in {"none", "sent", "live", "over"}
  /\ applied \in [seq : Int, at : Int] /\ base \in Int
  /\ snap \in [seq : Nat, at : Nat, rows : [Threads -> Nat]]
  /\ next \in Nat
  /\ shown \in [Threads -> Nat]
  /\ skipped \in BOOLEAN

\* What is shown of a thread is one of its events.
ShownInLog == \A t \in Threads : shown[t] = Absent \/ shown[t] \in Of(t, Len(log))

\* The version of the client is one the store has had; as long as it is that of
\* the last snapshot applied, the client shows this snapshot.
Versions ==
  /\ base <= applied.seq /\ applied.seq <= Len(log)
  /\ base = applied.seq => \A t \in Threads : shown[t] = Row(t, base)

\* A snapshot on its way has all the client can have.
SnapshotIsLater ==
  stream = "sent" =>
    /\ snap.seq <= Len(log) /\ applied.seq <= snap.seq
    /\ \A t \in Threads : snap.rows[t] = Row(t, snap.seq) /\ shown[t] <= snap.seq

\* The events of a thread that the client has still to take, or does not get.
Pending(t) ==
  {i \in Of(t, Len(log)) : i \in missed \/ (i >= next /\ i > applied.seq)}

\* A thread without such events is shown as it is; one whose deletion is not
\* among them is not shown.
LiveIsCurrent ==
  stream = "live" =>
    /\ next \in 1 .. published + 1
    /\ ~skipped => \A t \in Threads :
         /\ shown[t] = Row(t, Len(log)) \/ Pending(t) # {}
         /\ \A d \in Of(t, Len(log)) :
              log[d].kind = "deleted" => shown[t] = Absent \/ d \in Pending(t)

ClientInv == ClientTypes /\ ShownInLog /\ Versions /\ SnapshotIsLater /\ LiveIsCurrent

\* The row of a thread is the last of its events, or none.
LEMMA RowIsLast ==
  ASSUME NEW t \in Threads, NEW n \in Int
  PROVE  /\ Row(t, n) = Absent \/ Row(t, n) \in Of(t, n)
         /\ Row(t, n) \in Nat
         /\ Row(t, n) # Absent => \A i \in Of(t, n) : i <= Row(t, n) /\ log[i].kind # "deleted"
         /\ \A i \in Of(t, n) : i \in 1 .. n /\ log[i].thread = t
         /\ (\E i \in Of(t, n) : log[i].kind = "deleted") => Row(t, n) = Absent
         /\ Row(t, n) = Absent => Of(t, n) = {} \/ \E i \in Of(t, n) : log[i].kind = "deleted"
<1>1. \A i \in Of(t, n) : i \in 1 .. n /\ log[i].thread = t
  BY DEF Of
<1>2. CASE Of(t, n) = {} \/ \E i \in Of(t, n) : log[i].kind = "deleted"
  BY <1>1, <1>2 DEF Row, Absent
<1>3. CASE Of(t, n) # {} /\ \A i \in Of(t, n) : log[i].kind # "deleted"
  <2>1. n \in Nat /\ Of(t, n) \in SUBSET (0 .. n)
    BY <1>1, <1>3
  <2>2. Max(Of(t, n)) \in Of(t, n) /\ \A i \in Of(t, n) : i <= Max(Of(t, n))
    BY <1>3, <2>1, MaxOfBounded
  <2>3. Row(t, n) = Max(Of(t, n)) /\ Row(t, n) # Absent
    BY <1>1, <1>3, <2>2 DEF Row, Absent
  <2>4. QED
    BY <1>1, <1>3, <2>2, <2>3
<1>4. QED
  BY <1>2, <1>3

\* Rows depend on the events there are, and on nothing that comes later.
LEMMA RowsAreStable ==
  ASSUME ServerInv, [Next]_vars, NEW t \in Threads, NEW n \in Int, n <= Len(log)
  PROVE  Of(t, n)' = Of(t, n) /\ Row(t, n)' = Row(t, n)
<1>1. \A i \in 1 .. n : i \in 1 .. Len(log) /\ log'[i] = log[i]
  BY LogGrows DEF ServerInv, GateTypeOK
<1>2. Of(t, n)' = Of(t, n)
  BY <1>1 DEF Of
<1>3. \A i \in Of(t, n) : log'[i] = log[i]
  BY <1>1 DEF Of
<1>4. QED
  BY <1>2, <1>3 DEF Row

\* A thread has the same row at two points of the log between which nothing happens to it.
LEMMA SameEventsSameRow ==
  ASSUME NEW t, NEW m, NEW n, Of(t, m) = Of(t, n)
  PROVE  Row(t, m) = Row(t, n)
BY DEF Row

\* A snapshot is of its type.
LEMMA SnapshotType == ASSUME ServerInv PROVE Snapshot \in [seq : Nat, at : Nat, rows : [Threads -> Nat]]
<1> DEFINE n == Len(log)
           us == {u \in Threads : Of(u, n) # {}}
           times == {0} \cup {log[Max(Of(t, n))].time : t \in us}
<1>1. n \in Nat /\ clock \in Nat
  BY DEF ServerInv, GateTypeOK
<1>2. ASSUME NEW t \in us PROVE log[Max(Of(t, n))].time \in 0 .. clock
  <2>1. Of(t, n) \in SUBSET (0 .. n) /\ Of(t, n) # {}
    BY <1>1 DEF Of
  <2>2. Max(Of(t, n)) \in Of(t, n)
    BY <1>1, <2>1, MaxOfBounded
  <2>3. Max(Of(t, n)) \in 1 .. n
    BY <2>2 DEF Of
  <2>4. log[Max(Of(t, n))] \in Events
    BY <2>3 DEF ServerInv, GateTypeOK
  <2>5. QED
    BY <1>1, <2>3, <2>4 DEF Events, ServerInv, TimesArePast
<1>3. times \in SUBSET (0 .. clock) /\ times # {}
  BY <1>1, <1>2
<1>4. Max(times) \in 0 .. clock
  BY <1>1, <1>3, MaxOfBounded
<1>5. UpdatedAt(n) \in Nat
  BY <1>1, <1>4 DEF UpdatedAt
<1>6. Rows(n) \in [Threads -> Nat]
  BY <1>1, RowIsLast DEF Rows
<1>7. QED
  BY <1>1, <1>5, <1>6 DEF Snapshot

\* While the client does nothing, what it shows stays right: an event that comes is
\* one it has still to take.
LEMMA ServerKeepsClient ==
  ASSUME ServerInv, ServerInv', ClientInv, [Next]_vars, UNCHANGED clientVars,
         published' >= published
  PROVE  ClientInv'
<1>a. Len(log) \in Nat /\ Len(log') \in Nat
  BY DEF ServerInv, GateTypeOK
<1>b. PICK n \in Nat : n = Len(log)
  BY <1>a
<1>c. PICK m \in Nat : m = Len(log')
  BY <1>a
<1> USE <1>b, <1>c
<1>1. /\ n \in Nat /\ m \in Nat /\ n <= m /\ published \in 0 .. n /\ published' \in 0 .. m
      /\ \A i \in 1 .. n : log'[i] = log[i]
  BY <1>b, <1>c, LogGrows DEF ServerInv, GateTypeOK
<1>2. UNCHANGED <<stream, snap, next, shown, applied, base, missed, skipped>>
  BY DEF clientVars
<1>3. ASSUME NEW t \in Threads, NEW k \in Int, k <= n
      PROVE  Of(t, k)' = Of(t, k) /\ Row(t, k)' = Row(t, k)
  BY <1>1, <1>3, RowsAreStable
<1>4. \A t \in Threads : Of(t, n) \subseteq Of(t, m)'
  BY <1>1 DEF Of
<1>5. ClientTypes'
  BY <1>2 DEF ClientInv, ClientTypes
<1>6. ShownInLog'
  BY <1>2, <1>4 DEF ClientInv, ShownInLog
<1>7. Versions'
  BY <1>1, <1>2, <1>3 DEF ClientInv, Versions, ClientTypes
<1>8. SnapshotIsLater'
  BY <1>1, <1>2, <1>3 DEF ClientInv, SnapshotIsLater, ClientTypes
<1>9. LiveIsCurrent'
  <2>1. stream = "live" => next \in 1 .. published + 1
    BY DEF ClientInv, LiveIsCurrent
  <2>2. ASSUME stream = "live", ~skipped, NEW t \in Threads
        PROVE  /\ shown[t] = Row(t, m)' \/ Pending(t)' # {}
               /\ \A d \in Of(t, m)' :
                    log'[d].kind = "deleted" => shown[t] = Absent \/ d \in Pending(t)'
    <3>1. /\ shown[t] = Row(t, n) \/ Pending(t) # {}
          /\ \A d \in Of(t, n) :
               log[d].kind = "deleted" => shown[t] = Absent \/ d \in Pending(t)
      BY <2>2 DEF ClientInv, LiveIsCurrent
    <3>2. Pending(t) \subseteq Pending(t)'
      BY <1>2, <1>4 DEF Pending
    <3>3. ASSUME NEW i \in Of(t, m)', i > n PROVE i \in Pending(t)'
      <4>1. i \in Int /\ i >= next /\ i > applied.seq
        BY <1>1, <2>1, <2>2, <3>3 DEF Of, ClientInv, Versions, ClientTypes
      <4>2. QED
        BY <1>2, <4>1 DEF Pending
    <3>4. \A i \in Of(t, m)' : i \in Int /\ (i <= n => i \in Of(t, n) /\ log'[i] = log[i])
      BY <1>1 DEF Of
    <3>5. shown[t] = Row(t, m)' \/ Pending(t)' # {}
      <4>1. CASE \E i \in Of(t, m)' : i > n
        BY <3>3, <4>1
      <4>2. CASE \A i \in Of(t, m)' : i <= n
        <5>1. Of(t, n)' = Of(t, n) /\ Row(t, n)' = Row(t, n)
          BY <1>3
        <5>2. \A i \in Of(t, m)' : i \in Of(t, n)
          BY <3>4, <4>2
        <5>3. Of(t, m)' = Of(t, n)'
          BY <1>4, <5>1, <5>2, Zenon
        <5>4. Row(t, m)' = Row(t, n)
          BY <5>1, <5>3 DEF Row
        <5>5. QED
          BY <3>1, <3>2, <5>4
      <4>3. QED
        BY <1>1, <3>4, <4>1, <4>2
    <3>6. ASSUME NEW d \in Of(t, m)', log'[d].kind = "deleted"
          PROVE  shown[t] = Absent \/ d \in Pending(t)'
      <4>1. CASE d > n
        BY <3>3, <4>1
      <4>2. CASE d <= n
        BY <3>1, <3>2, <3>4, <3>6, <4>2
      <4>3. QED
        BY <1>1, <3>4, <4>1, <4>2
    <3>7. QED
      BY <3>5, <3>6
  <2>3. stream = "live" => next \in 1 .. published' + 1
    BY <1>1, <2>1
  <2>4. QED
    BY <1>2, <2>2, <2>3 DEF LiveIsCurrent
<1>10. QED
  BY <1>5, <1>6, <1>7, <1>8, <1>9 DEF ClientInv
\* A new snapshot has all that is stored.
LEMMA SubscribeKeepsClient ==
  ASSUME ServerInv, ClientInv, [Next]_vars, Subscribe
  PROVE  ClientInv'
<1>a. Len(log) \in Nat
  BY DEF ServerInv, GateTypeOK
<1>b. PICK n \in Nat : n = Len(log)
  BY <1>a
<1> USE <1>b
<1>1. log' = log /\ UNCHANGED <<next, shown, applied, base, missed, skipped>> /\ stream' # "live"
  BY DEF Subscribe, serverVars
<1>2. ASSUME NEW t \in Threads, NEW k \in Int, k <= n
      PROVE  Of(t, k)' = Of(t, k) /\ Row(t, k)' = Row(t, k)
  BY <1>2, RowsAreStable
<1>3. ClientTypes'
  BY <1>1, SnapshotType DEF Subscribe, ClientInv, ClientTypes
<1>4. ShownInLog'
  BY <1>1, <1>2 DEF ClientInv, ShownInLog
<1>5. Versions'
  BY <1>1, <1>2 DEF ClientInv, Versions, ClientTypes
<1>6. SnapshotIsLater'
  <2>1. CASE stream' = "sent"
    <3>1. snap' = Snapshot
      BY <2>1 DEF Subscribe
    <3>2. snap'.seq = n /\ \A t \in Threads : snap'.rows[t] = Row(t, n)
      BY <3>1 DEF Snapshot, Rows
    <3>3. \A t \in Threads : shown[t] <= n
      BY DEF ClientInv, ShownInLog, Absent, Of
    <3>4. QED
      BY <1>1, <1>2, <3>2, <3>3 DEF SnapshotIsLater, ClientInv, Versions
  <2>2. QED
    BY <2>1 DEF SnapshotIsLater
<1>7. LiveIsCurrent'
  BY <1>1 DEF LiveIsCurrent
<1>8. QED
  BY <1>3, <1>4, <1>5, <1>6, <1>7 DEF ClientInv

\* Applied or not, a snapshot is shown; unless it has been skipped for its time.
\* What it does not have was published before the stream was subscribed to, or
\* has still to come.
LEMMA SnapshotKeepsClient ==
  ASSUME ServerInv, ClientInv, [Next]_vars, ApplySnapshot
  PROVE  ClientInv'
<1>a. Len(log) \in Nat
  BY DEF ServerInv, GateTypeOK
<1>b. PICK n \in Nat : n = Len(log)
  BY <1>a
<1>c. PICK q \in Nat : q = snap.seq
  BY DEF ClientInv, ClientTypes
<1> USE <1>b, <1>c
<1>1. /\ log' = log /\ published' = published /\ published \in 0 .. n
      /\ stream = "sent" /\ stream' = "live" /\ next' = published + 1
      /\ missed' = q + 1 .. published /\ snap' = NoSnapshot
  BY DEF ApplySnapshot, gateVars, ServerInv, GateTypeOK
<1>2. ASSUME NEW t \in Threads, NEW k \in Int, k <= n
      PROVE  Of(t, k)' = Of(t, k) /\ Row(t, k)' = Row(t, k)
  BY <1>2, RowsAreStable
<1>3. /\ q <= n /\ applied.seq <= q /\ base <= applied.seq /\ applied.seq \in Int /\ base \in Int
      /\ \A t \in Threads : snap.rows[t] = Row(t, q)
  BY <1>1 DEF ClientInv, SnapshotIsLater, Versions, ClientTypes
<1>4. \/ /\ shown' = snap.rows /\ applied' = [seq |-> q, at |-> snap.at]
         /\ base' = q /\ skipped' = FALSE
      \/ /\ UNCHANGED <<shown, applied, base>> /\ skipped' \in BOOLEAN
         /\ skipped' \/ (base = q /\ applied.seq = q)
  <2>1. CASE Newer(snap)
    BY <2>1 DEF ApplySnapshot
  <2>2. CASE ~Newer(snap)
    <3>1. applied.seq >= q /\ (applied.seq = q => applied.at >= snap.at)
      BY <1>3, <2>2 DEF Newer, ClientInv, ClientTypes
    <3>2. applied.seq = q /\ applied.at >= snap.at
      BY <1>3, <3>1
    <3>3. skipped' = (skipped \/ (base < q /\ applied.at >= snap.at))
      BY <2>2 DEF ApplySnapshot
    <3>4. UNCHANGED <<shown, applied, base>>
      BY <2>2 DEF ApplySnapshot
    <3>5. skipped \in BOOLEAN
      BY DEF ClientInv, ClientTypes
    <3>6. CASE base < q /\ applied.at >= snap.at
      <4>1. skipped' = TRUE
        BY <3>3, <3>5, <3>6, Zenon
      <4>2. QED
        BY <3>4, <4>1
    <3>7. CASE ~(base < q)
      <4>1. skipped' = skipped
        BY <3>3, <3>5, <3>7, Zenon
      <4>2. base = q
        BY <1>3, <3>2, <3>7
      <4>3. QED
        BY <3>2, <3>4, <3>5, <4>1, <4>2
    <3>8. QED
      BY <3>2, <3>6, <3>7
  <2>3. QED
    BY <2>1, <2>2
<1>5. ClientTypes'
  <2>1. NoSnapshot \in [seq : Nat, at : Nat, rows : [Threads -> Nat]]
    BY DEF NoSnapshot, Absent
  <2>2. /\ applied \in [seq : Int, at : Int] /\ shown \in [Threads -> Nat]
        /\ snap.rows \in [Threads -> Nat] /\ snap.at \in Nat
    BY DEF ClientInv, ClientTypes
  <2>3. /\ applied' \in [seq : Int, at : Int] /\ shown' \in [Threads -> Nat]
        /\ base' \in Int /\ skipped' \in BOOLEAN
    <3>1. CASE /\ shown' = snap.rows /\ applied' = [seq |-> q, at |-> snap.at]
               /\ base' = q /\ skipped' = FALSE
      <4>1. applied' \in [seq : Int, at : Int] /\ base' \in Int
        BY <2>2, <3>1
      <4>2. QED
        BY <2>2, <3>1, <4>1, Zenon
    <3>2. CASE UNCHANGED <<shown, applied, base>> /\ skipped' \in BOOLEAN
      <4>1. base' \in Int /\ applied' = applied /\ shown' = shown
        BY <1>3, <3>2
      <4>2. QED
        BY <2>2, <3>2, <4>1, Zenon
    <3>3. QED
      BY <1>4, <3>1, <3>2
  <2>4. next' \in Nat /\ stream' \in {"none", "sent", "live", "over"}
    BY <1>1
  <2>5. snap' \in [seq : Nat, at : Nat, rows : [Threads -> Nat]]
    BY <1>1, <2>1
  <2>6. QED
    BY <2>3, <2>4, <2>5, Zenon DEF ClientTypes
<1>6. \A t \in Threads : Of(t, q) \subseteq Of(t, n)
  BY <1>3 DEF Of
<1>7. \A t \in Threads : Row(t, q) = Absent \/ Row(t, q) \in Of(t, q)
  BY RowIsLast
<1>8. ShownInLog'
  BY <1>1, <1>2, <1>3, <1>4, <1>6, <1>7 DEF ClientInv, ShownInLog
<1>9. Versions'
  BY <1>1, <1>2, <1>3, <1>4 DEF ClientInv, Versions
<1>10. SnapshotIsLater'
  BY <1>1 DEF SnapshotIsLater
<1>11. LiveIsCurrent'
  <2>1. next' \in 1 .. published' + 1
    BY <1>1
  <2>2. ASSUME ~skipped', NEW t \in Threads
        PROVE  /\ shown'[t] = Row(t, n)' \/ Pending(t)' # {}
               /\ \A d \in Of(t, n)' :
                    log'[d].kind = "deleted" => shown'[t] = Absent \/ d \in Pending(t)'
    <3>1. shown'[t] = Row(t, q) /\ applied'.seq = q
      BY <1>3, <1>4, <2>2 DEF ClientInv, Versions
    <3>2. ASSUME NEW i \in Of(t, n), i > q PROVE i \in Pending(t)'
      <4>1. i \in 1 .. n
        BY DEF Of
      <4>2. i \in missed' \/ i >= next'
        BY <1>1, <3>2, <4>1
      <4>3. QED
        BY <1>1, <1>2, <3>1, <3>2, <4>2 DEF Pending
    <3>3. \A i \in Of(t, n) : i \in Int /\ (i <= q => i \in Of(t, q))
      BY DEF Of
    <3>4. shown'[t] = Row(t, n)' \/ Pending(t)' # {}
      <4>1. CASE \E i \in Of(t, n) : i > q
        BY <3>2, <4>1
      <4>2. CASE \A i \in Of(t, n) : i <= q
        <5>1. Of(t, n) = Of(t, q)
          BY <1>6, <3>3, <4>2, Zenon
        <5>2. Row(t, n)' = Row(t, q)
          BY <1>2, <5>1, SameEventsSameRow
        <5>3. QED
          BY <3>1, <5>2
      <4>3. QED
        BY <3>3, <4>1, <4>2
    <3>5. ASSUME NEW d \in Of(t, n)', log'[d].kind = "deleted"
          PROVE  shown'[t] = Absent \/ d \in Pending(t)'
      <4>1. d \in Of(t, n) /\ log[d].kind = "deleted"
        BY <1>1, <1>2, <3>5
      <4>2. CASE d > q
        BY <3>2, <4>1, <4>2
      <4>3. CASE d <= q
        <5>1. d \in Of(t, q)
          BY <3>3, <4>1, <4>3
        <5>2. Row(t, q) = Absent
          BY <4>1, <5>1, RowIsLast
        <5>3. QED
          BY <3>1, <5>2
      <4>4. QED
        BY <3>3, <4>1, <4>2, <4>3
    <3>6. QED
      BY <3>4, <3>5
  <2>3. QED
    BY <1>1, <2>1, <2>2 DEF LiveIsCurrent
<1>12. QED
  BY <1>5, <1>8, <1>9, <1>10, <1>11 DEF ClientInv
\* What the last event of a thread leaves is shown at once; an event whose row could
\* not be read is missed, and one that has no row any more is followed by the deletion.
LEMMA DeliverKeepsClient ==
  ASSUME ServerInv, ClientInv, [Next]_vars, Deliver
  PROVE  ClientInv'
<1>a. Len(log) \in Nat
  BY DEF ServerInv, GateTypeOK
<1>b. PICK n \in Nat : n = Len(log)
  BY <1>a
<1>c. PICK a \in Int : a = applied.seq
  BY DEF ClientInv, ClientTypes
<1> USE <1>b, <1>c
<1> DEFINE t0 == log[next].thread
<1>1. /\ log' = log /\ published' = published /\ published \in 0 .. n
      /\ stream = "live" /\ stream' = "live" /\ next' = next + 1
      /\ UNCHANGED <<snap, base, skipped>>
      /\ next \in 1 .. published
  BY DEF Deliver, serverVars, ServerInv, GateTypeOK, ClientInv, LiveIsCurrent
<1>2. ASSUME NEW t \in Threads, NEW k \in Int, k <= n
      PROVE  Of(t, k)' = Of(t, k) /\ Row(t, k)' = Row(t, k)
  BY <1>2, RowsAreStable
<1>3. /\ next \in 1 .. n /\ t0 \in Threads
      /\ \A t \in Threads : next \in Of(t, n) => t = t0
      /\ next \in Of(t0, n)
  <2>1. log[next] \in Events /\ next \in 1 .. n
    BY <1>1 DEF ServerInv, GateTypeOK
  <2>2. QED
    BY <2>1 DEF Events, Of
<1>4. \/ /\ UNCHANGED <<shown, applied>>
         /\ \/ missed' = missed /\ next <= a
            \/ missed' = missed /\ Row(t0, n) = Absent /\ log[next].kind # "deleted"
            \/ missed' = missed \cup {next}
      \/ /\ missed' = missed /\ next > a
         /\ shown' = [shown EXCEPT ![t0] = Row(t0, n)]
         /\ applied' = [applied EXCEPT !.seq = next]
  BY <1>1 DEF Deliver, PassOn, ApplyEvent
<1>5. /\ a <= n /\ base <= a /\ base \in Int
      /\ applied \in [seq : Int, at : Int] /\ shown \in [Threads -> Nat]
  BY DEF ClientInv, Versions, ClientTypes
<1>6. Row(t0, n) \in Nat
  BY <1>3, RowIsLast
<1>7. CASE next > a /\ missed' = missed /\ shown' = [shown EXCEPT ![t0] = Row(t0, n)]
           /\ applied' = [applied EXCEPT !.seq = next]
  <2>1. /\ applied' \in [seq : Int, at : Int] /\ shown' \in [Threads -> Nat]
        /\ applied'.seq = next /\ shown'[t0] = Row(t0, n)
        /\ \A t \in Threads : t # t0 => shown'[t] = shown[t]
    BY <1>3, <1>5, <1>6, <1>7
  <2>2. ClientTypes'
    BY <1>1, <2>1 DEF ClientInv, ClientTypes
  <2>3. ShownInLog'
    <3>1. Row(t0, n) = Absent \/ Row(t0, n) \in Of(t0, n)
      BY <1>3, RowIsLast
    <3>2. QED
      BY <1>1, <1>2, <2>1, <3>1 DEF ClientInv, ShownInLog
  <2>4. Versions'
    BY <1>1, <1>3, <1>5, <1>7, <2>1 DEF Versions
  <2>5. SnapshotIsLater'
    BY <1>1 DEF SnapshotIsLater
  <2>6. ASSUME ~skipped', NEW t \in Threads
        PROVE  /\ shown'[t] = Row(t, n)' \/ Pending(t)' # {}
               /\ \A d \in Of(t, n)' :
                    log'[d].kind = "deleted" => shown'[t] = Absent \/ d \in Pending(t)'
    <3>1. CASE t = t0
      <4>1. Row(t, n)' = Row(t, n) /\ Of(t, n)' = Of(t, n) /\ shown'[t] = Row(t, n)
        BY <1>2, <2>1, <3>1
      <4>2. (\E d \in Of(t, n) : log[d].kind = "deleted") => Row(t, n) = Absent
        BY RowIsLast
      <4>3. QED
        BY <1>1, <4>1, <4>2
    <3>2. CASE t # t0
      <4>1. Of(t, n)' = Of(t, n) /\ Row(t, n)' = Row(t, n) /\ shown'[t] = shown[t]
        BY <1>2, <2>1, <3>2
      <4>2. ASSUME NEW i \in Pending(t) PROVE i \in Pending(t)'
        <5>1. i \in Of(t, n) /\ i # next /\ i \in Int
          BY <1>3, <3>2, <4>2 DEF Pending, Of
        <5>2. i \in missed \/ (i >= next + 1 /\ i > next)
          BY <1>3, <4>2, <5>1 DEF Pending
        <5>3. QED
          BY <1>1, <1>7, <2>1, <4>1, <5>1, <5>2 DEF Pending
      <4>3. /\ shown[t] = Row(t, n) \/ Pending(t) # {}
            /\ \A d \in Of(t, n) :
                 log[d].kind = "deleted" => shown[t] = Absent \/ d \in Pending(t)
        BY <1>1, <2>6 DEF ClientInv, LiveIsCurrent
      <4>4. QED
        BY <1>1, <4>1, <4>2, <4>3
    <3>3. QED
      BY <3>1, <3>2
  <2>7. next' \in 1 .. published' + 1
    BY <1>1
  <2>8. LiveIsCurrent'
    BY <1>1, <2>6, <2>7 DEF LiveIsCurrent
  <2>9. QED
    BY <2>2, <2>3, <2>4, <2>5, <2>8 DEF ClientInv
<1>8. CASE /\ UNCHANGED <<shown, applied>>
           /\ \/ missed' = missed /\ next <= a
              \/ missed' = missed /\ Row(t0, n) = Absent /\ log[next].kind # "deleted"
              \/ missed' = missed \cup {next}
  <2>2. ClientTypes'
    BY <1>1, <1>8 DEF ClientInv, ClientTypes
  <2>3. ShownInLog'
    BY <1>1, <1>2, <1>8 DEF ClientInv, ShownInLog
  <2>4. Versions'
    BY <1>1, <1>2, <1>5, <1>8 DEF ClientInv, Versions
  <2>5. SnapshotIsLater'
    BY <1>1 DEF SnapshotIsLater
  <2>6. ASSUME ~skipped', NEW t \in Threads
        PROVE  /\ shown'[t] = Row(t, n)' \/ Pending(t)' # {}
               /\ \A d \in Of(t, n)' :
                    log'[d].kind = "deleted" => shown'[t] = Absent \/ d \in Pending(t)'
    <3>1. Of(t, n)' = Of(t, n) /\ Row(t, n)' = Row(t, n) /\ shown'[t] = shown[t]
      BY <1>2, <1>8
    <3>2. ASSUME NEW i \in Pending(t), i # next PROVE i \in Pending(t)'
      <4>1. i \in Of(t, n) /\ i \in Int
        BY DEF Pending, Of
      <4>2. i \in missed \/ (i >= next + 1 /\ i > a)
        BY <1>3, <3>2, <4>1 DEF Pending
      <4>3. QED
        BY <1>1, <1>8, <3>1, <4>1, <4>2 DEF Pending
    <3>3. /\ shown[t] = Row(t, n) \/ Pending(t) # {}
          /\ \A d \in Of(t, n) :
               log[d].kind = "deleted" => shown[t] = Absent \/ d \in Pending(t)
      BY <1>1, <2>6 DEF ClientInv, LiveIsCurrent
    <3>4. CASE next \notin Pending(t) \/ next \in missed'
      <4>1. ASSUME NEW i \in Pending(t) PROVE i \in Pending(t)'
        <5>1. CASE i # next
          BY <3>2, <5>1
        <5>2. CASE i = next
          <6>1. i \in Of(t, n)' /\ i \in missed'
            BY <3>1, <3>4, <5>2 DEF Pending
          <6>2. QED
            BY <1>1, <6>1 DEF Pending
        <5>3. QED
          BY <5>1, <5>2
      <4>2. QED
        BY <1>1, <3>1, <3>3, <4>1
    <3>5. CASE next \in Pending(t) /\ next \notin missed'
      <4>1. next \notin missed /\ next > a
        BY <1>8, <3>5 DEF Pending
      <4>2. Row(t0, n) = Absent /\ log[next].kind # "deleted"
        BY <1>3, <1>8, <3>5, <4>1
      <4>3. t = t0 /\ Row(t, n) = Absent /\ Of(t, n) # {}
        BY <1>3, <3>5, <4>2 DEF Pending
      <4>4. PICK d \in Of(t, n) : log[d].kind = "deleted"
        <5>1. n \in Int
          OBVIOUS
        <5>2. QED
          BY <4>3, <5>1, RowIsLast, Zenon
      <4>5. \A e \in Of(t, n) :
              log[e].kind = "deleted" => shown[t] = Absent \/ e \in Pending(t)'
        BY <3>2, <3>3, <4>2
      <4>6. shown[t] = Row(t, n) \/ Pending(t)' # {}
        BY <4>3, <4>4, <4>5
      <4>7. QED
        BY <1>1, <3>1, <4>5, <4>6
    <3>6. QED
      BY <3>4, <3>5
  <2>7. next' \in 1 .. published' + 1
    BY <1>1
  <2>8. LiveIsCurrent'
    BY <1>1, <2>6, <2>7 DEF LiveIsCurrent
  <2>9. QED
    BY <2>2, <2>3, <2>4, <2>5, <2>8 DEF ClientInv
<1>9. QED
  BY <1>4, <1>7, <1>8
\* The invariant of the client, against whatever the server does.
LEMMA ClientKeepsInv ==
  ASSUME ServerInv, ServerInv', ClientInv, [Next]_vars
  PROVE  ClientInv'
<1>1. CASE ServerNext
  <2>1. published' >= published
    BY <1>1, RunStepShape
    DEF ServerNext, GateNext, GateWorker, Enqueue, Post, Interrupt, StartupEnds, WorkerTakes,
        WorkerBegins, ServerWrites, Publish, ServerInv, GateTypeOK
  <2>2. QED
    BY <1>1, <2>1, ServerKeepsClient DEF ServerNext
<1>2. CASE UNCHANGED vars
  <2>1. published' >= published
    BY <1>2 DEF vars, gateVars, ServerInv, GateTypeOK
  <2>2. QED
    BY <1>2, <2>1, ServerKeepsClient DEF vars
<1>3. CASE ClientStep
  BY <1>3, SubscribeKeepsClient, SnapshotKeepsClient, DeliverKeepsClient DEF ClientStep
<1>4. CASE LoseConnection
  <2>a. Len(log) \in Nat
    BY DEF ServerInv, GateTypeOK
  <2>b. PICK n \in Nat : n = Len(log)
    BY <2>a
  <2>1. /\ log' = log /\ UNCHANGED <<shown, applied, base, skipped>>
        /\ stream' = "none" /\ snap' = NoSnapshot /\ next' = 0
    BY <1>4 DEF LoseConnection, gateVars
  <2>2. ASSUME NEW t \in Threads, NEW k \in Int, k <= n
        PROVE  Of(t, k)' = Of(t, k) /\ Row(t, k)' = Row(t, k)
    BY <2>b, <2>2, RowsAreStable
  <2>3. ClientTypes'
    BY <2>1 DEF ClientInv, ClientTypes, NoSnapshot, Absent
  <2>4. ShownInLog' /\ Versions'
    <3>1. base \in Int /\ base <= n /\ n \in Int
      BY <2>b DEF ClientInv, ClientTypes, Versions
    <3>2. \A t \in Threads : Of(t, n)' = Of(t, n) /\ Row(t, base)' = Row(t, base)
      <4>1. PICK k \in Int : k = base
        BY <3>1
      <4>2. QED
        BY <2>1, <2>2, <3>1, <4>1
    <3>3. ShownInLog'
      BY <2>b, <2>1, <3>2 DEF ClientInv, ShownInLog
    <3>4. Versions'
      BY <2>b, <2>1, <3>2 DEF ClientInv, Versions
    <3>5. QED
      BY <3>3, <3>4
  <2>5. SnapshotIsLater' /\ LiveIsCurrent'
    BY <2>1 DEF SnapshotIsLater, LiveIsCurrent
  <2>6. QED
    BY <2>3, <2>4, <2>5 DEF ClientInv
<1>5. QED
  BY <1>1, <1>2, <1>3, <1>4 DEF Next, ClientNext

\* ClientInv, of the subscriber and what it was sent, holds of every behaviour.
THEOREM ClientIsSound == Spec => []ClientInv
<1>1. Init => ClientInv
  <2> SUFFICES ASSUME Init PROVE ClientInv
    OBVIOUS
  <2>1. log \in Seq(Events)
    BY GateAssumption DEF Init, GateInit
  <2>2. Len(log) \in Nat
    BY <2>1
  <2>3. \A t \in Threads : Row(t, -1) = Absent
    BY DEF Row, Of
  <2>4. /\ stream = "none" /\ snap = NoSnapshot /\ next = 0 /\ applied = NoVersion
        /\ base = -1 /\ skipped = FALSE
        /\ shown = [t \in Threads |-> Absent]
    BY DEF Init, NoSnapshot
  <2>5. ClientTypes
    <3>1. /\ applied \in [seq : Int, at : Int] /\ base \in Int /\ shown \in [Threads -> Nat]
          /\ snap \in [seq : Nat, at : Nat, rows : [Threads -> Nat]] /\ next \in Nat
      BY <2>4 DEF NoSnapshot, NoVersion, Absent
    <3>2. QED
      BY <2>4, <3>1, Zenon DEF ClientTypes
  <2>6. ShownInLog /\ SnapshotIsLater /\ LiveIsCurrent
    BY <2>4 DEF ShownInLog, SnapshotIsLater, LiveIsCurrent
  <2>7. Versions
    BY <2>2, <2>3, <2>4 DEF Versions, NoVersion
  <2>8. QED
    BY <2>5, <2>6, <2>7 DEF ClientInv
<1>2. ServerInv /\ ServerInv' /\ ClientInv /\ [Next]_vars => ClientInv'
  BY ClientKeepsInv
<1>3. QED
  BY ServerIsSound, <1>1, <1>2, PTL DEF Spec

-----------------------------------------------------------------------------
\* A client that has caught up shows what is stored: ShownIsStored, for any
\* commands, threads, faults and lost connections.
THEOREM CaughtUpIsStored == Spec => []ShownIsStored
<1>1. ServerInv /\ ClientInv => ShownIsStored
  <2> SUFFICES ASSUME ServerInv, ClientInv, CaughtUp, ~skipped, NEW t \in Threads
               PROVE  shown[t] = Row(t, Len(log)) \/ Of(t, Len(log)) \cap missed # {}
    BY DEF ShownIsStored
  <2>1. stream = "live" /\ next > published /\ published = Len(log) /\ Len(log) \in Nat
    BY DEF CaughtUp, ServerInv, GateTypeOK
  <2>2. shown[t] = Row(t, Len(log)) \/ Pending(t) # {}
    BY <2>1 DEF ClientInv, LiveIsCurrent
  <2>3. ASSUME NEW i \in Pending(t) PROVE i \in Of(t, Len(log)) \cap missed
    <3>1. i \in Of(t, Len(log)) /\ i \in 1 .. Len(log) /\ next \in Nat
      BY DEF Pending, Of, ClientInv, ClientTypes
    <3>2. QED
      BY <2>1, <2>3, <3>1 DEF Pending
  <2>4. QED
    BY <2>2, <2>3
<1>2. QED
  BY ServerIsSound, ClientIsSound, <1>1, PTL

\* A thread is not shown as it was before, nor again when it is gone: NeverBack.
THEOREM NothingGoesBack == Spec => NeverBack
<1>1. ServerInv /\ ClientInv /\ [Next]_vars =>
        [\A t \in Threads :
           /\ shown'[t] # Absent => shown'[t] >= shown[t]
           /\ shown[t] # Absent /\ shown'[t] = Absent => Deleted(t)]_vars
  <2> SUFFICES ASSUME ServerInv, ClientInv, [Next]_vars, NEW t \in Threads
               PROVE  /\ shown'[t] # Absent => shown'[t] >= shown[t]
                      /\ shown[t] # Absent /\ shown'[t] = Absent => Deleted(t)
    OBVIOUS
  <2>a. Len(log) \in Nat
    BY DEF ServerInv, GateTypeOK
  <2>b. PICK n \in Nat : n = Len(log)
    BY <2>a
  <2> USE <2>b
  <2>1. shown \in [Threads -> Nat] /\ (shown[t] = Absent \/ shown[t] \in Of(t, n))
    BY DEF ClientInv, ClientTypes, ShownInLog
  <2>2. ASSUME NEW k \in Nat, k <= n, shown[t] <= k, shown'[t] = Row(t, k)
        PROVE  /\ shown'[t] # Absent => shown'[t] >= shown[t]
               /\ shown[t] # Absent /\ shown'[t] = Absent => Deleted(t)
    <3>1. CASE shown[t] = Absent
      BY <2>2, <3>1, RowIsLast DEF Absent
    <3>2. CASE shown[t] # Absent
      <4>1. shown[t] \in Of(t, k)
        BY <2>1, <2>2, <3>2 DEF Of
      <4>2. Row(t, k) # Absent => shown[t] <= Row(t, k)
        BY <4>1, RowIsLast
      <4>3. ASSUME Row(t, k) = Absent PROVE Deleted(t)
        <5>1. PICK d \in Of(t, k) : log[d].kind = "deleted"
          <6>1. k \in Int
            OBVIOUS
          <6>2. QED
            BY <4>1, <4>3, <6>1, RowIsLast, Zenon
        <5>2. QED
          BY <2>2, <5>1 DEF Of, Deleted
      <4>4. QED
        BY <2>1, <2>2, <4>2, <4>3, RowIsLast
    <3>3. QED
      BY <3>1, <3>2
  <2>3. CASE shown'[t] = shown[t]
    BY <2>1, <2>3
  <2>4. CASE ApplySnapshot
    <3>1. shown' = snap.rows \/ shown' = shown
      BY <2>4 DEF ApplySnapshot
    <3>2. /\ snap.seq \in Nat /\ snap.seq <= n
          /\ snap.rows[t] = Row(t, snap.seq) /\ shown[t] <= snap.seq
      BY <2>4 DEF ApplySnapshot, ClientInv, ClientTypes, SnapshotIsLater
    <3>3. QED
      BY <2>2, <2>3, <3>1, <3>2
  <2>5. CASE Deliver
    <3>1. \/ shown' = shown
          \/ shown' = [shown EXCEPT ![log[next].thread] = Row(log[next].thread, n)]
      BY <2>5 DEF Deliver, PassOn, ApplyEvent
    <3>2. shown[t] <= n
      BY <2>1 DEF Of, Absent
    <3>3. shown'[t] = shown[t] \/ shown'[t] = Row(t, n)
      BY <2>1, <3>1
    <3>4. QED
      BY <2>2, <2>3, <3>2, <3>3
  <2>6. CASE Subscribe \/ LoseConnection \/ ServerNext \/ UNCHANGED vars
    <3>1. shown' = shown
      BY <2>6 DEF Subscribe, LoseConnection, ServerNext, vars, clientVars
    <3>2. QED
      BY <2>3, <3>1
  <2>7. QED
    BY <2>4, <2>5, <2>6 DEF Next, ClientNext, ClientStep
<1>2. QED
  BY ServerIsSound, ClientIsSound, <1>1, PTL DEF Spec, NeverBack

===============================================================================
