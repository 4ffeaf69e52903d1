------------------------------ MODULE ClientSync -------------------------------
(***************************************************************************)
(* What a web client shows of the server's threads.  subscribeShell of     *)
(* ws.ts reads a snapshot, sends it, and when the client has acknowledged  *)
(* it subscribes to the stream of published events; each of them is turned *)
(* into the row as it then is.  The client (service.ts) keeps the version  *)
(* it has applied and drops what is not newer; when the connection is lost *)
(* wsTransport.ts subscribes anew.                                         *)
(*                                                                         *)
(* The content of a row is the number of the last event of its thread.     *)
(* Items of a connection arrive in order; that an item is made and that it *)
(* arrives are one step, since what is on the way when the connection is   *)
(* lost could as well not have been sent.                                  *)
(***************************************************************************)
EXTENDS CommandGate, FiniteSetsExt

CONSTANT MaxLost  \* bound: connections lost

ASSUME SyncAssumption == MaxLost \in Nat

VARIABLES
  stream,   \* the subscription: "none", "sent" (its snapshot), "live", "over"
  snap,     \* its snapshot
  next,     \* the event it processes next
  shown,    \* of the client: the row it shows of each thread
  applied,  \* lastAppliedProjectionVersion
  lost,     \* how many connections have been lost
  base,     \* observation: the sequence of the snapshot last applied
  missed,   \* observation: events that this subscription did not pass on
  skipped   \* observation: a snapshot was skipped although it has more than the last

serverVars == <<gate, held, worker, call, created, issued, clock, log, published>>
clientVars == <<stream, snap, next, shown, applied, lost, base, missed, skipped>>
vars == <<gateVars, clientVars>>

Absent == 0
NoVersion == [seq |-> -1, at |-> -1]

-----------------------------------------------------------------------------
(* The projected rows after n events                                       *)

Of(t, n) == {i \in 1 .. n : log[i].thread = t}

Row(t, n) ==
  IF Of(t, n) = {} \/ \E i \in Of(t, n) : log[i].kind = "deleted" THEN Absent ELSE Max(Of(t, n))

Rows(n) == [t \in Threads |-> Row(t, n)]

\* updatedAt of a snapshot: the latest of the times that the rows were changed
\* at, of deleted ones too.
UpdatedAt(n) == Max({0} \cup {log[Max(Of(t, n))].time : t \in {u \in Threads : Of(u, n) # {}}})

NoSnapshot == [seq |-> 0, at |-> 0, rows |-> [t \in Threads |-> Absent]]

Init ==
  /\ GateInit
  /\ stream = "none" /\ snap = NoSnapshot /\ next = 0
  /\ shown = NoSnapshot.rows /\ applied = NoVersion
  /\ lost = 0
  /\ base = -1 /\ missed = {} /\ skipped = FALSE

-----------------------------------------------------------------------------
(* subscribeShell                                                          *)

SnapshotBug ==  \* of what has been published, not of what is stored
  [seq |-> published, at |-> UpdatedAt(published), rows |-> Rows(published)]

\* getShellSnapshot reads in one transaction.
Snapshot == [seq |-> Len(log), at |-> UpdatedAt(Len(log)), rows |-> Rows(Len(log))]

Subscribe ==
  /\ stream = "none"
  /\ \/ /\ stream' = "sent"
        /\ snap' = Snapshot
        /\ UNCHANGED faults
     \/ \* an error that is not one of the connection ends the subscription for good
        /\ Fault
        /\ stream' = "over"
        /\ UNCHANGED snap
  /\ UNCHANGED <<serverVars, next, shown, applied, lost, base, missed, skipped>>

NewerBug(version) == applied.seq < version.seq

\* shouldApplyProjectionSnapshot
Newer(version) ==
  applied.seq < version.seq \/ (applied.seq = version.seq /\ applied.at < version.at)

\* syncShellSnapshot; the acknowledgement lets the server subscribe to the events
\* published from then on.
ApplySnapshot ==
  /\ stream = "sent"
  /\ stream' = "live"
  /\ next' = published + 1
  /\ missed' = snap.seq + 1 .. published
  /\ IF Newer(snap)
     THEN /\ shown' = snap.rows
          /\ applied' = [seq |-> snap.seq, at |-> snap.at]
          /\ base' = snap.seq /\ skipped' = FALSE
     ELSE /\ skipped' = (skipped \/ (base < snap.seq /\ applied.at >= snap.at))
          /\ UNCHANGED <<shown, applied, base>>
  /\ snap' = NoSnapshot
  /\ UNCHANGED <<gateVars, lost>>

\* shouldApplyProjectionEvent, applyShellEvent
ApplyEvent(row) ==
  IF next > applied.seq
  THEN /\ shown' = [shown EXCEPT ![log[next].thread] = row]
       /\ applied' = [applied EXCEPT !.seq = next]
  ELSE UNCHANGED <<shown, applied>>

\* toShellStreamEvent: a deletion is passed on as such, otherwise the row as it
\* is now, if there is one.
PassOn ==
  LET row == Row(log[next].thread, Len(log))
  IN IF row = Absent /\ log[next].kind # "deleted" THEN UNCHANGED <<shown, applied>>
     ELSE ApplyEvent(row)

Deliver ==
  /\ stream = "live" /\ next <= published
  /\ next' = next + 1
  /\ \/ PassOn /\ UNCHANGED <<faults, missed>>
     \/ /\ log[next].kind # "deleted" /\ Fault  \* the row cannot be read
        /\ missed' = missed \cup {next}
        /\ UNCHANGED <<shown, applied>>
  /\ UNCHANGED <<serverVars, stream, snap, lost, base, skipped>>

\* The loop of subscribe begins again.
LoseConnection ==
  /\ stream \in {"sent", "live"} /\ lost < MaxLost
  /\ lost' = lost + 1
  /\ stream' = "none"
  /\ snap' = NoSnapshot /\ next' = 0 /\ missed' = {}
  /\ UNCHANGED <<gateVars, shown, applied, base, skipped>>

ClientStep == Subscribe \/ ApplySnapshot \/ Deliver
ClientNext == ClientStep \/ LoseConnection

ServerNext == GateNext /\ UNCHANGED clientVars

Next == ServerNext \/ ClientNext

Fairness ==
  /\ WF_vars(StartupEnds /\ UNCHANGED clientVars)
  /\ WF_vars(GateWorker /\ UNCHANGED clientVars)
  /\ WF_vars(Publish /\ UNCHANGED clientVars)
  /\ \A c \in Commands : WF_vars(RunStep(c) /\ UNCHANGED clientVars)

Spec == Init /\ [][Next]_vars
FairSpec == Spec /\ Fairness

-----------------------------------------------------------------------------
\* The subscription has passed on whatever there is.
CaughtUp == published = Len(log) /\ stream = "live" /\ next > published

\* A client that has caught up shows the threads as they are, whatever it missed
\* before it subscribed.  Excepted is a thread whose last event the subscription
\* did not pass on (it was published after the snapshot had been read and before
\* the stream was subscribed to, or its row could not be read), and a client that
\* skipped the snapshot for its time.
ShownIsStored ==
  CaughtUp /\ ~skipped =>
    \A t \in Threads : shown[t] = Row(t, Len(log)) \/ Of(t, Len(log)) \cap missed # {}

\* What is shown never goes back: a thread is not shown as it was before, and
\* not again when it is gone.
NeverBack ==
  [][\A t \in Threads :
       /\ shown'[t] # Absent => shown'[t] >= shown[t]
       /\ shown[t] # Absent /\ shown'[t] = Absent => Deleted(t)]_vars

=============================================================================
