-------------------------- MODULE ProjectionBootstrap --------------------------
(***************************************************************************)
(* orchestration/Layers/ProjectionPipeline.ts: how the SQL projections are *)
(* brought up to the event log when the server starts, and kept there.     *)
(*                                                                         *)
(* Every projector has a durable cursor (projection_state) that moves in   *)
(* one transaction with its rows.  bootstrap runs the projectors one after *)
(* another: each replays the events after its own cursor, at most Limit of *)
(* them.  While the server runs, an event is appended and goes through all *)
(* projectors in one transaction of the engine.                            *)
(*                                                                         *)
(* The log is behind the projections only in a database that an older      *)
(* version wrote: before migration 005 there were no projections at all,   *)
(* before migration 013 no proposed plans.                                 *)
(*                                                                         *)
(* Of the projectors, the three that depend on one another: a thread's     *)
(* proposed plans (messages and activities are pruned alike), its turns    *)
(* with their checkpoints, and its latest turn.  One thread stands for     *)
(* all: projectors never relate two threads here.                          *)
(***************************************************************************)
EXTENDS Naturals, SequencesExt

CONSTANTS
  Turns, Plans, NoTurn,
  Counts,      \* checkpoint turn counts
  OldEvents,   \* the events an older version may have left in the log
  NewEvents,   \* the events the running server may append
  Limit,       \* DEFAULT_READ_FROM_SEQUENCE_LIMIT
  MaxLog,      \* bound: events
  MaxCrashes   \* bound: crashes

Event ==
  [type : {"turn-diff-completed"}, turn : Turns, count : Counts]
  \cup [type : {"proposed-plan-upserted"}, plan : Plans, turn : Turns \cup {NoTurn}]
  \cup [type : {"session-set"}, turn : Turns \cup {NoTurn}]
  \cup [type : {"reverted"}, count : Counts]

ASSUME EventsAssumption == OldEvents \subseteq Event /\ NewEvents \subseteq Event
ASSUME BoundsAssumption ==
  Limit \in Nat \ {0} /\ MaxLog \in Nat /\ MaxCrashes \in Nat /\ Counts \subseteq Nat

\* (Variants named ...Bug stand for plausible mistakes; nothing here uses them.)
OrderBug == <<"latest", "plans", "turns">>

\* The order of the list of projectors.
Order == <<"plans", "turns", "latest">>
Projectors == {"plans", "turns", "latest"}
Running == Len(Order) + 1

VARIABLES
  log,      \* durable: orchestration_events of the thread
  rows,     \* durable: the projection tables
  cursor,   \* durable: last_applied_sequence of each projector
  pc,       \* the projector that bootstraps, Running after the last
  left,     \* how many more events its stream may yield
  applied,  \* observation: the sequences each projector applied, in order
  old,      \* observation: how much of the log was there at first
  crashes

vars == <<log, rows, cursor, pc, left, applied, old, crashes>>

Rows == [plans : SUBSET [id : Plans, turn : Turns \cup {NoTurn}],
         turns : SUBSET [turn : Turns, count : Counts],
         latest : Turns \cup {NoTurn}]
NoRows == [plans |-> {}, turns |-> {}, latest |-> NoTurn]

-----------------------------------------------------------------------------
(* The projectors.                                                         *)

\* Turns whose checkpoint a revert to this count keeps.
KeptTurns(turns, count) == {row \in turns : row.count <= count}

\* applyThreadProposedPlansProjection: a revert looks at the turn rows as they are.
ApplyPlans(r, e) ==
  CASE e.type = "proposed-plan-upserted" ->
         [r EXCEPT !.plans = {row \in @ : row.id # e.plan} \cup {[id |-> e.plan, turn |-> e.turn]}]
    [] e.type = "reverted" ->
         LET kept == {row.turn : row \in KeptTurns(r.turns, e.count)}
         IN [r EXCEPT !.plans = {row \in @ : row.turn = NoTurn \/ row.turn \in kept}]
    [] OTHER -> r

\* applyThreadTurnsProjection: a turn takes its count from the turn that had it.
ApplyTurns(r, e) ==
  CASE e.type = "turn-diff-completed" ->
         [r EXCEPT !.turns = {row \in @ : row.turn # e.turn /\ row.count # e.count}
                             \cup {[turn |-> e.turn, count |-> e.count]}]
    [] e.type = "reverted" -> [r EXCEPT !.turns = KeptTurns(@, e.count)]
    [] OTHER -> r

\* applyThreadsProjection: a revert goes back to the last turn it keeps.
ApplyLatest(r, e) ==
  CASE e.type \in {"turn-diff-completed", "session-set"} -> [r EXCEPT !.latest = e.turn]
    [] e.type = "reverted" ->
         LET kept == KeptTurns(r.turns, e.count)
         IN [r EXCEPT !.latest =
              IF kept = {} THEN NoTurn
              ELSE (CHOOSE row \in kept : \A other \in kept : other.count <= row.count).turn]
    [] OTHER -> r

Apply(p, r, e) ==
  CASE p = "plans"  -> ApplyPlans(r, e)
    [] p = "turns"  -> ApplyTurns(r, e)
    [] p = "latest" -> ApplyLatest(r, e)

\* projectEvent: every projector, one after another.
ProjectEvent(r, e) == Apply(Order[3], Apply(Order[2], Apply(Order[1], r, e), e), e)

\* The tables had every event so far gone through projectEvent, after each event.
RowsAlong(events) ==
  LET at[n \in 0 .. Len(events)] ==
        IF n = 0 THEN NoRows ELSE ProjectEvent(at[n - 1], events[n])
  IN at
LiveRows(events) == RowsAlong(events)[Len(events)]

-----------------------------------------------------------------------------
\* An up-to-date database, one from before the projections, one from before plans.
Init ==
  /\ log \in BoundedSeq(OldEvents, MaxLog)
  /\ \E behind \in {{}, {"plans"}, Projectors} :
       /\ cursor = [p \in Projectors |-> IF p \in behind THEN 0 ELSE Len(log)]
       /\ rows = CASE behind = {}         -> LiveRows(log)
                   [] behind = {"plans"}  -> [LiveRows(log) EXCEPT !.plans = {}]
                   [] behind = Projectors -> NoRows
  /\ pc = 1 /\ left = Limit
  /\ applied = [p \in Projectors |-> [i \in 1 .. cursor[p] |-> i]]
  /\ old = Len(log)
  /\ crashes = 0

\* readFromSequence ends at the end of the log, or at its limit.
StreamEnds(p) == cursor[p] = Len(log) \/ left = 0

\* One event through one projector, and its cursor, in one transaction.
ReplayEvent ==
  /\ pc # Running
  /\ LET p == Order[pc] IN
       /\ ~StreamEnds(p)
       /\ rows' = Apply(p, rows, log[cursor[p] + 1])
       /\ cursor' = [cursor EXCEPT ![p] = @ + 1]
       /\ applied' = [applied EXCEPT ![p] = Append(@, cursor[p] + 1)]
  /\ left' = left - 1
  /\ UNCHANGED <<log, pc, old, crashes>>

\* Its stream is done; the next projector starts.
NextProjector ==
  /\ pc # Running
  /\ StreamEnds(Order[pc])
  /\ pc' = pc + 1
  /\ left' = Limit
  /\ UNCHANGED <<log, rows, cursor, applied, old, crashes>>

\* The running engine commits an event with its projections.
CommitEvent(e) ==
  /\ pc = Running /\ Len(log) < MaxLog
  /\ log' = Append(log, e)
  /\ rows' = ProjectEvent(rows, e)
  /\ cursor' = [p \in Projectors |-> Len(log) + 1]
  /\ applied' = [p \in Projectors |-> Append(applied[p], Len(log) + 1)]
  /\ UNCHANGED <<pc, left, old, crashes>>

RestartBug ==  \* replays from the beginning
  /\ crashes < MaxCrashes
  /\ crashes' = crashes + 1
  /\ pc' = 1 /\ left' = Limit
  /\ cursor' = [p \in Projectors |-> 0]
  /\ UNCHANGED <<log, rows, applied, old>>

\* The server stops, while bootstrapping or later, and starts over.
Restart ==
  /\ crashes < MaxCrashes
  /\ crashes' = crashes + 1
  /\ pc' = 1 /\ left' = Limit
  /\ UNCHANGED <<log, rows, cursor, applied, old>>

Bootstrap == ReplayEvent \/ NextProjector
Next == Bootstrap \/ Restart \/ \E e \in NewEvents : CommitEvent(e)

Spec == Init /\ [][Next]_vars

-----------------------------------------------------------------------------
\* Whatever was interrupted, a projector sees every event at most once and in
\* the order of the log, and its cursor is the last one it saw.
NeverTwice ==
  \A p \in Projectors :
    /\ \A i, j \in 1 .. Len(applied[p]) : i < j => applied[p][i] < applied[p][j]
    /\ cursor[p] = IF applied[p] = <<>> THEN 0 ELSE Last(applied[p])

\* The events the older version left fit into one read.
WithinLimit == old <= Limit

\* After every start the turns and the latest turn are those of live projection,
\* although the latest turn is replayed over the turn rows of the whole log, and so
\* are the plans when the replayed part holds no revert ("Projectors are executed
\* sequentially to preserve deterministic ordering").
ReplayIsLive ==
  WithinLimit /\ pc = Running =>
    /\ rows.turns = LiveRows(log).turns /\ rows.latest = LiveRows(log).latest
    /\ (\A i \in 1 .. old : log[i].type # "reverted") => rows.plans = LiveRows(log).plans
=============================================================================
