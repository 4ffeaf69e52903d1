------------------------- MODULE TurnCheckpointsProofs -------------------------
(***************************************************************************)
(* For any number of turns, reverts, edits and failing steps: that         *)
(* checkpoints keep their refs, whether anybody waits or not; and, for a   *)
(* user who waits, that rows, conversation and workspace agree.            *)
(***************************************************************************)
EXTENDS TurnCheckpoints, WellFoundedInduction, FunctionTheorems, FiniteSetTheorems, TLAPS

Statuses == {"ready", "error", "missing"}
Rows == [turn : Nat, count : Nat, status : Statuses, git : BOOLEAN]
DomainEvents ==
  {Start} \cup [type : {"diff"}, turn : Nat, count : Nat, status : Statuses]
          \cup [type : {"revert"}, target : Int]
RuntimeEvents ==
  {Start} \cup [type : {"completed"}, turn : Nat, outcome : {"completed", "failed", "interrupted"}]
IngestEvents == [type : {"started", "diff", "completed"}, turn : Nat]
Jobs ==
  {Idle} \cup [step : {"baseline"}, count : Nat]
         \cup [step : {"capture", "record"}, turn : Nat, count : Nat, status : Statuses]
         \cup [step : {"restore", "rollback", "delete", "complete"},
               target : Int, max : Nat, git : BOOLEAN, stale : SUBSET Nat]

RowsTyped == checkpoints \subseteq Rows /\ \E bound \in Nat : \A c \in checkpoints : c.count <= bound
QueuesTyped ==
  /\ ingest \in Seq(IngestEvents) /\ runtime \in Seq(RuntimeEvents) /\ domain \in Seq(DomainEvents)
  /\ placeholder \in [turn : Nat, count : Nat]
  /\ sent \in Nat /\ live \in Nat
JobTyped == job \in Jobs

\* A row has its ref, unless the reactor has just captured one for the same count, or
\* is about to give the row up.
Held ==
  \A c \in checkpoints : c.git =>
    \/ c.count \in DOMAIN refs /\ refs[c.count].turn = c.turn
    \/ job.step = "record" /\ c.count = job.count
    \/ job.step = "complete" /\ c.count > job.target

\* What the reactor has concluded stays true until it acts: nobody else changes refs.
Concluded ==
  /\ job.step = "baseline" => job.count \notin DOMAIN refs
  /\ job.step = "record" => job.count \in DOMAIN refs /\ refs[job.count].turn = job.turn
  /\ job.step \in {"restore", "rollback", "delete"} => \A n \in job.stale : n > job.target

Inv == RowsTyped /\ QueuesTyped /\ JobTyped /\ Held /\ Concluded

-----------------------------------------------------------------------------
(* The greatest count exists.                                              *)

LEMMA NaturalsAreFounded ==
  \E R : IsWellFoundedOn(R, Nat) /\ \A m \in Nat, n \in Nat : m < n => <<m, n>> \in R
<1>1. \A m \in Nat, n \in Nat : m < n => <<m, n>> \in OpToRel(<, Nat)
  BY Zenon DEF OpToRel
<1> QED
  BY <1>1, NatLessThanWellFounded, Zenon

\* Every set of naturals has a least element.
LEMMA LeastNatural ==
  ASSUME NEW S, S \subseteq Nat, S # {}
  PROVE  \E m \in S : \A n \in S : m <= n
<1>1. PICK R : IsWellFoundedOn(R, Nat) /\ \A m \in Nat, n \in Nat : m < n => <<m, n>> \in R
  BY NaturalsAreFounded, Zenon
<1>2. IsWellFoundedOn(R, Nat)
  BY <1>1
<1>3. PICK m \in S : \A n \in S : ~ (<<n, m>> \in R)
  BY <1>2, WFMin
<1>4. ASSUME NEW n \in S PROVE ~ (n < m)
  BY <1>1, <1>3, Zenon
<1>5. \A n \in S : m <= n
  BY <1>4
<1> QED
  BY <1>5

\* MaxCount is the greatest of the counts in use, or 0.
LEMMA MaxCountIsGreatest ==
  ASSUME RowsTyped
  PROVE  /\ MaxCount \in {0} \cup {c.count : c \in checkpoints}
         /\ \A c \in checkpoints : c.count <= MaxCount
<1> DEFINE S == {n \in Nat : \A c \in checkpoints : c.count <= n}
           Counts == {0} \cup {c.count : c \in checkpoints}
<1>1. S # {} /\ S \subseteq Nat
  BY DEF RowsTyped
<1>2. PICK m \in S : \A n \in S : m <= n
  BY <1>1, LeastNatural
<1>4. m \in Counts
  <2>1. CASE m = 0
    BY <2>1
  <2>2. CASE m # 0
    <3>1. m - 1 \in Nat /\ m - 1 \notin S
      BY <1>2, <2>2
    <3>2. PICK c \in checkpoints : ~ (c.count <= m - 1)
      BY <3>1
    <3>3. c.count \in Nat /\ c.count <= m
      BY <1>2 DEF RowsTyped, Rows
    <3>4. c.count = m
      BY <1>2, <3>2, <3>3
    <3> QED
      BY <3>4
  <2> QED
    BY <2>1, <2>2
<1>3. \E n \in Counts : \A c \in checkpoints : c.count <= n
  BY <1>2, <1>4
<1> QED
  BY <1>3 DEF MaxCount

LEMMA MaxCountTyped == ASSUME RowsTyped PROVE MaxCount \in Nat
  BY MaxCountIsGreatest DEF RowsTyped, Rows

-----------------------------------------------------------------------------
(* What is recorded, and what is concluded from it.                        *)

LEMMA InitInv == ASSUME Init PROVE Inv
<1>1. Idle \in Jobs /\ Idle.step = "idle"
  BY DEF Jobs, Idle
<1>2. RowsTyped /\ QueuesTyped
  BY DEF Init, RowsTyped, QueuesTyped, NoPlaceholder, NoTurn
<1> QED
  BY <1>1, <1>2 DEF Init, Inv, JobTyped, Held, Concluded

\* A row that is recorded takes the place of its turn's and of its count's.
LEMMA UpsertTyped ==
  ASSUME RowsTyped, NEW row \in Rows, checkpoints' = Upsert(row)
  PROVE  RowsTyped'
<1>1. checkpoints' \subseteq checkpoints \cup {row} /\ row.count \in Nat
  BY DEF Upsert, Rows
<1>2. PICK bound \in Nat : \A c \in checkpoints : c.count <= bound
  BY DEF RowsTyped
<1> DEFINE higher == IF bound < row.count THEN row.count ELSE bound
<1>3. \A c \in checkpoints : c.count \in Nat
  BY DEF RowsTyped, Rows
<1>4. higher \in Nat /\ \A c \in checkpoints \cup {row} : c.count <= higher
  BY <1>1, <1>2, <1>3
<1> QED
  BY <1>1, <1>4 DEF RowsTyped

LEMMA JobFields ==
  ASSUME JobTyped
  PROVE  /\ job.step \in {"idle", "baseline", "capture", "record", "restore", "rollback",
                          "delete", "complete"}
         /\ job.step = "baseline" => job.count \in Nat
         /\ job.step \in {"capture", "record"} =>
              job \in [step : {"capture", "record"}, turn : Nat, count : Nat, status : Statuses]
         /\ job.step \in {"restore", "rollback", "delete", "complete"} =>
              job \in [step : {"restore", "rollback", "delete", "complete"},
                       target : Int, max : Nat, git : BOOLEAN, stale : SUBSET Nat]
  BY DEF JobTyped, Jobs, Idle

\* What the reactor concludes from an input.
LEMMA JobForHolds ==
  ASSUME RowsTyped, NEW e \in DomainEvents \cup RuntimeEvents
  PROVE  LET next == JobFor(e) IN
         /\ next \in Jobs
         /\ next.step \in {"idle", "baseline", "capture", "restore"}
         /\ next.step = "baseline" => next.count \notin DOMAIN refs
         /\ next.step = "restore" => \A n \in next.stale : n > next.target
<1> DEFINE Good(next) ==
             /\ next \in Jobs
             /\ next.step \in {"idle", "baseline", "capture", "restore"}
             /\ next.step = "baseline" => next.count \notin DOMAIN refs
             /\ next.step = "restore" => \A n \in next.stale : n > next.target
<1>1. MaxCount \in Nat
  BY MaxCountTyped
<1>2. \A c \in checkpoints : c.count \in Nat /\ c.git \in BOOLEAN
  BY DEF RowsTyped, Rows
<1>3. Good(Idle)
  BY DEF Jobs, Idle
<1>4. ASSUME NEW t \in Nat, NEW n \in Nat, NEW status \in Statuses
      PROVE  Good(CaptureJob(t, n, status))
  BY <1>4 DEF CaptureJob, Jobs
<1>5. CASE e.type = "start"
  <2>1. Good([step |-> "baseline", count |-> MaxCount]) \/ MaxCount \in DOMAIN refs
    BY <1>1 DEF Jobs
  <2>2. JobFor(e) = BaselineJob
    BY <1>5 DEF JobFor
  <2> QED
    BY <1>3, <2>1, <2>2 DEF BaselineJob
<1>6. CASE e.type = "completed"
  <2>1. e.turn \in Nat /\ e.outcome \in {"completed", "failed", "interrupted"}
    BY <1>6 DEF DomainEvents, RuntimeEvents, Start
  <2>2. StatusOf(e.outcome) \in Statuses
    BY <2>1 DEF StatusOf, Statuses
  <2>3. CountFor(e.turn) \in Nat
    <3>1. CASE Tracked(e.turn)
      <4>1. (CHOOSE c \in checkpoints : c.turn = e.turn) \in checkpoints
        BY <3>1 DEF Tracked
      <4> QED
        BY <1>2, <3>1, <4>1 DEF CountFor
    <3>2. CASE ~Tracked(e.turn)
      BY <1>1, <3>2 DEF CountFor
    <3> QED
      BY <3>1, <3>2
  <2>4. JobFor(e) = CompletionJob(e)
    BY <1>6 DEF JobFor
  <2>5. Good(CaptureJob(e.turn, CountFor(e.turn), StatusOf(e.outcome)))
    BY <1>4, <2>1, <2>2, <2>3
  <2> QED
    BY <1>3, <2>4, <2>5 DEF CompletionJob
<1>7. CASE e.type = "diff"
  <2>1. e.turn \in Nat /\ e.count \in Nat
    BY <1>7 DEF DomainEvents, RuntimeEvents, Start
  <2>2. JobFor(e) = PlaceholderJob(e)
    BY <1>7 DEF JobFor
  <2>3. Good(CaptureJob(e.turn, e.count, "ready"))
    BY <1>4, <2>1 DEF Statuses
  <2> QED
    BY <1>3, <2>2, <2>3 DEF PlaceholderJob
<1>8. CASE e.type = "revert"
  <2> DEFINE known == {c \in checkpoints : c.count = e.target}
             stale == {c.count : c \in {d \in checkpoints : d.count > e.target /\ d.git}}
             revert == [step |-> "restore", target |-> e.target, max |-> MaxCount,
                        git |-> \A c \in known : c.git, stale |-> stale]
  <2>1. e.target \in Int
    BY <1>8 DEF DomainEvents, RuntimeEvents, Start
  <2>2. stale \subseteq Nat /\ \A n \in stale : n > e.target
    BY <1>2
  <2>3. (\A c \in known : c.git) \in BOOLEAN
    OBVIOUS
  <2>4. Good(revert)
    BY <1>1, <2>1, <2>2, <2>3 DEF Jobs
  <2>5. JobFor(e) = RevertJob(e)
    BY <1>8 DEF JobFor
  <2>6. RevertJob(e) \in {Idle, revert}
    BY DEF RevertJob
  <2> QED
    BY <1>3, <2>4, <2>5, <2>6
<1>9. e.type \in {"start", "completed", "diff", "revert"}
  BY DEF DomainEvents, RuntimeEvents, Start
<1> QED
  BY <1>5, <1>6, <1>7, <1>8, <1>9

-----------------------------------------------------------------------------
(* The steps.                                                              *)

rows == <<checkpoints, job, refs>>

\* Typing of sequences under what the queues go through.
LEMMA AppendTyped ==
  ASSUME NEW S, NEW s \in Seq(S), NEW e \in S
  PROVE  Append(s, e) \in Seq(S)
  OBVIOUS

LEMMA AppendTwiceTyped ==
  ASSUME NEW S, NEW s \in Seq(S), NEW e \in S
  PROVE  s \o <<e, e>> \in Seq(S)
  OBVIOUS

LEMMA TailTyped ==
  ASSUME NEW S, NEW s \in Seq(S), s # <<>>
  PROVE  Head(s) \in S /\ Tail(s) \in Seq(S)
  OBVIOUS

\* User and agent touch neither rows nor refs.
LEMMA OthersKeep ==
  ASSUME Inv, Send \/ RequestRevert \/ TurnBegins \/ Edit \/ \E o \in Outcomes : TurnEnds(o)
  PROVE  Inv'
<1> USE DEF user, provider
<1>1. rows' = rows
  BY DEF Send, RequestRevert, TurnBegins, Edit, TurnEnds, rows
<1> SUFFICES QueuesTyped'
  BY <1>1 DEF Inv, RowsTyped, JobTyped, Held, Concluded, rows
<1>2. QueuesTyped
  BY DEF Inv
<1>3. Start \in DomainEvents /\ Start \in RuntimeEvents
  BY DEF DomainEvents, RuntimeEvents
<1>4. CASE Send
  <2>1. /\ sent' = sent + 1 /\ domain' = domain \o <<Start, Start>>
        /\ UNCHANGED <<ingest, runtime, placeholder, live>>
    BY <1>4 DEF Send
  <2> QED
    BY <1>2, <1>3, <2>1, AppendTwiceTyped DEF QueuesTyped
<1>5. CASE RequestRevert
  <2>1. PICK c \in checkpoints : domain' = Append(domain, [type |-> "revert", target |-> c.count - 1])
    BY <1>5 DEF RequestRevert
  <2>2. [type |-> "revert", target |-> c.count - 1] \in DomainEvents
    BY DEF Inv, RowsTyped, Rows, DomainEvents
  <2>3. UNCHANGED <<sent, ingest, runtime, placeholder, live>>
    BY <1>5 DEF RequestRevert
  <2> QED
    <3>1. domain' \in Seq(DomainEvents)
      BY <1>2, <2>1, <2>2, AppendTyped DEF QueuesTyped
    <3> QED
      BY <1>2, <2>3, <3>1 DEF QueuesTyped
<1>6. CASE TurnBegins
  <2>1. [type |-> "started", turn |-> sent] \in IngestEvents
    BY <1>2 DEF QueuesTyped, IngestEvents
  <2>2. /\ live' = sent /\ runtime' = Append(runtime, Start)
        /\ ingest' = Append(ingest, [type |-> "started", turn |-> sent])
        /\ UNCHANGED <<sent, domain, placeholder>>
    BY <1>6 DEF TurnBegins
  <2>3. ingest' \in Seq(IngestEvents) /\ runtime' \in Seq(RuntimeEvents)
    BY <1>2, <1>3, <2>1, <2>2, AppendTyped DEF QueuesTyped
  <2> QED
    BY <1>2, <2>2, <2>3 DEF QueuesTyped
<1>7. CASE Edit
  <2>1. [type |-> "diff", turn |-> live] \in IngestEvents
    BY <1>2 DEF QueuesTyped, IngestEvents
  <2>2. /\ ingest' \in {ingest, Append(ingest, [type |-> "diff", turn |-> live])}
        /\ UNCHANGED <<sent, live, runtime, domain, placeholder>>
    BY <1>7 DEF Edit
  <2>3. ingest' \in Seq(IngestEvents)
    BY <1>2, <2>1, <2>2, AppendTyped DEF QueuesTyped
  <2> QED
    BY <1>2, <2>2, <2>3 DEF QueuesTyped
<1>8. CASE \E o \in Outcomes : TurnEnds(o)
  <2>0. PICK o \in Outcomes : TurnEnds(o)
    BY <1>8
  <2>1. /\ [type |-> "completed", turn |-> live] \in IngestEvents
        /\ [type |-> "completed", turn |-> live, outcome |-> o] \in RuntimeEvents
    BY <1>2, CheckpointsAssumption DEF QueuesTyped, IngestEvents, RuntimeEvents
  <2>2. /\ ingest' = Append(ingest, [type |-> "completed", turn |-> live])
        /\ runtime' = Append(runtime, [type |-> "completed", turn |-> live, outcome |-> o])
        /\ live' = NoTurn /\ UNCHANGED <<sent, domain, placeholder>>
    BY <2>0 DEF TurnEnds
  <2>3. ingest' \in Seq(IngestEvents) /\ runtime' \in Seq(RuntimeEvents)
    BY <1>2, <2>1, <2>2, AppendTyped DEF QueuesTyped
  <2> QED
    BY <1>2, <2>2, <2>3 DEF QueuesTyped, NoTurn
<1> QED
  BY <1>4, <1>5, <1>6, <1>7, <1>8

LEMMA IngestKeeps ==
  ASSUME Inv, IngestStep
  PROVE  Inv'
<1>1. QueuesTyped /\ RowsTyped
  BY DEF Inv
<1>2. MaxCount \in Nat
  BY <1>1, MaxCountTyped
<1>3. NoPlaceholder \in [turn : Nat, count : Nat]
  BY DEF NoPlaceholder, NoTurn
<1>4. CASE IngestStarted \/ IngestCompleted
  <2>1. /\ ingest # <<>> /\ ingest' = Tail(ingest)
        /\ UNCHANGED <<rows, sent, live, runtime, domain, placeholder>>
    BY <1>4 DEF IngestStarted, IngestCompleted, IngestLifecycle, Ingesting, user, provider, rows
  <2>2. QueuesTyped'
    BY <1>1, <2>1, TailTyped DEF QueuesTyped
  <2> QED
    BY <2>1, <2>2 DEF Inv, RowsTyped, JobTyped, Held, Concluded, rows
<1>5. CASE IngestDiff
  <2>1. ingest # <<>> /\ Head(ingest) \in IngestEvents
    BY <1>1, <1>5 DEF IngestDiff, Ingesting, QueuesTyped
  <2>2. [turn |-> Head(ingest).turn, count |-> MaxCount + 1] \in [turn : Nat, count : Nat]
    BY <1>2, <2>1 DEF IngestEvents
  <2>3. placeholder' \in [turn : Nat, count : Nat]
    BY <1>3, <1>5, <2>2 DEF IngestDiff
  <2>4. /\ ingest # <<>> /\ ingest' = Tail(ingest)
        /\ UNCHANGED <<rows, sent, live, runtime, domain>>
    BY <1>5 DEF IngestDiff, Ingesting, user, provider, rows
  <2>5. QueuesTyped'
    BY <1>1, <2>3, <2>4, TailTyped DEF QueuesTyped
  <2> QED
    BY <2>4, <2>5 DEF Inv, RowsTyped, JobTyped, Held, Concluded, rows
<1>6. CASE RecordPlaceholder
  <2> DEFINE row == Row(placeholder.turn, placeholder.count, "missing", FALSE)
             diff == Diff(placeholder.turn, placeholder.count, "missing")
  <2>1. row \in Rows /\ diff \in DomainEvents /\ row.git = FALSE
    BY <1>1 DEF QueuesTyped, Row, Rows, Diff, DomainEvents, Statuses
  <2>2. checkpoints' = Upsert(row) /\ domain' = Append(domain, diff) /\ job' = job /\ refs' = refs
    BY <1>6 DEF RecordPlaceholder
  <2>3. RowsTyped'
    BY <1>1, <2>1, <2>2, UpsertTyped
  <2>4. QueuesTyped'
    BY <1>1, <1>3, <1>6, <2>1, <2>2 DEF RecordPlaceholder, QueuesTyped, user, provider
  <2>5. \A c \in checkpoints' : c.git => c \in checkpoints
    BY <2>1, <2>2 DEF Upsert
  <2> QED
    BY <2>2, <2>3, <2>4, <2>5 DEF Inv, JobTyped, Held, Concluded
<1> QED
  BY <1>4, <1>5, <1>6 DEF IngestStep

\* Nothing but the reactor's own step has changed what it concluded from.
LEMMA TakeKeeps ==
  ASSUME Inv, TakeRuntime \/ TakeDomain
  PROVE  Inv'
<1> USE DEF user, provider
<1>1. job = Idle /\ job.step = "idle" /\ RowsTyped /\ QueuesTyped
  BY DEF TakeRuntime, TakeDomain, Idle, Inv
<1>2. PICK e \in DomainEvents \cup RuntimeEvents : job' = JobFor(e)
  <2>1. CASE TakeRuntime
    <3>1. Head(runtime) \in RuntimeEvents
      BY <1>1, <2>1 DEF TakeRuntime, QueuesTyped
    <3> QED
      BY <2>1, <3>1 DEF TakeRuntime
  <2>2. CASE TakeDomain
    <3>1. Head(domain) \in DomainEvents
      BY <1>1, <2>2 DEF TakeDomain, QueuesTyped
    <3> QED
      BY <2>2, <3>1 DEF TakeDomain
  <2> QED
    BY <2>1, <2>2
<1>3. checkpoints' = checkpoints /\ refs' = refs
  BY DEF TakeRuntime, TakeDomain
<1>4. QueuesTyped'
  <2>1. /\ UNCHANGED <<ingest, placeholder, sent, live>>
        /\ \/ runtime # <<>> /\ runtime' = Tail(runtime) /\ domain' = domain
           \/ domain # <<>> /\ domain' = Tail(domain) /\ runtime' = runtime
    BY DEF TakeRuntime, TakeDomain
  <2> QED
    BY <1>1, <2>1, TailTyped DEF QueuesTyped
<1>5. /\ job' \in Jobs /\ job'.step \in {"idle", "baseline", "capture", "restore"}
      /\ job'.step = "baseline" => job'.count \notin DOMAIN refs
      /\ job'.step = "restore" => \A n \in job'.stale : n > job'.target
  BY <1>1, <1>2, JobForHolds
<1>6. \A c \in checkpoints : c.git => c.count \in DOMAIN refs /\ refs[c.count].turn = c.turn
  BY <1>1 DEF Inv, Held
<1>7. Held'
  BY <1>3, <1>6 DEF Held
<1>8. Concluded'
  BY <1>3, <1>5 DEF Concluded
<1> QED
  BY <1>1, <1>3, <1>4, <1>5, <1>7, <1>8 DEF Inv, RowsTyped, JobTyped

\* Captures: a ref is made where no row has one, or where its row comes next.
LEMMA CaptureKeeps ==
  ASSUME Inv, CaptureBaseline \/ CaptureTurn \/ RecordCheckpoint
  PROVE  Inv'
<1> USE DEF user, provider
<1>1. RowsTyped /\ QueuesTyped /\ JobTyped /\ Held /\ Concluded
  BY DEF Inv
<1>2. Idle \in Jobs /\ Idle.step = "idle"
  BY DEF Jobs, Idle
<1>3. CASE CaptureBaseline
  <2>1. /\ job.step = "baseline" /\ job' = Idle /\ checkpoints' = checkpoints
        /\ refs' = [n \in DOMAIN refs \cup {job.count} |->
                      IF n = job.count THEN [turn |-> NoTurn, files |-> files] ELSE refs[n]]
    BY <1>3 DEF CaptureBaseline, CaptureRef
  <2>2. QueuesTyped'
    BY <1>1, <1>3 DEF CaptureBaseline, QueuesTyped
  <2>3. \A c \in checkpoints : c.git => c.count # job.count
    BY <1>1, <2>1 DEF Held, Concluded
  <2>4. \A c \in checkpoints : c.git => c.count \in DOMAIN refs' /\ refs'[c.count].turn = c.turn
    BY <1>1, <2>1, <2>3 DEF Held
  <2> QED
    BY <1>1, <1>2, <2>1, <2>2, <2>4 DEF Inv, RowsTyped, JobTyped, Held, Concluded
<1>4. CASE CaptureTurn
  <2>1. /\ job.step = "capture" /\ job' = [job EXCEPT !.step = "record"] /\ checkpoints' = checkpoints
        /\ refs' = [n \in DOMAIN refs \cup {job.count} |->
                      IF n = job.count THEN [turn |-> job.turn, files |-> files] ELSE refs[n]]
    BY <1>4 DEF CaptureTurn, CaptureRef
  <2>2. job \in [step : {"capture", "record"}, turn : Nat, count : Nat, status : Statuses]
    BY <1>1, <2>1, JobFields
  <2>3. /\ job' \in [step : {"capture", "record"}, turn : Nat, count : Nat, status : Statuses]
        /\ job'.step = "record" /\ job'.count = job.count /\ job'.turn = job.turn
    BY <2>1, <2>2
  <2>4. QueuesTyped' /\ JobTyped'
    BY <1>1, <1>4, <2>3 DEF CaptureTurn, QueuesTyped, JobTyped, Jobs
  <2>5. Held'
    BY <1>1, <2>1, <2>3 DEF Held
  <2>6. Concluded'
    BY <2>1, <2>3 DEF Concluded
  <2> QED
    BY <1>1, <2>1, <2>4, <2>5, <2>6 DEF Inv, RowsTyped
<1>5. CASE RecordCheckpoint
  <2> DEFINE row == Row(job.turn, job.count, job.status, TRUE)
             diff == Diff(job.turn, job.count, job.status)
  <2>1. /\ job.step = "record" /\ job' = Idle /\ refs' = refs
        /\ checkpoints' = Upsert(row) /\ domain' = Append(domain, diff)
    BY <1>5 DEF RecordCheckpoint
  <2>2. job \in [step : {"capture", "record"}, turn : Nat, count : Nat, status : Statuses]
    BY <1>1, <2>1, JobFields
  <2>3. row \in Rows /\ diff \in DomainEvents /\ row.turn = job.turn /\ row.count = job.count
    BY <2>2 DEF Row, Rows, Diff, DomainEvents
  <2>4. RowsTyped'
    BY <1>1, <2>1, <2>3, UpsertTyped
  <2>5. QueuesTyped'
    BY <1>1, <1>5, <2>1, <2>3 DEF RecordCheckpoint, QueuesTyped
  <2>6. \A c \in checkpoints' : c.git => c.count \in DOMAIN refs /\ refs[c.count].turn = c.turn
    <3>1. \A c \in checkpoints' : c = row \/ (c \in checkpoints /\ c.count # job.count)
      BY <2>1, <2>3 DEF Upsert
    <3> QED
      BY <1>1, <2>1, <2>3, <3>1 DEF Held, Concluded
  <2> QED
    BY <1>2, <2>1, <2>4, <2>5, <2>6 DEF Inv, JobTyped, Held, Concluded
<1> QED
  BY <1>3, <1>4, <1>5

\* A revert: the rows above its target lose their refs first, then they go.
LEMMA RevertKeeps ==
  ASSUME Inv, Restore \/ Rollback \/ DeleteRefs \/ CompleteRevert
  PROVE  Inv'
<1> USE DEF user, provider
<1> DEFINE Steps == {"restore", "rollback", "delete", "complete"}
           Reverts == [step : Steps, target : Int, max : Nat, git : BOOLEAN, stale : SUBSET Nat]
<1>1. RowsTyped /\ QueuesTyped /\ JobTyped /\ Held /\ Concluded
  BY DEF Inv
<1>2. Idle \in Jobs /\ Idle.step = "idle"
  BY DEF Jobs, Idle
<1>3. job \in Reverts
  BY <1>1, JobFields DEF Restore, Rollback, DeleteRefs, CompleteRevert
<1>4. QueuesTyped'
  BY <1>1 DEF Restore, Rollback, DeleteRefs, CompleteRevert, QueuesTyped
<1>5. ASSUME NEW step \in Steps
      PROVE  LET next == [job EXCEPT !.step = step] IN
             next \in Reverts /\ next.step = step /\ next.target = job.target /\ next.stale = job.stale
  BY <1>3
<1>6. Reverts \subseteq Jobs
  BY DEF Jobs
<1> HIDE DEF Reverts
<1>7. CASE Restore \/ Rollback
  <2>1. /\ checkpoints' = checkpoints /\ refs' = refs /\ job.step \in {"restore", "rollback"}
        /\ \/ job' = Idle
           \/ job' = [job EXCEPT !.step = "rollback"]
           \/ job' = [job EXCEPT !.step = "delete"]
    BY <1>7 DEF Restore, Rollback
  <2>2. /\ job' \in Jobs
        /\ \/ job'.step = "idle"
           \/ job'.step \in {"rollback", "delete"} /\ job'.target = job.target /\ job'.stale = job.stale
    BY <1>2, <1>5, <1>6, <2>1
  <2>3. Held'
    BY <1>1, <2>1 DEF Held
  <2>4. Concluded'
    BY <1>1, <2>1, <2>2 DEF Concluded
  <2> QED
    BY <1>1, <1>4, <2>1, <2>2, <2>3, <2>4 DEF Inv, RowsTyped, JobTyped
<1>8. CASE DeleteRefs
  <2>1. /\ job.step = "delete" /\ checkpoints' = checkpoints
        /\ refs' = [n \in DOMAIN refs \ job.stale |-> refs[n]]
        /\ job' = [job EXCEPT !.step = "complete"]
    BY <1>8 DEF DeleteRefs
  <2>2. job' \in Jobs /\ job'.step = "complete" /\ job'.target = job.target
    BY <1>5, <1>6, <2>1
  <2>3. \A n \in job.stale : n > job.target
    BY <1>1, <2>1 DEF Concluded
  <2>4. Held'
    BY <1>1, <2>1, <2>2, <2>3 DEF Held
  <2>5. Concluded'
    BY <2>2 DEF Concluded
  <2> QED
    BY <1>1, <1>4, <2>1, <2>2, <2>4, <2>5 DEF Inv, RowsTyped, JobTyped
<1>9. CASE CompleteRevert
  <2>1. /\ job.step = "complete" /\ job' = Idle /\ refs' = refs
        /\ checkpoints' = {c \in checkpoints : c.count <= job.target}
    BY <1>9 DEF CompleteRevert
  <2>2. \A c \in checkpoints : c.count \in Nat
    BY <1>1 DEF RowsTyped, Rows
  <2>3. job.target \in Int
    BY <1>3 DEF Reverts
  <2>4. \A c \in checkpoints' : c.git => c.count \in DOMAIN refs /\ refs[c.count].turn = c.turn
    BY <1>1, <2>1, <2>2, <2>3 DEF Held
  <2>5. RowsTyped'
    BY <1>1, <2>1 DEF RowsTyped
  <2> QED
    BY <1>2, <1>4, <2>1, <2>4, <2>5 DEF Inv, JobTyped, Held, Concluded
<1> QED
  BY <1>7, <1>8, <1>9

\* A step that fails leaves what it would have done undone, which is no loss of a ref:
\* recording and deleting are not among those that may fail.
LEMMA FailureKeeps ==
  ASSUME Inv, StepFails
  PROVE  Inv'
<1> USE DEF user, provider
<1>1. job.step \in {"baseline", "capture", "restore", "rollback"}
  BY CheckpointsAssumption DEF StepFails
<1>2. Idle \in Jobs /\ Idle.step = "idle"
  BY DEF Jobs, Idle
<1>3. /\ job' = Idle
      /\ UNCHANGED <<checkpoints, refs, ingest, runtime, domain, placeholder, sent, live>>
  BY DEF StepFails
<1>4. RowsTyped' /\ QueuesTyped'
  BY <1>3 DEF Inv, RowsTyped, QueuesTyped
<1>5. Held'
  BY <1>1, <1>3 DEF Inv, Held
<1> QED
  BY <1>2, <1>3, <1>4, <1>5 DEF Inv, JobTyped, Concluded

LEMMA StepInv == ASSUME Inv, [Next]_vars PROVE Inv'
<1>1. CASE UNCHANGED vars
  BY <1>1 DEF vars, user, provider, Inv, RowsTyped, QueuesTyped, JobTyped, Held, Concluded
<1> QED
  BY <1>1, OthersKeep, IngestKeeps, TakeKeeps, CaptureKeeps, RevertKeeps, FailureKeeps
     DEF Next, ReactorStep

-----------------------------------------------------------------------------
(* The theorems.                                                           *)

\* What is above holds in every state.
THEOREM Invariance == Spec => []Inv
<1>1. Init => Inv
  BY InitInv
<1>2. Inv /\ [Next]_vars => Inv'
  BY StepInv
<1> QED
  BY <1>1, <1>2, PTL DEF Spec

\* A row that says it has a checkpoint has the one of its turn, whoever counts, captures
\* or reverts meanwhile, and whichever of the steps in Faults fail.
THEOREM RefsStay == Spec => []RefsAreCaptured
<1>1. Inv => RefsAreCaptured
  BY DEF Inv, Held, RefsAreCaptured, Idle
<1> QED
  BY <1>1, Invariance, PTL

-----------------------------------------------------------------------------
(* When the user waits: rows and conversation.                             *)

Length == Len(conversation)
Latest == conversation[Length]
Has(n) == \E c \in checkpoints : c.count = n

\* Turns are sent in order, and counts belong to one row each.
Ordered ==
  /\ conversation \in Seq(Nat) /\ sent \in Nat
  /\ \A i \in 1 .. Length : 0 < conversation[i] /\ conversation[i] <= sent
  /\ \A i, j \in 1 .. Length : i < j => conversation[i] < conversation[j]
  /\ pending => sent > 0 /\ \A i \in 1 .. Length : conversation[i] < sent
Unique == \A c, d \in checkpoints : c.count = d.count => c = d

Matching == \A c \in checkpoints : c.count \in 1 .. Length /\ conversation[c.count] = c.turn
Filled(n) == \A k \in 1 .. n : Has(k)

NothingIngested == ingest = <<>> /\ runtime = <<>> /\ placeholder = NoPlaceholder /\ live = NoTurn

\* Nothing is going on.
Resting ==
  /\ ~pending /\ NothingIngested /\ domain = <<>> /\ job = Idle /\ active = NoTurn
  /\ Matching /\ Filled(Length)

\* A turn is sent and has not reached the agent.
Waiting ==
  /\ pending /\ NothingIngested /\ domain \in Seq({Start}) /\ active = NoTurn
  /\ job.step \in {"idle", "baseline"}
  /\ Matching /\ Filled(Length)

\* The latest turn is the only one that anything is about, and it gets the next count.
IngestNow == [type : {"started", "diff", "completed"}, turn : {Latest}]
RuntimeNow ==
  {Start} \cup [type : {"completed"}, turn : {Latest}, outcome : {"completed", "failed", "interrupted"}]
DomainNow ==
  {Start} \cup [type : {"diff"}, turn : {Latest}, count : {Length}, status : Statuses]
PlaceholderNow == [turn |-> Latest, count |-> Length]
JobNow ==
  \/ job.step \in {"idle", "baseline"}
  \/ job.step \in {"capture", "record"} /\ job.turn = Latest /\ job.count = Length
Promised ==
  \/ live # NoTurn
  \/ \E i \in 1 .. Len(runtime) : runtime[i].type = "completed"
  \/ job.step \in {"capture", "record"}
Turning ==
  /\ ~pending /\ Length > 0
  /\ live \in {NoTurn, Latest} /\ active \in {NoTurn, Latest}
  /\ ingest \in Seq(IngestNow) /\ runtime \in Seq(RuntimeNow) /\ domain \in Seq(DomainNow)
  /\ placeholder \in {NoPlaceholder, PlaceholderNow} /\ JobNow
  /\ Matching /\ Filled(Length - 1) /\ (Has(Length) \/ Promised)

\* A revert, and nothing else.
Reverting ==
  /\ ~pending /\ NothingIngested /\ active = NoTurn
  /\ \/ /\ job = Idle
        /\ \E target \in 0 .. Length - 1 : domain = <<[type |-> "revert", target |-> target]>>
        /\ Matching /\ Filled(Length)
     \/ /\ job.step \in {"restore", "rollback"} /\ domain = <<>>
        /\ job.max = Length /\ job.target \in 0 .. Length - 1
        /\ Matching /\ Filled(Length)
     \/ /\ job.step \in {"delete", "complete"} /\ domain = <<>>
        /\ job.target = Length
        /\ \A c \in checkpoints : c.count >= 1 /\ (c.count <= Length => conversation[c.count] = c.turn)
        /\ Filled(Length)

Phase == Resting \/ Waiting \/ Turning \/ Reverting
Story == patient => Ordered /\ Unique /\ Phase

\* The next count is the one after the conversation's, or the latest turn's.
LEMMA MaxWhenFilled ==
  ASSUME RowsTyped, Ordered, Matching, Filled(Length)
  PROVE  MaxCount = Length
<1>1. Length \in Nat
  BY DEF Ordered, Length
<1>2. MaxCount \in 0 .. Length
  BY <1>1, MaxCountIsGreatest DEF Matching
<1>3. ASSUME Length > 0 PROVE Length <= MaxCount
  <2>1. Has(Length)
    BY <1>1, <1>3 DEF Filled
  <2> QED
    BY <2>1, MaxCountIsGreatest DEF Has
<1> QED
  BY <1>1, <1>2, <1>3

LEMMA MaxWhenMissing ==
  ASSUME RowsTyped, Ordered, Matching, Length > 0, Filled(Length - 1), ~Tracked(Latest)
  PROVE  MaxCount = Length - 1
<1>1. Length \in Nat \ {0}
  BY DEF Ordered, Length
<1>2. \A c \in checkpoints : c.count # Length
  BY DEF Matching, Tracked, Latest
<1>3. MaxCount \in 0 .. Length - 1
  BY <1>1, <1>2, MaxCountIsGreatest DEF Matching
<1>4. ASSUME Length - 1 > 0 PROVE Length - 1 <= MaxCount
  <2>1. Has(Length - 1)
    BY <1>1, <1>4 DEF Filled
  <2> QED
    BY <2>1, MaxCountIsGreatest DEF Has
<1> QED
  BY <1>1, <1>3, <1>4

\* A row of the latest turn is the row of the last count.
LEMMA LatestIsLast ==
  ASSUME Ordered, Matching, Length > 0, NEW c \in checkpoints
  PROVE  c.turn = Latest <=> c.count = Length
<1>1. Length \in Nat \ {0} /\ c.count \in 1 .. Length /\ conversation[c.count] = c.turn
  BY DEF Ordered, Length, Matching
<1>2. c.count < Length => conversation[c.count] < conversation[Length]
  BY <1>1 DEF Ordered
<1>3. conversation[Length] \in Nat /\ conversation[c.count] \in Nat
  BY <1>1 DEF Ordered, Length
<1> QED
  BY <1>1, <1>2, <1>3 DEF Latest

\* Recording the latest turn completes the rows.
LEMMA UpsertLatest ==
  ASSUME Ordered, Unique, Matching, Length > 0, Filled(Length - 1),
         NEW row, row.turn = Latest, row.count = Length,
         checkpoints' = Upsert(row), conversation' = conversation
  PROVE  Unique' /\ Matching' /\ Filled(Length)'
<1>1. Length \in Nat \ {0} /\ Length' = Length
  BY DEF Ordered, Length
<1>2. \A c : c \in checkpoints' <=> (c = row \/ (c \in checkpoints /\ c.count # Length))
  BY LatestIsLast DEF Upsert
<1>3. Unique'
  BY <1>2 DEF Unique
<1>4. Matching'
  BY <1>1, <1>2 DEF Matching, Latest
<1>5. ASSUME NEW k \in 1 .. Length PROVE Has(k)'
  <2>1. CASE k = Length
    BY <1>2, <2>1 DEF Has
  <2>2. CASE k # Length
    <3>1. PICK c \in checkpoints : c.count = k
      BY <1>1, <2>2 DEF Filled, Has
    <3> QED
      BY <1>2, <2>2, <3>1 DEF Has
  <2> QED
    BY <2>1, <2>2
<1> QED
  BY <1>1, <1>3, <1>4, <1>5 DEF Filled

LEMMA FilledNext ==
  ASSUME Length \in Nat, Filled(Length - 1), Has(Length)
  PROVE  Filled(Length)
  BY DEF Filled

\* When all is quiet, nothing is promised any more.
LEMMA QuietRests == ASSUME Ordered, Phase, Quiet PROVE Matching /\ Filled(Length)
<1>1. job.step = "idle" /\ Length \in Nat
  BY DEF Quiet, Idle, Ordered, Length
<1>2. ASSUME Turning PROVE Filled(Length)
  <2>1. ~Promised
    BY <1>1 DEF Quiet, Promised
  <2> QED
    BY <1>1, <1>2, <2>1, FilledNext DEF Turning
<1> QED
  BY <1>1, <1>2 DEF Phase, Resting, Waiting, Turning, Reverting, Quiet

\* The user sends or reverts.
LEMMA UserStory ==
  ASSUME Inv, Ordered, Unique, Phase, patient, Send \/ RequestRevert
  PROVE  Ordered' /\ Unique' /\ Phase'
<1> USE DEF user, provider
<1>1. Quiet /\ active = NoTurn
  BY DEF Send, RequestRevert, Ready
<1>2. Matching /\ Filled(Length)
  BY <1>1, QuietRests
<1>3. /\ UNCHANGED <<live, conversation, ingest, runtime, active, checkpoints, placeholder, job>>
      /\ Length' = Length
  BY DEF Send, RequestRevert, Length
<1>4. Unique' /\ Matching' /\ Filled(Length)'
  BY <1>2, <1>3 DEF Unique, Matching, Filled, Has
<1>5. CASE Send
  <2>1. pending' /\ sent' = sent + 1 /\ domain' = <<>> \o <<Start, Start>>
    BY <1>1, <1>5 DEF Send, Quiet
  <2>2. domain' \in Seq({Start})
    BY <2>1
  <2>3. Ordered'
    BY <1>3, <2>1 DEF Ordered, Length
  <2>4. Waiting'
    BY <1>1, <1>3, <1>4, <2>1, <2>2 DEF Waiting, NothingIngested, Quiet, Idle
  <2> QED
    BY <1>4, <2>3, <2>4 DEF Phase
<1>6. CASE RequestRevert
  <2>1. /\ ~pending' /\ Ordered'
    BY <1>1, <1>3, <1>6 DEF RequestRevert, Quiet, Ordered, Length
  <2>2. PICK c \in checkpoints : domain' = Append(<<>>, [type |-> "revert", target |-> c.count - 1])
    BY <1>1, <1>6 DEF RequestRevert, Quiet
  <2>3. c.count - 1 \in 0 .. Length - 1 /\ Length \in Nat
    BY <1>2 DEF Matching, Ordered, Length
  <2>4. domain' = <<[type |-> "revert", target |-> c.count - 1]>>
    BY <2>2
  <2>5. Reverting'
    BY <1>1, <1>3, <1>4, <2>1, <2>3, <2>4 DEF Reverting, NothingIngested, Quiet
  <2> QED
    BY <1>4, <2>1, <2>5 DEF Phase
<1> QED
  BY <1>5, <1>6

\* A turn reaches the agent.
LEMMA BeginsStory ==
  ASSUME Inv, Ordered, Unique, Phase, TurnBegins
  PROVE  Ordered' /\ Unique' /\ Phase'
<1> USE DEF user, provider
<1>1. Waiting
  BY DEF Phase, Resting, Turning, Reverting, TurnBegins
<1>2. /\ pending /\ ~pending' /\ live' = sent /\ conversation' = Append(conversation, sent)
      /\ ingest' = <<[type |-> "started", turn |-> sent]>> /\ runtime' = <<Start>>
      /\ UNCHANGED <<sent, domain, active, checkpoints, placeholder, job>>
  BY <1>1 DEF TurnBegins, Waiting, NothingIngested
<1>3. /\ Length \in Nat /\ Length' = Length + 1 /\ Latest' = sent /\ sent > 0 /\ sent \in Nat
      /\ \A i \in 1 .. Length : conversation'[i] = conversation[i]
      /\ conversation'[Length + 1] = sent /\ conversation' \in Seq(Nat)
  BY <1>2 DEF Ordered, Length, Latest
<1>4. Ordered'
  <2>1. \A i \in 1 .. Length + 1 : 0 < conversation'[i] /\ conversation'[i] <= sent
    BY <1>2, <1>3 DEF Ordered
  <2>2. \A i, j \in 1 .. Length + 1 : i < j => conversation'[i] < conversation'[j]
    BY <1>2, <1>3 DEF Ordered
  <2> QED
    BY <1>2, <1>3, <2>1, <2>2 DEF Ordered
<1>5. Unique' /\ Matching' /\ Filled(Length - 1)'
  <2>1. Unique /\ Matching /\ Filled(Length)
    BY <1>1 DEF Waiting
  <2>2. Unique'
    BY <1>2, <2>1 DEF Unique
  <2>3. \A c \in checkpoints : c.count \in 1 .. Length /\ conversation'[c.count] = c.turn
    BY <1>3, <2>1 DEF Matching
  <2>4. checkpoints' = checkpoints /\ \A n \in 1 .. Length : n \in 1 .. Length'
    BY <1>2, <1>3
  <2>5. Matching'
    BY <2>3, <2>4 DEF Matching
  <2>6. Filled(Length - 1)'
    BY <1>3, <2>1, <2>4 DEF Filled, Has
  <2> QED
    BY <2>2, <2>5, <2>6
<1>6. ingest' \in Seq(IngestNow')
  <2>1. [type |-> "started", turn |-> sent] \in IngestNow'
    BY <1>3 DEF IngestNow
  <2> QED
    BY <1>2, <2>1
<1>7. runtime' \in Seq(RuntimeNow') /\ domain' \in Seq(DomainNow')
  <2>1. Start \in RuntimeNow' /\ Start \in DomainNow'
    BY DEF RuntimeNow, DomainNow
  <2> QED
    BY <1>1, <1>2, <2>1 DEF Waiting
<1>8. Turning'
  BY <1>1, <1>2, <1>3, <1>5, <1>6, <1>7 DEF Turning, Waiting, NothingIngested, JobNow, Promised, NoTurn
<1> QED
  BY <1>4, <1>5, <1>8 DEF Phase

\* The agent works on the latest turn, and then no longer.
LEMMA AgentStory ==
  ASSUME Inv, Ordered, Unique, Phase, Edit \/ \E o \in Outcomes : TurnEnds(o)
  PROVE  Ordered' /\ Unique' /\ Phase'
<1> USE DEF user, provider
<1>1. Turning /\ live = Latest /\ live # NoTurn
  BY DEF Phase, Resting, Waiting, Turning, Reverting, NothingIngested, Edit, TurnEnds
<1>2. UNCHANGED <<sent, pending, conversation, domain, active, checkpoints, placeholder, job>>
  BY DEF Edit, TurnEnds
<1>3. Length' = Length /\ Latest' = Latest /\ Ordered'
  BY <1>2 DEF Length, Latest, Ordered
<1>4. Unique' /\ Matching' /\ Filled(Length - 1)' /\ JobNow'
  BY <1>1, <1>2, <1>3 DEF Unique, Matching, Filled, Has, Turning, JobNow
<1>5. IngestNow' = IngestNow /\ RuntimeNow' = RuntimeNow /\ DomainNow' = DomainNow
      /\ PlaceholderNow' = PlaceholderNow
  BY <1>3 DEF IngestNow, RuntimeNow, DomainNow, PlaceholderNow
<1>6. PICK type \in {"diff", "completed"} :
        ingest' \in {ingest, Append(ingest, [type |-> type, turn |-> live])}
  BY DEF Edit, TurnEnds
<1>7. ingest' \in Seq(IngestNow)
  <2>1. [type |-> type, turn |-> live] \in IngestNow /\ ingest \in Seq(IngestNow)
    BY <1>1 DEF IngestNow, Turning
  <2> QED
    BY <1>6, <2>1, AppendTyped
<1>8. live' \in {NoTurn, Latest} /\ runtime' \in Seq(RuntimeNow) /\ Promised'
  <2>0. runtime \in Seq(RuntimeNow)
    BY <1>1 DEF Turning
  <2>1. CASE Edit
    BY <1>1, <2>0, <2>1 DEF Edit, Promised
  <2>2. CASE \E o \in Outcomes : TurnEnds(o)
    <3>1. PICK o \in Outcomes : TurnEnds(o)
      BY <2>2
    <3> DEFINE e == [type |-> "completed", turn |-> live, outcome |-> o]
    <3>2. live' = NoTurn /\ runtime' = Append(runtime, e) /\ e.type = "completed"
      BY <3>1 DEF TurnEnds
    <3>3. e \in RuntimeNow
      BY <1>1, CheckpointsAssumption DEF RuntimeNow
    <3>4. runtime' \in Seq(RuntimeNow)
      BY <2>0, <3>2, <3>3, AppendTyped
    <3> HIDE DEF e
    <3>5. Len(runtime') \in 1 .. Len(runtime') /\ runtime'[Len(runtime')] = e
      BY <2>0, <3>2, <3>3
    <3> QED
      BY <3>2, <3>4, <3>5 DEF Promised
  <2> QED
    BY <2>1, <2>2
<1>9. Turning'
  BY <1>1, <1>2, <1>3, <1>4, <1>5, <1>7, <1>8 DEF Turning
<1> QED
  BY <1>3, <1>4, <1>9 DEF Phase

\* What a step without conversation and rows keeps.
LEMMA Still ==
  ASSUME Ordered, Unique, UNCHANGED <<sent, pending, conversation, checkpoints>>
  PROVE  /\ Length' = Length /\ Latest' = Latest /\ Ordered' /\ Unique'
         /\ Matching => Matching'
         /\ Filled(Length) => Filled(Length)'
         /\ Filled(Length - 1) => Filled(Length - 1)'
         /\ Has(Length) => Has(Length)'
         /\ IngestNow' = IngestNow /\ RuntimeNow' = RuntimeNow /\ DomainNow' = DomainNow
         /\ PlaceholderNow' = PlaceholderNow
<1>1. Length' = Length /\ Latest' = Latest
  BY DEF Length, Latest
<1>2. Ordered' /\ Unique'
  BY <1>1 DEF Ordered, Unique
<1>3. Matching => Matching'
  BY <1>1 DEF Matching
<1>4. /\ Filled(Length) => Filled(Length)'
      /\ Filled(Length - 1) => Filled(Length - 1)'
      /\ Has(Length) => Has(Length)'
  BY <1>1 DEF Filled, Has
<1>5. /\ IngestNow' = IngestNow /\ RuntimeNow' = RuntimeNow /\ DomainNow' = DomainNow
      /\ PlaceholderNow' = PlaceholderNow
  BY <1>1 DEF IngestNow, RuntimeNow, DomainNow, PlaceholderNow
<1> QED
  BY <1>1, <1>2, <1>3, <1>4, <1>5

\* Ingestion is only about the latest turn.
LEMMA IngestStory ==
  ASSUME Inv, Ordered, Unique, Phase, IngestStep
  PROVE  Ordered' /\ Unique' /\ Phase'
<1> USE DEF user, provider
<1>0. ~NothingIngested
  BY DEF NothingIngested, IngestStep, IngestStarted, IngestCompleted, IngestLifecycle,
         IngestDiff, Ingesting, RecordPlaceholder
<1>1. Turning /\ RowsTyped /\ Length \in Nat \ {0}
  <2>1. Turning
    BY <1>0 DEF Phase, Resting, Waiting, Reverting
  <2> QED
    BY <2>1 DEF Turning, Inv, Ordered, Length
<1>2. CASE IngestStarted \/ IngestCompleted \/ IngestDiff
  <2>1. /\ UNCHANGED <<sent, pending, conversation, checkpoints, live, runtime, domain, job>>
        /\ ingest # <<>> /\ ingest' = Tail(ingest)
    BY <1>2 DEF IngestStarted, IngestCompleted, IngestLifecycle, IngestDiff, Ingesting
  <2>2. Head(ingest) \in IngestNow /\ ingest' \in Seq(IngestNow)
    BY <1>1, <2>1, TailTyped DEF Turning
  <2>3. Head(ingest).turn = Latest
    BY <2>2 DEF IngestNow
  <2>4. active' \in {NoTurn, Latest}
    BY <1>1, <1>2, <2>3 DEF IngestStarted, IngestCompleted, IngestLifecycle, IngestDiff, Turning
  <2>5. placeholder' \in {NoPlaceholder, PlaceholderNow}
    <3>1. CASE IngestStarted \/ IngestCompleted
      BY <1>1, <3>1 DEF IngestStarted, IngestCompleted, IngestLifecycle, Turning
    <3>2. CASE IngestDiff
      <4>1. ~Tracked(Latest) => MaxCount + 1 = Length
        BY <1>1, MaxWhenMissing DEF Turning
      <4> QED
        BY <2>3, <3>2, <4>1 DEF IngestDiff, PlaceholderNow
    <3> QED
      BY <1>2, <3>1, <3>2
  <2>6. JobNow' /\ (Promised => Promised')
    BY <1>1, <2>1, Still DEF JobNow, Promised, Turning
  <2>7. Turning'
    BY <1>1, <2>1, <2>2, <2>4, <2>5, <2>6, Still DEF Turning
  <2> QED
    BY <2>1, <2>7, Still DEF Phase
<1>3. CASE RecordPlaceholder
  <2> DEFINE row == Row(placeholder.turn, placeholder.count, "missing", FALSE)
             diff == Diff(placeholder.turn, placeholder.count, "missing")
  <2>1. /\ placeholder = PlaceholderNow /\ placeholder' = NoPlaceholder
        /\ checkpoints' = Upsert(row) /\ domain' = Append(domain, diff)
        /\ UNCHANGED <<sent, pending, conversation, live, ingest, runtime, active, job>>
    BY <1>1, <1>3 DEF RecordPlaceholder, Turning
  <2>2. row.turn = Latest /\ row.count = Length /\ diff \in DomainNow
    BY <2>1 DEF Row, Diff, PlaceholderNow, DomainNow, Statuses
  <2>3. Unique' /\ Matching' /\ Filled(Length)'
    <3> HIDE DEF row
    <3> QED
      BY <1>1, <2>1, <2>2, UpsertLatest DEF Turning
  <2>4. /\ Length' = Length /\ Latest' = Latest /\ Ordered'
        /\ IngestNow' = IngestNow /\ RuntimeNow' = RuntimeNow /\ DomainNow' = DomainNow
    BY <2>1 DEF Length, Latest, Ordered, IngestNow, RuntimeNow, DomainNow
  <2>5. domain' \in Seq(DomainNow)
    BY <1>1, <2>1, <2>2, AppendTyped DEF Turning
  <2>6. Filled(Length - 1)' /\ Has(Length)'
    BY <1>1, <2>3, <2>4 DEF Filled
  <2>7. JobNow'
    BY <1>1, <2>1, <2>4 DEF Turning, JobNow
  <2>8. Turning'
    BY <1>1, <2>1, <2>3, <2>4, <2>5, <2>6, <2>7 DEF Turning
  <2> QED
    BY <2>3, <2>4, <2>8 DEF Phase
<1> QED
  BY <1>2, <1>3 DEF IngestStep

\* While a turn is on, the reactor concludes only what is about it, and its end is
\* captured unless it already is.
LEMMA JobWhenTurning ==
  ASSUME RowsTyped, Ordered, Matching, Length > 0, Filled(Length - 1),
         active \in {NoTurn, Latest}, NEW e \in RuntimeNow \cup DomainNow
  PROVE  LET next == JobFor(e) IN
         /\ \/ next.step \in {"idle", "baseline"}
            \/ next.step = "capture" /\ next.turn = Latest /\ next.count = Length
         /\ e.type = "completed" => next.step = "capture" \/ Has(Length)
<1>1. Length \in Nat \ {0} /\ Idle.step = "idle"
  BY DEF Ordered, Length, Idle
<1>2. CASE e = Start
  <2>1. JobFor(e) = BaselineJob /\ e.type = "start"
    BY <1>2 DEF JobFor, Start
  <2>2. BaselineJob.step \in {"idle", "baseline"}
    BY <1>1 DEF BaselineJob
  <2> QED
    BY <2>1, <2>2
<1>3. CASE e \in RuntimeNow \ {Start}
  <2>1. e.type = "completed" /\ e.turn = Latest
    BY <1>3 DEF RuntimeNow
  <2>2. JobFor(e) = CompletionJob(e)
    BY <2>1 DEF JobFor
  <2>3. CASE Captured(Latest)
    <3>1. CompletionJob(e) = Idle
      BY <2>1, <2>3 DEF CompletionJob
    <3>2. Has(Length)
      BY <2>3, LatestIsLast DEF Captured, Has
    <3> QED
      BY <1>1, <2>2, <3>1, <3>2
  <2>4. CASE ~Captured(Latest)
    <3>1. CompletionJob(e) = CaptureJob(Latest, CountFor(Latest), StatusOf(e.outcome))
      BY <2>1, <2>4 DEF CompletionJob
    <3>2. CountFor(Latest) = Length
      <4>1. CASE Tracked(Latest)
        <5>1. PICK c \in checkpoints : c.turn = Latest
          BY <4>1 DEF Tracked
        <5>2. \A d \in checkpoints : d.turn = Latest => d.count = Length
          BY LatestIsLast
        <5> QED
          BY <4>1, <5>1, <5>2 DEF CountFor
      <4>2. CASE ~Tracked(Latest)
        BY <1>1, <4>2, MaxWhenMissing DEF CountFor
      <4> QED
        BY <4>1, <4>2
    <3> QED
      BY <2>2, <3>1, <3>2 DEF CaptureJob
  <2> QED
    BY <2>3, <2>4
<1>4. CASE e \in DomainNow \ {Start}
  <2>1. e.type = "diff" /\ e.turn = Latest /\ e.count = Length
    BY <1>4 DEF DomainNow
  <2>2. JobFor(e) = PlaceholderJob(e)
    BY <2>1 DEF JobFor
  <2>3. PlaceholderJob(e) \in {Idle, CaptureJob(Latest, Length, "ready")}
    BY <2>1 DEF PlaceholderJob
  <2> QED
    BY <1>1, <2>1, <2>2, <2>3 DEF CaptureJob
<1> QED
  BY <1>2, <1>3, <1>4

LEMMA TakeStory ==
  ASSUME Inv, Ordered, Unique, Phase, TakeRuntime \/ TakeDomain
  PROVE  Ordered' /\ Unique' /\ Phase'
<1> USE DEF user, provider
<1>1. /\ job = Idle /\ RowsTyped /\ Length \in Nat
      /\ UNCHANGED <<sent, pending, live, conversation, ingest, active, checkpoints, placeholder>>
      /\ \/ runtime # <<>> /\ runtime' = Tail(runtime) /\ domain' = domain
            /\ job' = JobFor(Head(runtime))
         \/ domain # <<>> /\ domain' = Tail(domain) /\ runtime' = runtime
            /\ job' = JobFor(Head(domain))
  BY DEF TakeRuntime, TakeDomain, Inv, Ordered, Length
<1>2. NothingIngested => NothingIngested' \/ runtime # <<>>
  BY <1>1 DEF NothingIngested
<1>3. BaselineJob.step \in {"idle", "baseline"} /\ JobFor(Start) = BaselineJob /\ Idle.step = "idle"
  BY DEF BaselineJob, JobFor, Start, Idle
<1>4. ~Resting
  BY <1>1 DEF Resting, NothingIngested
<1>5. CASE Waiting
  <2>1. /\ domain # <<>> /\ domain' = Tail(domain) /\ runtime' = runtime
        /\ job' = JobFor(Head(domain)) /\ domain \in Seq({Start}) /\ NothingIngested
    BY <1>1, <1>5 DEF Waiting, NothingIngested
  <2>2. Head(domain) = Start /\ domain' \in Seq({Start})
    BY <2>1, TailTyped
  <2>3. Waiting'
    BY <1>1, <1>3, <1>5, <2>1, <2>2, Still DEF Waiting, NothingIngested
  <2> QED
    BY <1>1, <2>3, Still DEF Phase
<1>6. CASE Turning
  <2> DEFINE Good(next, e) ==
               /\ \/ next.step \in {"idle", "baseline"}
                  \/ next.step = "capture" /\ next.turn = Latest /\ next.count = Length
               /\ e.type = "completed" => next.step = "capture" \/ Has(Length)
  <2>1. runtime' \in Seq(RuntimeNow) /\ domain' \in Seq(DomainNow)
    BY <1>1, <1>6, TailTyped DEF Turning
  <2>2. \A e \in RuntimeNow \cup DomainNow : Good(JobFor(e), e)
    BY <1>1, <1>6, JobWhenTurning DEF Turning
  <2>3. CASE runtime # <<>> /\ runtime' = Tail(runtime) /\ job' = JobFor(Head(runtime))
    <3>1. Head(runtime) \in RuntimeNow /\ runtime \in Seq(RuntimeNow)
      BY <1>6, <2>3, TailTyped DEF Turning
    <3>2. Good(job', Head(runtime))
      BY <2>2, <2>3, <3>1
    <3>3. ASSUME NEW i \in 1 .. Len(runtime), runtime[i].type = "completed"
          PROVE  i = 1 \/ \E j \in 1 .. Len(runtime') : runtime'[j].type = "completed"
      <4>1. i # 1 => i - 1 \in 1 .. Len(runtime') /\ runtime'[i - 1] = runtime[i]
        BY <2>3, <3>1
      <4> QED
        BY <3>3, <4>1
    <3>4. Head(runtime) = runtime[1]
      BY <3>1
    <3>5. Promised => Promised' \/ Has(Length)
      <4>1. job.step = "idle"
        BY <1>1, <1>3
      <4> HIDE DEF Good
      <4>2. Head(runtime).type = "completed" => job'.step = "capture" \/ Has(Length)
        BY <3>2 DEF Good
      <4> QED
        BY <1>1, <3>3, <3>4, <4>1, <4>2 DEF Promised
    <3>6. JobNow'
      BY <1>1, <3>2, Still DEF JobNow
    <3>7. Turning'
      BY <1>1, <1>6, <2>1, <3>5, <3>6, Still DEF Turning
    <3> QED
      BY <1>1, <3>7, Still DEF Phase
  <2>4. CASE domain # <<>> /\ runtime' = runtime /\ job' = JobFor(Head(domain))
    <3>1. Head(domain) \in DomainNow
      BY <1>6, <2>4, TailTyped DEF Turning
    <3>2. Good(job', Head(domain))
      BY <2>2, <2>4, <3>1
    <3>3. JobNow' /\ (Promised => Promised')
      BY <1>1, <1>3, <2>4, <3>2, Still DEF JobNow, Promised
    <3>4. Turning'
      BY <1>1, <1>6, <2>1, <3>3, Still DEF Turning
    <3> QED
      BY <1>1, <3>4, Still DEF Phase
  <2> QED
    BY <1>1, <2>3, <2>4
<1>7. CASE Reverting
  <2>1. PICK target \in 0 .. Length - 1 : domain = <<[type |-> "revert", target |-> target]>>
    BY <1>1, <1>3, <1>7 DEF Reverting, NothingIngested
  <2>2. Matching /\ Filled(Length) /\ NothingIngested /\ ~pending /\ active = NoTurn
    BY <1>1, <1>3, <1>7 DEF Reverting
  <2>3. MaxCount = Length
    BY <1>1, <2>2, MaxWhenFilled
  <2>4. /\ domain' = <<>> /\ job' = JobFor(Head(domain)) /\ NothingIngested'
        /\ Head(domain) = [type |-> "revert", target |-> target]
    BY <1>1, <2>1, <2>2 DEF NothingIngested
  <2>5. job' = RevertJob(Head(domain))
    BY <2>4 DEF JobFor
  <2>6. \/ job' = Idle
        \/ job'.step = "restore" /\ job'.max = Length /\ job'.target = target
    BY <2>3, <2>4, <2>5 DEF RevertJob
  <2>7. Resting' \/ Reverting'
    BY <1>1, <2>1, <2>2, <2>4, <2>6, Still DEF Resting, Reverting
  <2> QED
    BY <1>1, <2>7, Still DEF Phase
<1> QED
  BY <1>4, <1>5, <1>6, <1>7 DEF Phase

LEMMA CaptureStory ==
  ASSUME Inv, Ordered, Unique, Phase, CaptureBaseline \/ CaptureTurn \/ RecordCheckpoint
  PROVE  Ordered' /\ Unique' /\ Phase'
<1> USE DEF user, provider
<1>0. RowsTyped /\ Length \in Nat /\ Idle.step = "idle"
  BY DEF Idle, Inv, Ordered, Length
<1>1. /\ job.step \in {"baseline", "capture", "record"}
      /\ UNCHANGED <<sent, pending, live, conversation, ingest, runtime, active, placeholder>>
  BY DEF CaptureBaseline, CaptureTurn, RecordCheckpoint
<1>2. Waiting \/ Turning
  BY <1>0, <1>1 DEF Phase, Resting, Reverting
<1>3. CASE CaptureBaseline
  <2>1. checkpoints' = checkpoints /\ domain' = domain /\ job' = Idle /\ job.step = "baseline"
    BY <1>3 DEF CaptureBaseline
  <2>2. CASE Waiting
    <3>1. Waiting'
      BY <1>0, <1>1, <2>1, <2>2, Still DEF Waiting, NothingIngested
    <3> QED
      BY <1>0, <1>1, <2>1, <3>1, Still DEF Phase
  <2>3. CASE Turning
    <3>1. JobNow' /\ (Promised => Promised')
      BY <1>0, <1>1, <2>1 DEF JobNow, Promised
    <3>2. Turning'
      BY <1>0, <1>1, <2>1, <2>3, <3>1, Still DEF Turning
    <3> QED
      BY <1>0, <1>1, <2>1, <3>2, Still DEF Phase
  <2> QED
    BY <1>2, <2>2, <2>3
<1>4. CASE CaptureTurn
  <2>1. /\ checkpoints' = checkpoints /\ domain' = domain
        /\ job.step = "capture" /\ job' = [job EXCEPT !.step = "record"]
    BY <1>4 DEF CaptureTurn
  <2>2. Turning
    BY <1>2, <2>1 DEF Waiting
  <2>3. job'.step = "record" /\ job'.turn = job.turn /\ job'.count = job.count
    BY <2>1, JobFields DEF Inv
  <2>4. JobNow' /\ Promised'
    BY <1>0, <1>1, <2>1, <2>2, <2>3, Still DEF Turning, JobNow, Promised
  <2>5. Turning'
    BY <1>0, <1>1, <2>1, <2>2, <2>4, Still DEF Turning
  <2> QED
    BY <1>0, <1>1, <2>1, <2>5, Still DEF Phase
<1>5. CASE RecordCheckpoint
  <2> DEFINE row == Row(job.turn, job.count, job.status, TRUE)
             diff == Diff(job.turn, job.count, job.status)
  <2>1. /\ job.step = "record" /\ job' = Idle
        /\ checkpoints' = Upsert(row) /\ domain' = Append(domain, diff)
    BY <1>5 DEF RecordCheckpoint
  <2>2. Turning
    BY <1>2, <2>1 DEF Waiting
  <2>3. job.turn = Latest /\ job.count = Length /\ job.status \in Statuses
    BY <2>1, <2>2, JobFields DEF Turning, JobNow, Inv
  <2>4. row.turn = Latest /\ row.count = Length /\ diff \in DomainNow
    BY <2>3 DEF Row, Diff, DomainNow
  <2>5. Unique' /\ Matching' /\ Filled(Length)'
    <3> HIDE DEF row
    <3> QED
      BY <1>0, <1>1, <2>1, <2>2, <2>4, UpsertLatest DEF Turning
  <2>6. /\ Length' = Length /\ Latest' = Latest /\ Ordered'
        /\ IngestNow' = IngestNow /\ RuntimeNow' = RuntimeNow /\ DomainNow' = DomainNow
        /\ PlaceholderNow' = PlaceholderNow
    BY <1>1 DEF Length, Latest, Ordered, IngestNow, RuntimeNow, DomainNow, PlaceholderNow
  <2>7. domain' \in Seq(DomainNow)
    BY <2>1, <2>2, <2>4, AppendTyped DEF Turning
  <2>8. Length > 0
    BY <2>2 DEF Turning
  <2>9. Filled(Length - 1)' /\ Has(Length)'
    BY <1>0, <1>1, <2>5, <2>6, <2>8 DEF Filled
  <2>10. JobNow'
    BY <1>0, <1>1, <2>1 DEF JobNow
  <2>11. /\ ~pending /\ live \in {NoTurn, Latest} /\ active \in {NoTurn, Latest}
         /\ ingest \in Seq(IngestNow) /\ runtime \in Seq(RuntimeNow)
         /\ placeholder \in {NoPlaceholder, PlaceholderNow}
    BY <2>2 DEF Turning
  <2>12. Turning'
    BY <1>0, <1>1, <2>5, <2>6, <2>7, <2>8, <2>9, <2>10, <2>11 DEF Turning
  <2> QED
    BY <2>5, <2>6, <2>12 DEF Phase
<1> QED
  BY <1>3, <1>4, <1>5

LEMMA RevertStory ==
  ASSUME Inv, Ordered, Unique, Phase, Restore \/ Rollback \/ DeleteRefs \/ CompleteRevert
  PROVE  Ordered' /\ Unique' /\ Phase'
<1> USE DEF user, provider
<1>1. /\ job.step \in {"restore", "rollback", "delete", "complete"} /\ Idle.step = "idle"
      /\ UNCHANGED <<sent, pending, live, ingest, runtime, domain, active, placeholder>>
      /\ Length \in Nat
  BY DEF Restore, Rollback, DeleteRefs, CompleteRevert, Idle, Ordered, Length
<1>2. Reverting /\ domain = <<>> /\ ~pending /\ NothingIngested /\ active = NoTurn
  BY <1>1 DEF Phase, Resting, Waiting, Turning, JobNow, Reverting
<1>3. ~pending' /\ NothingIngested' /\ active' = NoTurn /\ domain' = <<>>
  BY <1>1, <1>2 DEF NothingIngested
<1>4. job \in [step : {"restore", "rollback", "delete", "complete"},
               target : Int, max : Nat, git : BOOLEAN, stale : SUBSET Nat]
  BY <1>1, JobFields DEF Inv
<1>5. CASE Restore
  <2>1. /\ job.step = "restore" /\ UNCHANGED <<conversation, checkpoints>>
        /\ job' = Idle \/ job' = [job EXCEPT !.step = "rollback"]
    BY <1>5 DEF Restore
  <2>2. job.max = Length /\ job.target \in 0 .. Length - 1 /\ Matching /\ Filled(Length)
    BY <1>1, <1>2, <2>1 DEF Reverting
  <2>3. \/ job' = Idle
        \/ job'.step = "rollback" /\ job'.max = job.max /\ job'.target = job.target
    BY <1>4, <2>1
  <2>4. Resting' \/ Reverting'
    BY <1>1, <1>3, <2>1, <2>2, <2>3, Still DEF Resting, Reverting
  <2> QED
    BY <1>1, <2>1, <2>4, Still DEF Phase
<1>6. CASE Rollback
  <2>1. /\ job.step = "rollback" /\ checkpoints' = checkpoints
        /\ conversation' = SubSeq(conversation, 1, Len(conversation) - (job.max - job.target))
        /\ job' = [job EXCEPT !.step = "delete"]
    BY <1>6 DEF Rollback
  <2>2. job.max = Length /\ job.target \in 0 .. Length - 1 /\ Matching /\ Filled(Length)
    BY <1>1, <1>2, <2>1 DEF Reverting
  <2>3. job'.step = "delete" /\ job'.target = job.target
    BY <1>4, <2>1
  <2>4. conversation' = SubSeq(conversation, 1, job.target)
    BY <1>1, <2>1, <2>2 DEF Length
  <2>5. /\ conversation' \in Seq(Nat) /\ Length' = job.target
        /\ \A i \in 1 .. job.target : i \in 1 .. Length /\ conversation'[i] = conversation[i]
    BY <2>2, <2>4 DEF Ordered, Length
  <2>6. Ordered'
    BY <1>1, <1>3, <2>5 DEF Ordered
  <2>7. Unique'
    BY <2>1 DEF Unique
  <2>8. Filled(Length)'
    BY <2>1, <2>2, <2>5 DEF Filled, Has
  <2>9. \A c \in checkpoints : c.count \in 1 .. Length /\ conversation[c.count] = c.turn
    BY <2>2 DEF Matching
  <2>10. \A c \in checkpoints' : c.count >= 1 /\ (c.count <= Length' => conversation'[c.count] = c.turn)
    <3> SUFFICES ASSUME NEW c \in checkpoints
                 PROVE  c.count >= 1 /\ (c.count <= job.target => conversation'[c.count] = c.turn)
      BY <2>1, <2>5
    <3>1. c.count \in 1 .. Length /\ conversation[c.count] = c.turn
      BY <2>9
    <3>2. c.count <= job.target => c.count \in 1 .. job.target
      BY <2>2, <3>1
    <3> QED
      BY <2>5, <3>1, <3>2
  <2>11. Reverting'
    BY <1>3, <2>3, <2>5, <2>8, <2>10 DEF Reverting
  <2> QED
    BY <2>6, <2>7, <2>11 DEF Phase
<1>7. CASE DeleteRefs
  <2>1. /\ job.step = "delete" /\ UNCHANGED <<conversation, checkpoints>>
        /\ job' = [job EXCEPT !.step = "complete"]
    BY <1>7 DEF DeleteRefs
  <2>2. /\ job.target = Length /\ Filled(Length)
        /\ \A c \in checkpoints : c.count >= 1 /\ (c.count <= Length => conversation[c.count] = c.turn)
    BY <1>1, <1>2, <2>1 DEF Reverting
  <2>3. job'.step = "complete" /\ job'.target = job.target
    BY <1>4, <2>1
  <2>4. Reverting'
    BY <1>1, <1>3, <2>1, <2>2, <2>3, Still DEF Reverting
  <2> QED
    BY <1>1, <2>1, <2>4, Still DEF Phase
<1>8. CASE CompleteRevert
  <2>1. /\ job.step = "complete" /\ conversation' = conversation /\ job' = Idle
        /\ checkpoints' = {c \in checkpoints : c.count <= job.target}
    BY <1>8 DEF CompleteRevert
  <2>2. /\ job.target = Length /\ Filled(Length)
        /\ \A c \in checkpoints : c.count >= 1 /\ (c.count <= Length => conversation[c.count] = c.turn)
    BY <1>1, <1>2, <2>1 DEF Reverting
  <2>3. Length' = Length /\ Ordered' /\ Unique'
    BY <1>1, <2>1 DEF Length, Ordered, Unique
  <2>4. \A c \in checkpoints : c.count \in Nat
    BY DEF Inv, RowsTyped, Rows
  <2>5. Matching'
    BY <1>1, <2>1, <2>2, <2>3, <2>4 DEF Matching
  <2>6. Filled(Length)'
    BY <1>1, <2>1, <2>2, <2>3 DEF Filled, Has
  <2>7. Resting'
    BY <1>3, <2>1, <2>5, <2>6 DEF Resting
  <2> QED
    BY <2>3, <2>7 DEF Phase
<1> QED
  BY <1>5, <1>6, <1>7, <1>8

\* Without its last row a turn would not count; the other failures lose nothing.
LEMMA FailureStory ==
  ASSUME Inv, Ordered, Unique, Phase, StepFails, "capture" \notin Faults
  PROVE  Ordered' /\ Unique' /\ Phase'
<1> USE DEF user, provider
<1>1. /\ job.step \in {"baseline", "restore", "rollback"} /\ job' = Idle /\ Idle.step = "idle"
      /\ UNCHANGED <<sent, pending, live, conversation, ingest, runtime, domain, active,
                     checkpoints, placeholder>>
  BY CheckpointsAssumption DEF StepFails, Idle
<1>2. ~Resting
  BY <1>1 DEF Resting
<1>3. CASE Waiting
  <2>1. Waiting'
    BY <1>1, <1>3, Still DEF Waiting, NothingIngested
  <2> QED
    BY <1>1, <2>1, Still DEF Phase
<1>4. CASE Turning
  <2>1. JobNow' /\ (Promised => Promised')
    BY <1>1 DEF JobNow, Promised
  <2>2. Turning'
    BY <1>1, <1>4, <2>1, Still DEF Turning
  <2> QED
    BY <1>1, <2>2, Still DEF Phase
<1>5. CASE Reverting
  <2>1. Resting'
    BY <1>1, <1>5, Still DEF Reverting, Resting, NothingIngested
  <2> QED
    BY <1>1, <2>1, Still DEF Phase
<1> QED
  BY <1>2, <1>3, <1>4, <1>5 DEF Phase

LEMMA InitStory == ASSUME Init PROVE Story
<1>1. Length = 0 /\ conversation \in Seq(Nat)
  BY DEF Init, Length
<1>2. Ordered /\ Unique
  BY <1>1 DEF Init, Ordered, Unique
<1>3. Resting
  BY <1>1 DEF Init, Resting, NothingIngested, Matching, Filled
<1> QED
  BY <1>2, <1>3 DEF Story, Phase

LEMMA StepStory ==
  ASSUME Inv, Story, [Next]_vars, "capture" \notin Faults
  PROVE  Story'
<1>1. patient' = patient
  BY DEF Next, ReactorStep, IngestStep, vars, user, provider, Send, RequestRevert, TurnBegins, Edit,
         TurnEnds, IngestStarted, IngestCompleted, IngestLifecycle, Ingesting, IngestDiff,
         RecordPlaceholder, TakeRuntime, TakeDomain, CaptureBaseline, CaptureTurn, RecordCheckpoint,
         Restore, Rollback, DeleteRefs, CompleteRevert, StepFails
<1> SUFFICES ASSUME patient, Ordered, Unique, Phase PROVE Ordered' /\ Unique' /\ Phase'
  BY <1>1 DEF Story
<1>2. CASE UNCHANGED vars
  <2>1. /\ UNCHANGED <<sent, pending, live, conversation, ingest, runtime, domain, active,
                       checkpoints, placeholder, job>>
    BY <1>2 DEF vars, user, provider
  <2>2. JobNow => JobNow'
    BY <2>1, Still DEF JobNow
  <2>3. Promised => Promised'
    BY <2>1 DEF Promised
  <2>4. Turning => Turning'
    BY <2>1, <2>2, <2>3, Still DEF Turning
  <2>5. (Resting => Resting') /\ (Waiting => Waiting')
    BY <2>1, Still DEF Resting, Waiting, NothingIngested
  <2>6. Reverting => Reverting'
    BY <2>1, Still DEF Reverting, NothingIngested
  <2> QED
    BY <2>1, <2>4, <2>5, <2>6, Still DEF Phase
<1>3. CASE Next
  BY <1>3, UserStory, BeginsStory, AgentStory, IngestStory, TakeStory, CaptureStory, RevertStory,
     FailureStory DEF Next, ReactorStep
<1> QED
  BY <1>2, <1>3

\* Rows that fill the counts up to the length of the conversation, each its own, are as
\* many as its turns.
LEMMA AsManyRows ==
  ASSUME Length \in Nat, Unique, Matching, Filled(Length)
  PROVE  Cardinality(checkpoints) = Length
<1> DEFINE row == [n \in 1 .. Length |-> CHOOSE c \in checkpoints : c.count = n]
<1>1. ASSUME NEW n \in 1 .. Length PROVE row[n] \in checkpoints /\ row[n].count = n
  BY DEF Filled, Has
<1>2. row \in [1 .. Length -> checkpoints] /\ \A m, n \in 1 .. Length : row[m] = row[n] => m = n
  <2>1. \A m, n \in 1 .. Length : row[m] = row[n] => m = n
    <3> HIDE DEF row
    <3> QED
      BY <1>1, Zenon
  <2> QED
    BY <1>1, <2>1
<1>3. \A c \in checkpoints : c.count \in 1 .. Length /\ row[c.count] = c
  BY <1>1 DEF Unique, Matching
<1> HIDE DEF row
<1>4. row \in Bijection(1 .. Length, checkpoints)
  <2>1. \A c \in checkpoints : \E n \in 1 .. Length : row[n] = c
    BY <1>3
  <2> QED
    BY <1>2, <2>1, Fun_IsBij
<1>5. ExistsBijection(1 .. Length, checkpoints)
  BY <1>4 DEF ExistsBijection
<1> QED
  BY <1>5, FS_CountingElements

\* For a user who waits, every turn of the conversation has its one row, under the count
\* that is its place: what "roll back n turns" needs, whatever the two workers and the
\* engine do meanwhile, and whichever step fails before a capture.
THEOREM RowsMatch ==
  ASSUME "capture" \notin Faults
  PROVE  Spec => []RowsAreConversation
<1>1. Init => Inv /\ Story
  BY InitInv, InitStory
<1>2. Inv /\ Story /\ [Next]_vars => (Inv /\ Story)'
  BY StepInv, StepStory
<1>3. Inv /\ Story => RowsAreConversation
  <2> SUFFICES ASSUME Story, patient, Quiet
               PROVE  /\ Cardinality(checkpoints) = Len(conversation)
                      /\ \A c \in checkpoints : c.count \in DOMAIN conversation /\ conversation[c.count] = c.turn
    BY DEF RowsAreConversation
  <2>1. Ordered /\ Unique /\ Matching /\ Filled(Length)
    BY QuietRests DEF Story
  <2>2. Length \in Nat /\ DOMAIN conversation = 1 .. Length
    BY <2>1 DEF Ordered, Length
  <2>3. Cardinality(checkpoints) = Length
    BY <2>1, <2>2, AsManyRows
  <2> QED
    BY <2>1, <2>2, <2>3 DEF Matching, Length
<1> QED
  BY <1>1, <1>2, <1>3, PTL DEF Spec

-----------------------------------------------------------------------------
(* When the user waits: the workspace.                                     *)

\* The edits are of the first n turns of the conversation.
Known(S, n) == \A e \in S : \E i \in 1 .. n : conversation[i] = e[1]
Before == IF pending THEN Length ELSE Length - 1

\* Nothing is in the workspace that the provider does not know, and the latest turn has
\* changed nothing before its baseline is settled.
FilesKnown ==
  /\ Known(files, Length)
  /\ ~BaselineSettled => Known(files, Before)
  /\ job.step = "rollback" => Known(files, job.target)
  /\ job.step = "baseline" => job.count >= Before

\* Nor is it in a ref that is of the turn at its place; others may be left over.
RefsKnown ==
  /\ 0 \in DOMAIN refs => refs[0].files = {}
  /\ \A n \in DOMAIN refs :
       /\ refs[n].turn \in 0 .. sent /\ (pending => refs[n].turn < sent)
       /\ (n \in 1 .. Length /\ refs[n].turn = conversation[n]) => Known(refs[n].files, n)

\* A placeholder is the latest turn's, and its replacement is on the way.
OnTheWay ==
  \/ \E i \in 1 .. Len(domain) : domain[i].type = "diff" /\ domain[i].status = "missing"
  \/ job.step \in {"capture", "record"}
Replaced ==
  \A c \in checkpoints : c.git \/ (c.count = Length /\ c.status = "missing" /\ OnTheWay)

Work == FilesKnown /\ RefsKnown /\ Replaced

LEMMA TailHas ==
  ASSUME NEW S, NEW s \in Seq(S), s # <<>>
  PROVE  /\ \A i \in DOMAIN Tail(s) : i + 1 \in DOMAIN s /\ Tail(s)[i] = s[i + 1]
         /\ \A i \in 1 .. Len(s) : i = 1 \/ (i - 1 \in 1 .. Len(Tail(s)) /\ Tail(s)[i - 1] = s[i])
         /\ Head(s) = s[1] /\ 1 \in DOMAIN s
  OBVIOUS

LEMMA AppendHas ==
  ASSUME NEW S, NEW s \in Seq(S), NEW e
  PROVE  /\ \A i \in DOMAIN Append(s, e) :
              (i \in DOMAIN s /\ Append(s, e)[i] = s[i]) \/ Append(s, e)[i] = e
         /\ \A i \in 1 .. Len(s) : i \in 1 .. Len(Append(s, e)) /\ Append(s, e)[i] = s[i]
         /\ Len(s) + 1 \in 1 .. Len(Append(s, e)) /\ Append(s, e)[Len(s) + 1] = e
  OBVIOUS

NoStart(q) == \A i \in DOMAIN q : q[i] # Start

LEMMA Settled ==
  /\ BaselineSettled <=> (NoStart(runtime) /\ NoStart(domain) /\ job.step # "baseline")
  /\ BaselineSettled' <=> (NoStart(runtime') /\ NoStart(domain') /\ job'.step # "baseline")
  BY DEF BaselineSettled, NoStart

LEMMA NoNewStart ==
  ASSUME NEW S, NEW s \in Seq(S), NoStart(s)
  PROVE  /\ s # <<>> => NoStart(Tail(s)) /\ Head(s) # Start
         /\ \A e : e # Start => NoStart(Append(s, e))
<1>1. ASSUME s # <<>> PROVE NoStart(Tail(s)) /\ Head(s) # Start
  BY <1>1, TailHas DEF NoStart
<1>2. ASSUME NEW e, e # Start PROVE NoStart(Append(s, e))
  <2> SUFFICES ASSUME NEW i \in DOMAIN Append(s, e) PROVE Append(s, e)[i] # Start
    BY DEF NoStart
  <2>1. (i \in DOMAIN s /\ Append(s, e)[i] = s[i]) \/ Append(s, e)[i] = e
    BY AppendHas
  <2> QED
    BY <1>2, <2>1 DEF NoStart
<1> QED
  BY <1>1, <1>2

\* What a step without workspace, refs, conversation and rows keeps.
LEMMA StillKnown ==
  ASSUME Work, UNCHANGED <<sent, pending, conversation, files>>
  PROVE  /\ Length' = Length /\ Before' = Before /\ Known(files, Length)'
         /\ \A S, n : Known(S, n) <=> \A e \in S : \E i \in 1 .. n : conversation'[i] = e[1]
         /\ Known(files, Before) => Known(files, Before)'
         /\ refs' = refs => RefsKnown'
<1>1. Length' = Length /\ Before' = Before
  BY DEF Length, Before
<1>2. Known(files, Length)' /\ (Known(files, Before) => Known(files, Before)')
  BY <1>1 DEF Work, FilesKnown, Known
<1>3. refs' = refs => RefsKnown'
  BY <1>1 DEF Work, RefsKnown, Known
<1>4. \A S, n : Known(S, n) <=> \A e \in S : \E i \in 1 .. n : conversation'[i] = e[1]
  BY DEF Known
<1> QED
  BY <1>1, <1>2, <1>3, <1>4

\* Once nothing is to be captured, no placeholder is left.
LEMMA NoneLeft ==
  ASSUME Replaced, job.step \notin {"capture", "record"},
         domain = <<>> \/ domain \in Seq({Start})
         \/ \E target : domain = <<[type |-> "revert", target |-> target]>>
  PROVE  \A c \in checkpoints : c.git
<1>1. \A i \in 1 .. Len(domain) : domain[i].type # "diff"
  BY DEF Start
<1> QED
  BY <1>1 DEF Replaced, OnTheWay

LEMMA UserWork ==
  ASSUME Inv, Ordered, Phase, Work, patient, Send \/ RequestRevert
  PROVE  Work'
<1> USE DEF user, provider
<1>1. Quiet /\ ~pending
  BY DEF Send, RequestRevert, Ready, Quiet
<1>2. /\ runtime = <<>> /\ domain = <<>> /\ job.step = "idle" /\ Length \in Nat /\ sent \in Nat
      /\ UNCHANGED <<conversation, runtime, checkpoints, job, refs, files>>
      /\ Length' = Length
  <2>1. UNCHANGED <<conversation, runtime, checkpoints, job, refs, files>>
    BY DEF Send, RequestRevert
  <2> QED
    BY <1>1, <2>1 DEF Quiet, Idle, Ordered, Length
<1>3. \A c \in checkpoints : c.git
  BY <1>2, NoneLeft DEF Work
<1>4. Replaced'
  BY <1>2, <1>3 DEF Replaced
<1>5. Known(files, Length)'
  BY <1>2 DEF Work, FilesKnown, Known
<1>6. CASE Send
  <2>1. pending' /\ sent' = sent + 1 /\ Before' = Length'
    BY <1>6 DEF Send, Before
  <2>2. FilesKnown'
    BY <1>2, <1>5, <2>1 DEF FilesKnown
  <2>3. RefsKnown'
    <3>1. 0 \in DOMAIN refs' => refs'[0].files = {}
      BY <1>2 DEF Work, RefsKnown
    <3> SUFFICES ASSUME NEW n \in DOMAIN refs
                 PROVE  /\ refs[n].turn \in 0 .. sent + 1 /\ refs[n].turn < sent + 1
                        /\ (n \in 1 .. Length /\ refs[n].turn = conversation[n]) => Known(refs[n].files, n)
      BY <1>2, <2>1, <3>1 DEF RefsKnown, Known
    <3>2. /\ refs[n].turn \in 0 .. sent
          /\ (n \in 1 .. Length /\ refs[n].turn = conversation[n]) => Known(refs[n].files, n)
      BY DEF Work, RefsKnown
    <3> QED
      BY <1>2, <3>2
  <2> QED
    BY <1>4, <2>2, <2>3 DEF Work
<1>7. CASE RequestRevert
  <2>1. PICK c \in checkpoints : domain' = Append(<<>>, [type |-> "revert", target |-> c.count - 1])
    BY <1>2, <1>7 DEF RequestRevert
  <2>2. sent' = sent /\ pending' = pending
    BY <1>7 DEF RequestRevert
  <2>3. NoStart(domain') /\ NoStart(runtime')
    BY <1>2, <2>1 DEF NoStart, Start
  <2>4. FilesKnown'
    BY <1>2, <1>5, <2>3, Settled DEF FilesKnown
  <2> QED
    BY <1>2, <1>4, <2>2, <2>4, StillKnown DEF Work
<1> QED
  BY <1>6, <1>7

LEMMA BeginsWork ==
  ASSUME Inv, Ordered, Phase, Work, TurnBegins
  PROVE  Work'
<1> USE DEF user, provider
<1>1. Waiting
  BY DEF Phase, Resting, Turning, Reverting, TurnBegins
<1>2. /\ pending /\ ~pending' /\ conversation' = Append(conversation, sent)
      /\ UNCHANGED <<sent, domain, checkpoints, job, files, refs>>
  BY <1>1 DEF TurnBegins
<1>3. /\ Length \in Nat /\ Length' = Length + 1 /\ conversation'[Length + 1] = sent
      /\ \A i \in 1 .. Length : conversation'[i] = conversation[i]
      /\ Before = Length /\ Before' = Length
  BY <1>2 DEF Ordered, Length, Before
<1>4. ASSUME NEW S, NEW n \in 0 .. Length, Known(S, n)
      PROVE  \A e \in S : \E i \in 1 .. n : conversation'[i] = e[1]
  BY <1>3, <1>4 DEF Known
<1>5. FilesKnown'
  <2>1. \A e \in files : \E i \in 1 .. Length : conversation'[i] = e[1]
    BY <1>3, <1>4 DEF Work, FilesKnown
  <2>2. Known(files, Before)'
    BY <1>2, <1>3, <2>1, Zenon DEF Known
  <2>3. Known(files, Length)'
    <3>1. \A i \in 1 .. Length : i \in 1 .. Length'
      BY <1>3
    <3> QED
      BY <1>2, <2>1, <3>1, Zenon DEF Known
  <2>4. job.step # "rollback" /\ (job'.step = "baseline" => job'.count >= Before')
    BY <1>1, <1>2, <1>3 DEF Waiting, Work, FilesKnown
  <2> QED
    BY <1>2, <2>2, <2>3, <2>4 DEF FilesKnown
<1>6. RefsKnown'
  <2>1. 0 \in DOMAIN refs' => refs'[0].files = {}
    BY <1>2 DEF Work, RefsKnown
  <2>2. ASSUME NEW n \in DOMAIN refs
        PROVE  refs[n].turn \in 0 .. sent /\ refs[n].turn < sent
    BY <1>2 DEF Work, RefsKnown
  <2>3. ASSUME NEW n \in DOMAIN refs, n \in 1 .. Length + 1, refs[n].turn = conversation'[n]
        PROVE  \A e \in refs[n].files : \E i \in 1 .. n : conversation'[i] = e[1]
    <3>1. n # Length + 1
      BY <1>3, <2>2, <2>3 DEF Ordered
    <3>2. n \in 1 .. Length /\ n \in 0 .. Length /\ refs[n].turn = conversation[n]
      BY <1>3, <2>3, <3>1
    <3>3. Known(refs[n].files, n)
      BY <3>2 DEF Work, RefsKnown
    <3> QED
      BY <1>4, <3>2, <3>3
  <2> QED
    BY <1>2, <1>3, <2>1, <2>2, <2>3 DEF RefsKnown, Known
<1>7. Replaced'
  <2>1. \A c \in checkpoints : c.git
    BY <1>1, NoneLeft DEF Waiting, Work
  <2> QED
    BY <1>2, <2>1 DEF Replaced
<1> QED
  BY <1>5, <1>6, <1>7 DEF Work

LEMMA AgentWork ==
  ASSUME Inv, Ordered, Phase, Work, patient, Edit \/ \E o \in Outcomes : TurnEnds(o)
  PROVE  Work'
<1> USE DEF user, provider
<1>1. Turning /\ live = Latest /\ Length \in Nat \ {0} /\ ~pending
  <2>1. live # NoTurn
    BY DEF Edit, TurnEnds
  <2>2. Turning
    BY <2>1 DEF Phase, Resting, Waiting, Reverting, NothingIngested
  <2> QED
    BY <2>1, <2>2 DEF Turning, Ordered, Length
<1>2. UNCHANGED <<sent, pending, conversation, domain, checkpoints, job, refs>> /\ Length' = Length
  BY DEF Edit, TurnEnds, Length
<1>3. Replaced'
  BY <1>2 DEF Work, Replaced, OnTheWay
<1>4. RefsKnown'
  BY <1>2 DEF Work, RefsKnown, Known
<1>5. job.step # "rollback" /\ runtime \in Seq(RuntimeNow) /\ domain \in Seq(DomainNow)
  BY <1>1 DEF Turning, JobNow
<1>6. CASE Edit
  <2>1. /\ BaselineSettled /\ runtime' = runtime
        /\ \E k : files' = files \cup {<<live, k>>}
    BY <1>6 DEF Edit
  <2>2. BaselineSettled' /\ job.step # "baseline"
    BY <1>2, <2>1, Settled
  <2>3. Known(files, Length)'
    <3>1. \A e \in files' : e \in files \/ e[1] = conversation[Length]
      BY <1>1, <2>1 DEF Latest
    <3>2. Known(files, Length)
      BY DEF Work, FilesKnown
    <3> QED
      BY <1>1, <1>2, <3>1, <3>2 DEF Known
  <2>4. FilesKnown'
    BY <1>2, <1>5, <2>2, <2>3 DEF FilesKnown
  <2> QED
    BY <1>3, <1>4, <2>4 DEF Work
<1>7. CASE \E o \in Outcomes : TurnEnds(o)
  <2>1. PICK o \in Outcomes : TurnEnds(o)
    BY <1>7
  <2>2. /\ files' = files
        /\ runtime' = Append(runtime, [type |-> "completed", turn |-> live, outcome |-> o])
    BY <2>1 DEF TurnEnds
  <2>3. [type |-> "completed", turn |-> live, outcome |-> o] # Start
    BY DEF Start
  <2>4. BaselineSettled => BaselineSettled'
    BY <1>2, <1>5, <2>2, <2>3, NoNewStart, Settled
  <2>5. FilesKnown'
    BY <1>2, <1>5, <2>2, <2>4, StillKnown DEF FilesKnown, Work
  <2> QED
    BY <1>3, <1>4, <2>5 DEF Work
<1> QED
  BY <1>6, <1>7

LEMMA IngestWork ==
  ASSUME Inv, Ordered, Phase, Work, IngestStep
  PROVE  Work'
<1> USE DEF user, provider
<1>1. UNCHANGED <<sent, pending, conversation, files, runtime, job, refs>>
  BY DEF IngestStep, IngestStarted, IngestCompleted, IngestLifecycle, IngestDiff, Ingesting,
         RecordPlaceholder
<1>2. CASE IngestStarted \/ IngestCompleted \/ IngestDiff
  <2>1. UNCHANGED <<domain, checkpoints>>
    BY <1>2 DEF IngestStarted, IngestCompleted, IngestLifecycle, IngestDiff
  <2>2. BaselineSettled => BaselineSettled'
    BY <1>1, <2>1, Settled
  <2>3. FilesKnown'
    <3>1. job.step = "rollback" => Known(files, job.target)'
      BY <1>1 DEF Work, FilesKnown, Known
    <3> QED
      BY <1>1, <2>2, <3>1, StillKnown DEF FilesKnown, Work
  <2>4. Replaced'
    BY <1>1, <2>1, StillKnown DEF Work, Replaced, OnTheWay
  <2> QED
    BY <1>1, <2>3, <2>4, StillKnown DEF Work
<1>3. CASE RecordPlaceholder
  <2> DEFINE row == Row(placeholder.turn, placeholder.count, "missing", FALSE)
             diff == Diff(placeholder.turn, placeholder.count, "missing")
  <2>1. Turning /\ domain \in Seq(DomainNow)
    BY <1>3 DEF Phase, Resting, Waiting, Turning, Reverting, NothingIngested, RecordPlaceholder
  <2>2. /\ placeholder = PlaceholderNow /\ job.step # "rollback"
        /\ checkpoints' = Upsert(row) /\ domain' = Append(domain, diff)
    BY <1>3, <2>1 DEF RecordPlaceholder, Turning, JobNow
  <2>3. row.count = Length /\ row.status = "missing" /\ diff.type = "diff" /\ diff.status = "missing"
    BY <2>2 DEF Row, Diff, PlaceholderNow
  <2>4. BaselineSettled => BaselineSettled'
    <3>1. diff # Start
      BY <2>3 DEF Start
    <3> QED
      BY <1>1, <2>1, <2>2, <3>1, NoNewStart, Settled
  <2>5. FilesKnown'
    BY <1>1, <2>2, <2>4, StillKnown DEF FilesKnown, Work
  <2>6. OnTheWay'
    <3> HIDE DEF diff
    <3>1. Len(domain) + 1 \in 1 .. Len(domain') /\ domain'[Len(domain) + 1] = diff
      BY <2>1, <2>2, AppendHas
    <3> QED
      BY <2>3, <3>1 DEF OnTheWay
  <2>7. Replaced'
    <3>1. \A c \in checkpoints' : c \in checkpoints \/ c = row
      BY <2>2 DEF Upsert
    <3> QED
      BY <1>1, <2>3, <2>6, <3>1, StillKnown DEF Work, Replaced
  <2> QED
    BY <1>1, <2>5, <2>7, StillKnown DEF Work
<1> QED
  BY <1>2, <1>3 DEF IngestStep

LEMMA TakeWork ==
  ASSUME Inv, Ordered, Unique, Phase, Work, TakeRuntime \/ TakeDomain
  PROVE  Work'
<1> USE DEF user, provider
<1>1. /\ job = Idle /\ Idle.step = "idle" /\ RowsTyped /\ QueuesTyped
      /\ UNCHANGED <<sent, pending, conversation, files, checkpoints, refs>>
      /\ Length \in Nat /\ Length' = Length /\ Before' = Before
  BY DEF TakeRuntime, TakeDomain, Idle, Inv, Ordered, Length, Before
<1>2. PICK e \in DomainEvents \cup RuntimeEvents :
        /\ job' = JobFor(e)
        /\ \/ TakeRuntime /\ e = Head(runtime) /\ runtime # <<>> /\ runtime' = Tail(runtime)
               /\ domain' = domain
           \/ TakeDomain /\ e = Head(domain) /\ domain # <<>> /\ domain' = Tail(domain)
               /\ runtime' = runtime
  BY <1>1, TailTyped DEF TakeRuntime, TakeDomain, QueuesTyped
<1>3. job'.step \in {"idle", "baseline", "capture", "restore"}
  BY <1>1, <1>2, JobForHolds
<1>4. ASSUME job'.step = "baseline" PROVE e = Start /\ job'.count = MaxCount
  <2>1. e.type \in {"start", "completed", "diff", "revert"}
    BY DEF DomainEvents, RuntimeEvents, Start
  <2>2. e.type = "start"
    BY <1>1, <1>2, <1>4, <2>1 DEF JobFor, CompletionJob, CaptureJob, PlaceholderJob, RevertJob
  <2>3. e = Start
    BY <2>2 DEF DomainEvents, RuntimeEvents, Start
  <2>4. job' = BaselineJob
    BY <1>2, <2>2 DEF JobFor
  <2> QED
    BY <1>1, <1>4, <2>3, <2>4 DEF BaselineJob
<1>5. BaselineSettled => BaselineSettled'
  <2>1. NoStart(runtime) /\ NoStart(domain) =>
          e # Start /\ NoStart(runtime') /\ NoStart(domain')
    BY <1>1, <1>2, NoNewStart DEF QueuesTyped
  <2> QED
    BY <1>4, <2>1, Settled
<1>6. ASSUME job'.step = "baseline" PROVE job'.count >= Before
  <2>1. e = Start /\ job'.count = MaxCount
    BY <1>4, <1>6
  <2>2. CASE Filled(Length) /\ Matching
    BY <1>1, <2>1, <2>2, MaxWhenFilled DEF Before
  <2>3. CASE Turning
    <3>1. CASE Tracked(Latest)
      <4>1. PICK c \in checkpoints : c.turn = Latest
        BY <3>1 DEF Tracked
      <4>2. c.count = Length
        BY <2>3, <4>1, LatestIsLast DEF Turning
      <4>3. c.count <= MaxCount /\ MaxCount \in Nat
        BY <1>1, MaxCountIsGreatest, MaxCountTyped
      <4> QED
        BY <1>1, <2>1, <4>2, <4>3 DEF Before
    <3>2. CASE ~Tracked(Latest)
      BY <1>1, <2>1, <2>3, <3>2, MaxWhenMissing DEF Turning, Before
    <3> QED
      BY <3>1, <3>2
  <2> QED
    BY <1>1, <2>2, <2>3 DEF Phase, Resting, Waiting, Reverting
<1>7. FilesKnown'
  <2>1. job'.step # "rollback"
    BY <1>3
  <2> QED
    BY <1>1, <1>5, <1>6, <2>1, StillKnown DEF FilesKnown, Work
<1>8. Replaced'
  <2> SUFFICES ASSUME NEW c \in checkpoints, ~c.git
               PROVE  c.count = Length /\ c.status = "missing" /\ OnTheWay'
    BY <1>1 DEF Replaced
  <2>1. c.count = Length /\ c.status = "missing"
    BY DEF Work, Replaced
  <2>2. PICK i \in 1 .. Len(domain) : domain[i].type = "diff" /\ domain[i].status = "missing"
    BY <1>1 DEF Work, Replaced, OnTheWay
  <2>3. Turning
    <3>1. ~ (\A d \in checkpoints : d.git)
      OBVIOUS
    <3> QED
      BY <1>1, <3>1, NoneLeft DEF Phase, Resting, Waiting, Reverting, Work
  <2>4. CASE domain' = domain
    BY <2>1, <2>2, <2>4 DEF OnTheWay
  <2>5. CASE domain # <<>> /\ domain' = Tail(domain) /\ e = Head(domain)
    <3>1. i # 1 => i - 1 \in 1 .. Len(domain') /\ domain'[i - 1] = domain[i]
      BY <1>1, <2>5, TailHas DEF QueuesTyped
    <3>2. i # 1 => OnTheWay'
      BY <2>2, <3>1 DEF OnTheWay
    <3>3. ASSUME i = 1 PROVE OnTheWay'
      <4>1. e.type = "diff" /\ e.status = "missing" /\ e \in DomainNow
        BY <1>1, <2>2, <2>3, <2>5, <3>3, TailHas DEF QueuesTyped, Turning
      <4>2. e.turn = Latest
        BY <4>1 DEF DomainNow, Start
      <4>3. ~Captured(Latest)
        <5> SUFFICES ASSUME NEW d \in checkpoints, d.turn = Latest PROVE d.status = "missing"
          BY DEF Captured
        <5>1. d.count = Length
          BY <2>3, LatestIsLast DEF Turning
        <5> QED
          BY <2>1, <5>1 DEF Unique
      <4>4. job' = CaptureJob(e.turn, e.count, "ready")
        BY <1>2, <4>1, <4>2, <4>3 DEF JobFor, PlaceholderJob
      <4> QED
        BY <4>4 DEF CaptureJob, OnTheWay
    <3> QED
      BY <2>1, <3>2, <3>3
  <2> QED
    BY <1>2, <2>4, <2>5
<1> QED
  BY <1>1, <1>7, <1>8, StillKnown DEF Work

\* A ref of the state before the first turn is empty; any other is of its turn's place.
LEMMA CaptureWork ==
  ASSUME Inv, Ordered, Unique, Phase, Work, CaptureBaseline \/ CaptureTurn \/ RecordCheckpoint
  PROVE  Work'
<1> USE DEF user, provider
<1>1. /\ UNCHANGED <<sent, pending, conversation, files, runtime>> /\ Idle.step = "idle"
      /\ Length \in Nat /\ sent \in Nat /\ Length' = Length /\ Before' = Before
  <2>1. UNCHANGED <<sent, pending, conversation, files, runtime>>
    BY DEF CaptureBaseline, CaptureTurn, RecordCheckpoint
  <2> QED
    BY <2>1 DEF Idle, Ordered, Length, Before
<1>2. CASE CaptureBaseline
  <2>1. /\ job.step = "baseline" /\ job' = Idle /\ UNCHANGED <<domain, checkpoints>>
        /\ refs' = [n \in DOMAIN refs \cup {job.count} |->
                      IF n = job.count THEN [turn |-> NoTurn, files |-> files] ELSE refs[n]]
    BY <1>2 DEF CaptureBaseline, CaptureRef
  <2>2. Known(files, Before) /\ job.count >= Before /\ job.count \in Nat
    BY <2>1, Settled, JobFields DEF Work, FilesKnown, Inv
  <2>3. FilesKnown'
    BY <1>1, <2>1, <2>2, StillKnown DEF FilesKnown
  <2>4. job.count = 0 => files = {}
    <3>1. job.count = 0 => 1 .. Before = {}
      BY <1>1, <2>2 DEF Before
    <3> QED
      BY <2>2, <3>1 DEF Known
  <2>5. 0 \in DOMAIN refs' => refs'[0].files = {}
    BY <2>1, <2>4 DEF Work, RefsKnown
  <2>6. ASSUME NEW n \in DOMAIN refs'
        PROVE  /\ refs'[n].turn \in 0 .. sent /\ (pending => refs'[n].turn < sent)
               /\ (n \in 1 .. Length /\ refs'[n].turn = conversation[n]) => Known(refs'[n].files, n)
    <3>1. CASE n = job.count
      <4>1. refs'[n].turn = 0
        BY <2>1, <3>1 DEF NoTurn
      <4>2. n \in 1 .. Length => conversation[n] # 0
        BY DEF Ordered
      <4>3. pending => 0 < sent
        BY DEF Ordered
      <4> QED
        BY <1>1, <4>1, <4>2, <4>3
    <3>2. CASE n # job.count
      <4>1. n \in DOMAIN refs /\ refs'[n] = refs[n]
        BY <2>1, <3>2
      <4> QED
        BY <4>1 DEF Work, RefsKnown
    <3> QED
      BY <3>1, <3>2
  <2>7. RefsKnown'
    BY <1>1, <2>5, <2>6 DEF RefsKnown, Known
  <2>8. Replaced'
    BY <1>1, <2>1 DEF Work, Replaced, OnTheWay
  <2> QED
    BY <2>3, <2>7, <2>8 DEF Work
<1>3. CASE CaptureTurn
  <2>1. /\ job.step = "capture" /\ job' = [job EXCEPT !.step = "record"]
        /\ UNCHANGED <<domain, checkpoints>>
        /\ refs' = [n \in DOMAIN refs \cup {job.count} |->
                      IF n = job.count THEN [turn |-> job.turn, files |-> files] ELSE refs[n]]
    BY <1>3 DEF CaptureTurn, CaptureRef
  <2>2. Turning /\ job.turn = Latest /\ job.count = Length /\ Length > 0 /\ ~pending
    BY <2>1 DEF Phase, Resting, Waiting, Turning, Reverting, JobNow, Idle
  <2>3. job'.step = "record"
    BY <2>1, JobFields DEF Inv
  <2>4. BaselineSettled => BaselineSettled'
    BY <1>1, <2>1, <2>3, Settled
  <2>5. FilesKnown'
    BY <1>1, <2>3, <2>4, StillKnown DEF Work, FilesKnown
  <2>6. 0 \in DOMAIN refs' => refs'[0].files = {}
    BY <1>1, <2>1, <2>2 DEF Work, RefsKnown
  <2>7. ASSUME NEW n \in DOMAIN refs'
        PROVE  /\ refs'[n].turn \in 0 .. sent
               /\ (n \in 1 .. Length /\ refs'[n].turn = conversation[n]) => Known(refs'[n].files, n)
    <3>1. CASE n = job.count
      <4>1. refs'[n].turn = Latest /\ refs'[n].files = files /\ n = Length
        BY <2>1, <2>2, <3>1
      <4>2. Latest \in 0 .. sent
        <5>1. Length \in 1 .. Length
          BY <1>1, <2>2
        <5>2. conversation[Length] \in Nat
          BY <5>1 DEF Ordered, Length
        <5>3. 0 < conversation[Length] /\ conversation[Length] <= sent
          BY <5>1 DEF Ordered
        <5> QED
          BY <1>1, <5>2, <5>3 DEF Latest
      <4>3. Known(files, Length)
        BY DEF Work, FilesKnown
      <4>4. Known(refs'[n].files, n)
        BY <4>1, <4>3, Zenon
      <4> QED
        BY <4>1, <4>2, <4>4
    <3>2. CASE n # job.count
      <4>1. n \in DOMAIN refs /\ refs'[n] = refs[n]
        BY <2>1, <3>2
      <4> QED
        BY <4>1 DEF Work, RefsKnown
    <3> QED
      BY <3>1, <3>2
  <2>8. RefsKnown'
    BY <1>1, <2>2, <2>6, <2>7 DEF RefsKnown, Known
  <2>9. Replaced'
    BY <1>1, <2>1, <2>3 DEF Work, Replaced, OnTheWay
  <2> QED
    BY <2>5, <2>8, <2>9 DEF Work
<1>4. CASE RecordCheckpoint
  <2> DEFINE row == Row(job.turn, job.count, job.status, TRUE)
             diff == Diff(job.turn, job.count, job.status)
  <2>1. /\ job.step = "record" /\ job' = Idle /\ refs' = refs
        /\ checkpoints' = Upsert(row) /\ domain' = Append(domain, diff)
    BY <1>4 DEF RecordCheckpoint
  <2>2. Turning /\ job.count = Length
    BY <2>1 DEF Phase, Resting, Waiting, Turning, Reverting, JobNow, Idle
  <2>3. BaselineSettled => BaselineSettled'
    <3>1. diff # Start /\ domain \in Seq(DomainNow)
      BY <2>2 DEF Diff, Start, Turning
    <3> QED
      BY <1>1, <2>1, <3>1, NoNewStart, Settled
  <2>4. FilesKnown'
    BY <1>1, <2>1, <2>3, StillKnown DEF Work, FilesKnown
  <2>5. \A c \in checkpoints' : c.git
    <3>1. row.git = TRUE /\ row.count = Length
      BY <2>2 DEF Row
    <3>2. \A c \in checkpoints' : c = row \/ (c \in checkpoints /\ c.count # Length)
      BY <2>1, <3>1 DEF Upsert
    <3> QED
      BY <3>1, <3>2 DEF Work, Replaced
  <2>6. Replaced'
    BY <2>5 DEF Replaced
  <2> QED
    BY <1>1, <2>1, <2>4, <2>6, StillKnown DEF Work
<1> QED
  BY <1>2, <1>3, <1>4

\* A revert forgets no more turns than it has taken out of the workspace.
LEMMA RevertWork ==
  ASSUME Inv, Ordered, Unique, Phase, Work, Restore \/ Rollback \/ DeleteRefs \/ CompleteRevert
  PROVE  Work'
<1> USE DEF user, provider
<1>1. /\ job.step \in {"restore", "rollback", "delete", "complete"} /\ Idle.step = "idle"
      /\ UNCHANGED <<sent, pending, domain, runtime>> /\ Length \in Nat
  BY DEF Restore, Rollback, DeleteRefs, CompleteRevert, Idle, Ordered, Length
<1>2. Reverting /\ domain = <<>> /\ runtime = <<>>
  <2>1. Reverting
    BY <1>1 DEF Phase, Resting, Waiting, Turning, JobNow
  <2> QED
    BY <1>1, <2>1 DEF Reverting, NothingIngested
<1>3. \A c \in checkpoints : c.git
  BY <1>1, <1>2, NoneLeft DEF Work
<1>4. job \in [step : {"restore", "rollback", "delete", "complete"},
               target : Int, max : Nat, git : BOOLEAN, stale : SUBSET Nat]
  BY <1>1, JobFields DEF Inv
<1>5. checkpoints' \subseteq checkpoints
  BY DEF Restore, Rollback, DeleteRefs, CompleteRevert
<1>6. Replaced'
  BY <1>3, <1>5 DEF Replaced
<1>7. job' = Idle \/ \E step \in {"rollback", "delete", "complete"} : job' = [job EXCEPT !.step = step]
  BY DEF Restore, Rollback, DeleteRefs, CompleteRevert
<1>8. job'.step # "baseline" /\ (job' # Idle => job'.target = job.target)
  BY <1>1, <1>4, <1>7
<1>9. BaselineSettled'
  <2>1. NoStart(runtime') /\ NoStart(domain')
    BY <1>1, <1>2 DEF NoStart
  <2> QED
    BY <1>8, <2>1, Settled
<1>10. CASE Restore
  <2>1. job.step = "restore" /\ UNCHANGED <<conversation, checkpoints, refs>> /\ Length' = Length
    BY <1>10 DEF Restore, Length
  <2>2. job.target \in 0 .. Length - 1 /\ Matching /\ Filled(Length)
    BY <1>1, <1>2, <2>1 DEF Reverting
  <2>3. Known(files', Length) /\ (job' # Idle => Known(files', job.target))
    <3>1. CASE job.target \in DOMAIN refs /\ files' = refs[job.target].files
      <4>1. Known(files', job.target)
        <5>1. CASE job.target = 0
          BY <3>1, <5>1 DEF Work, RefsKnown, Known
        <5>2. CASE job.target # 0
          <6>1. job.target \in 1 .. Length
            BY <1>1, <2>2, <5>2
          <6>2. PICK c \in checkpoints : c.count = job.target
            BY <2>2, <6>1 DEF Filled, Has
          <6>3. refs[job.target].turn = c.turn
            BY <1>3, <2>1, <6>2 DEF Inv, Held
          <6>4. c.turn = conversation[job.target]
            BY <2>2, <6>2 DEF Matching
          <6> QED
            BY <3>1, <6>1, <6>3, <6>4 DEF Work, RefsKnown
        <5> QED
          BY <5>1, <5>2
      <4>2. \A i \in 1 .. job.target : i \in 1 .. Length
        BY <1>1, <2>2
      <4> QED
        BY <4>1, <4>2 DEF Known
    <3>2. CASE files' = {}
      BY <3>2 DEF Known
    <3>3. CASE files' = files /\ job' = Idle
      BY <3>3 DEF Work, FilesKnown
    <3> QED
      BY <1>10, <3>1, <3>2, <3>3 DEF Restore
  <2>4. Known(files, Length)'
    BY <2>1, <2>3 DEF Known
  <2>5. job'.step = "rollback" => Known(files, job.target)'
    <3>1. job'.step = "rollback" => job' # Idle /\ job'.target = job.target
      BY <1>1, <1>8
    <3> QED
      BY <2>1, <2>3, <3>1 DEF Known
  <2>6. FilesKnown'
    BY <1>8, <1>9, <2>4, <2>5 DEF FilesKnown
  <2>7. RefsKnown'
    BY <1>1, <2>1 DEF Work, RefsKnown, Known
  <2> QED
    BY <1>6, <2>6, <2>7 DEF Work
<1>11. CASE Rollback
  <2>1. /\ job.step = "rollback" /\ UNCHANGED <<checkpoints, refs, files>>
        /\ conversation' = SubSeq(conversation, 1, Len(conversation) - (job.max - job.target))
        /\ job' = [job EXCEPT !.step = "delete"]
    BY <1>11 DEF Rollback
  <2>2. job.max = Length /\ job.target \in 0 .. Length - 1
    BY <1>1, <1>2, <2>1 DEF Reverting
  <2>3. conversation' = SubSeq(conversation, 1, job.target)
    BY <1>1, <2>1, <2>2 DEF Length
  <2>4. /\ Length' = job.target
        /\ \A i \in 1 .. job.target : i \in 1 .. Length /\ conversation'[i] = conversation[i]
    BY <2>2, <2>3 DEF Ordered, Length
  <2>5. ASSUME NEW S, NEW n \in 0 .. job.target, Known(S, n)
        PROVE  \A e \in S : \E i \in 1 .. n : conversation'[i] = e[1]
    <3>1. \A i \in 1 .. n : i \in 1 .. job.target
      BY <1>4
    <3> QED
      BY <2>4, <2>5, <3>1 DEF Known
  <2>6. job'.step = "delete"
    BY <1>4, <2>1
  <2>7. FilesKnown'
    <3>1. \A e \in files : \E i \in 1 .. job.target : conversation'[i] = e[1]
      <4>1. job.target \in 0 .. job.target /\ Known(files, job.target)
        BY <2>1, <2>2 DEF Work, FilesKnown
      <4> QED
        BY <2>5, <4>1
    <3>2. Known(files, Length)'
      BY <2>1, <2>4, <3>1, Zenon DEF Known
    <3> QED
      BY <1>9, <2>6, <3>2 DEF FilesKnown
  <2>8. RefsKnown'
    <3>1. ASSUME NEW n \in DOMAIN refs, n \in 1 .. job.target, refs[n].turn = conversation'[n]
          PROVE  \A e \in refs[n].files : \E i \in 1 .. n : conversation'[i] = e[1]
      <4>1. n \in 0 .. job.target /\ n \in 1 .. Length /\ refs[n].turn = conversation[n]
        BY <2>4, <3>1
      <4>2. Known(refs[n].files, n)
        BY <4>1 DEF Work, RefsKnown
      <4> QED
        BY <2>5, <4>1, <4>2
    <3>2. ASSUME NEW n \in DOMAIN refs
          PROVE  refs[n].turn \in 0 .. sent /\ (pending => refs[n].turn < sent)
      BY DEF Work, RefsKnown
    <3>3. 0 \in DOMAIN refs => refs[0].files = {}
      BY DEF Work, RefsKnown
    <3> QED
      BY <1>1, <2>1, <2>4, <3>1, <3>2, <3>3 DEF RefsKnown, Known
  <2> QED
    BY <1>6, <2>7, <2>8 DEF Work
<1>12. CASE DeleteRefs \/ CompleteRevert
  <2>1. /\ UNCHANGED <<conversation, files>> /\ Length' = Length /\ job'.step # "rollback"
        /\ refs' = refs \/ refs' = [n \in DOMAIN refs \ job.stale |-> refs[n]]
    BY <1>1, <1>4, <1>12 DEF DeleteRefs, CompleteRevert, Length
  <2>2. FilesKnown'
    BY <1>1, <1>8, <1>9, <2>1, StillKnown DEF FilesKnown
  <2>3. \A n \in DOMAIN refs' : n \in DOMAIN refs /\ refs'[n] = refs[n]
    BY <2>1
  <2>4. RefsKnown'
    BY <1>1, <2>1, <2>3 DEF Work, RefsKnown, Known
  <2> QED
    BY <1>6, <2>2, <2>4 DEF Work
<1> QED
  BY <1>10, <1>11, <1>12

LEMMA FailureWork ==
  ASSUME Inv, Ordered, Phase, Work, StepFails, "capture" \notin Faults
  PROVE  Work'
<1> USE DEF user, provider
<1>1. /\ job.step \in {"baseline", "restore", "rollback"} /\ job' = Idle /\ Idle.step = "idle"
      /\ UNCHANGED <<sent, pending, conversation, files, runtime, domain, checkpoints, refs>>
  BY CheckpointsAssumption DEF StepFails, Idle
<1>2. BaselineSettled => BaselineSettled'
  BY <1>1, Settled
<1>3. FilesKnown'
  BY <1>1, <1>2, StillKnown DEF Work, FilesKnown
<1>4. Replaced'
  BY <1>1, StillKnown DEF Work, Replaced, OnTheWay
<1> QED
  BY <1>1, <1>3, <1>4, StillKnown DEF Work

LEMMA InitWork == ASSUME Init PROVE Work
<1>1. Idle.step = "idle" /\ DOMAIN <<>> = {} /\ Length = 0
  BY DEF Idle, Init, Length
<1> QED
  BY <1>1 DEF Init, Work, FilesKnown, RefsKnown, Replaced, Known, BaselineSettled

LEMMA StepWork ==
  ASSUME Inv, Story, patient => Work, [Next]_vars, "capture" \notin Faults
  PROVE  (patient => Work)'
<1>1. patient' = patient
  BY DEF Next, ReactorStep, IngestStep, vars, user, provider, Send, RequestRevert, TurnBegins, Edit,
         TurnEnds, IngestStarted, IngestCompleted, IngestLifecycle, Ingesting, IngestDiff,
         RecordPlaceholder, TakeRuntime, TakeDomain, CaptureBaseline, CaptureTurn, RecordCheckpoint,
         Restore, Rollback, DeleteRefs, CompleteRevert, StepFails
<1> SUFFICES ASSUME patient, Ordered, Unique, Phase, Work PROVE Work'
  BY <1>1 DEF Story
<1>2. CASE UNCHANGED vars
  <2>1. UNCHANGED <<sent, pending, conversation, files, runtime, domain, checkpoints, refs, job>>
    BY <1>2 DEF vars, user, provider
  <2>2. BaselineSettled => BaselineSettled'
    BY <2>1, Settled
  <2>3. FilesKnown'
    <3>1. job.step = "rollback" => Known(files, job.target)'
      BY <2>1 DEF Work, FilesKnown, Known
    <3> QED
      BY <2>1, <2>2, <3>1, StillKnown DEF Work, FilesKnown
  <2>4. Replaced'
    BY <2>1, StillKnown DEF Work, Replaced, OnTheWay
  <2> QED
    BY <2>1, <2>3, <2>4, StillKnown DEF Work
<1>3. CASE Next
  BY <1>3, UserWork, BeginsWork, AgentWork, IngestWork, TakeWork, CaptureWork, RevertWork,
     FailureWork DEF Next, ReactorStep
<1> QED
  BY <1>2, <1>3

\* For a user who waits, nothing that the provider has forgotten is left in the workspace,
\* nor is anything of a later turn in a checkpoint, after any reverts and whichever step
\* fails before a capture.
THEOREM WorkspaceMatches ==
  ASSUME "capture" \notin Faults
  PROVE  Spec => []WorkspaceIsOfConversation
<1>1. Init => Inv /\ Story /\ (patient => Work)
  BY InitInv, InitStory, InitWork
<1>2. Inv /\ Story /\ (patient => Work) /\ [Next]_vars => (Inv /\ Story /\ (patient => Work))'
  BY StepInv, StepStory, StepWork
<1>3. Inv /\ Story /\ (patient => Work) => WorkspaceIsOfConversation
  <2> SUFFICES ASSUME Inv, Story, Work, patient, Quiet
               PROVE  /\ \A e \in files : e[1] \in {conversation[i] : i \in 1 .. Length}
                      /\ \A c \in checkpoints : \A e \in refs[c.count].files :
                           e[1] \in {conversation[i] : i \in 1 .. c.count}
    BY DEF WorkspaceIsOfConversation, Length
  <2>1. Ordered /\ Phase /\ Matching
    BY QuietRests DEF Story
  <2>2. \A e \in files : e[1] \in {conversation[i] : i \in 1 .. Length}
    BY DEF Work, FilesKnown, Known
  <2>3. ASSUME NEW c \in checkpoints
        PROVE  \A e \in refs[c.count].files : e[1] \in {conversation[i] : i \in 1 .. c.count}
    <3>1. c.git /\ job.step = "idle"
      BY NoneLeft DEF Quiet, Idle, Work
    <3>2. c.count \in DOMAIN refs /\ refs[c.count].turn = c.turn
      BY <3>1 DEF Inv, Held
    <3>3. c.count \in 1 .. Length /\ conversation[c.count] = c.turn
      BY <2>1 DEF Matching
    <3>4. Known(refs[c.count].files, c.count)
      BY <3>2, <3>3 DEF Work, RefsKnown
    <3> QED
      BY <3>4 DEF Known
  <2> QED
    BY <2>2, <2>3
<1> QED
  BY <1>1, <1>2, <1>3, PTL DEF Spec

=============================================================================
