---------------------------- MODULE TurnCheckpoints ----------------------------
(***************************************************************************)
(* The checkpoints of one thread, and who writes them.                     *)
(*                                                                         *)
(* While an agent works, ProviderRuntimeIngestion.ts records placeholders  *)
(* for the turns that changed files, and CheckpointReactor.ts captures the *)
(* workspace as git refs and records those.  Both are workers of their own *)
(* (DrainableWorker), both read the projected checkpoints and dispatch     *)
(* later.  The reactor also takes the thread back to an earlier checkpoint *)
(* when the user asks: files, the provider's conversation, refs and read   *)
(* model, one after the other.                                             *)
(*                                                                         *)
(* Turns are numbered in the order in which they are sent.  The workspace  *)
(* is the set of edits in it.  The reactor's queue merges two streams, so  *)
(* it takes from either.                                                   *)
(***************************************************************************)
EXTENDS Integers, Sequences, FiniteSets

CONSTANTS
  MaxTurns, MaxReverts, MaxEdits,  \* bounds: turns, reverts, edits of each turn
  Outcomes,                        \* how turns may end
  Faults, MaxFaults,               \* steps of the reactor that may fail; bound
  HastyTurns, HastyReverts, HastyFaults  \* the bounds when nobody waits

ASSUME CheckpointsAssumption ==
  /\ {MaxTurns, MaxEdits, MaxReverts, MaxFaults} \subseteq Nat
  /\ HastyTurns \in 0 .. MaxTurns
  /\ HastyReverts \in 0 .. MaxReverts /\ HastyFaults \in 0 .. MaxFaults
  /\ Outcomes \subseteq {"completed", "failed", "interrupted"}
  /\ Faults \subseteq {"baseline", "capture", "restore", "rollback"}

NoTurn == 0
Turns == 1 .. MaxTurns
Edits == Turns \X (1 .. MaxEdits)

Idle == [step |-> "idle"]
NoPlaceholder == [turn |-> NoTurn, count |-> 0]

VARIABLES
  patient,       \* user and agent wait for the server (see Spec)
  sent,          \* turns the user has sent
  pending,       \* the last one has not reached the agent
  reverts,       \* reverts requested
  live,          \* the turn the agent works on
  edits,         \* observation: how often each turn has changed files
  files,         \* the workspace
  conversation,  \* the turns the provider remembers
  ingest,        \* provider events that ingestion has not handled
  runtime,       \* provider events that the reactor has not handled
  domain,        \* events of the engine that the reactor has not handled
  active,        \* projected session.activeTurnId
  checkpoints,   \* projected rows with a turn count
  placeholder,   \* what ingestion is about to dispatch
  job,           \* what the reactor is about to do
  refs,          \* git refs by turn count
  faults         \* steps that have failed

user == <<patient, sent, reverts>>
provider == <<live, edits, conversation>>
vars == <<user, pending, provider, files, ingest, runtime, domain, active,
          checkpoints, placeholder, job, refs, faults>>

-----------------------------------------------------------------------------
MaxCount == CHOOSE n \in {0} \cup {c.count : c \in checkpoints} :
              \A c \in checkpoints : c.count <= n

Tracked(t) == \E c \in checkpoints : c.turn = t
Captured(t) == \E c \in checkpoints : c.turn = t /\ c.status # "missing"

UpsertBug(row) ==  \* leaves the count to the turn that had it
  {c \in checkpoints : c.turn # row.turn} \cup {row}

\* clearCheckpointTurnConflict, then upsertByTurnId.
Upsert(row) ==
  {c \in checkpoints : c.turn # row.turn /\ c.count # row.count} \cup {row}

Row(turn, count, status, git) ==
  [turn |-> turn, count |-> count, status |-> status, git |-> git]
Start == [type |-> "start"]
Diff(turn, count, status) ==
  [type |-> "diff", turn |-> turn, count |-> count, status |-> status]

Init ==
  /\ patient \in BOOLEAN
  /\ sent = 0 /\ pending = FALSE /\ reverts = 0
  /\ live = NoTurn /\ edits = [t \in Turns |-> 0] /\ files = {} /\ conversation = <<>>
  /\ ingest = <<>> /\ runtime = <<>> /\ domain = <<>>
  /\ active = NoTurn /\ checkpoints = {}
  /\ placeholder = NoPlaceholder /\ job = Idle /\ refs = <<>> /\ faults = 0

-----------------------------------------------------------------------------
(* The user and the agent.                                                 *)

Quiet ==  \* everything that has happened is handled
  /\ ~pending /\ live = NoTurn
  /\ ingest = <<>> /\ runtime = <<>> /\ domain = <<>>
  /\ placeholder = NoPlaceholder /\ job = Idle

\* The composer is free: no turn is being sent or shown as running.
Ready ==
  /\ ~pending /\ active = NoTurn
  /\ \A i \in DOMAIN ingest : ingest[i].type # "started"
  /\ patient => Quiet

\* thread.turn.start: message-sent and turn-start-requested.
Send ==
  /\ Ready /\ sent < IF patient THEN MaxTurns ELSE HastyTurns
  /\ sent' = sent + 1
  /\ pending' = TRUE
  /\ domain' = domain \o <<Start, Start>>
  /\ UNCHANGED <<patient, reverts, provider, files, ingest, runtime, active,
                 checkpoints, placeholder, job, refs, faults>>

\* thread.checkpoint.revert, to before the turn of a checkpoint.
RequestRevert ==
  /\ Ready /\ reverts < IF patient THEN MaxReverts ELSE HastyReverts
  /\ reverts' = reverts + 1
  /\ \E c \in checkpoints : domain' = Append(domain, [type |-> "revert", target |-> c.count - 1])
  /\ UNCHANGED <<patient, sent, pending, provider, files, ingest, runtime, active,
                 checkpoints, placeholder, job, refs, faults>>

\* sendTurn reaches the agent: turn.started.
TurnBegins ==
  /\ pending /\ live = NoTurn
  /\ pending' = FALSE
  /\ live' = sent
  /\ conversation' = Append(conversation, sent)
  /\ ingest' = Append(ingest, [type |-> "started", turn |-> sent])
  /\ runtime' = Append(runtime, Start)
  /\ UNCHANGED <<user, edits, files, domain, active, checkpoints, placeholder, job, refs, faults>>

BaselineSettled ==
  /\ \A q \in {runtime, domain} : \A i \in DOMAIN q : q[i] # Start
  /\ job.step # "baseline"

\* The agent changes files; some providers tell (turn.diff.updated).
Edit ==
  /\ live # NoTurn /\ edits[live] < MaxEdits
  /\ patient => BaselineSettled
  /\ edits' = [edits EXCEPT ![live] = @ + 1]
  /\ files' = files \cup {<<live, edits'[live]>>}
  /\ ingest' \in {ingest, Append(ingest, [type |-> "diff", turn |-> live])}
  /\ UNCHANGED <<user, pending, live, conversation, runtime, domain, active, checkpoints,
                 placeholder, job, refs, faults>>

\* turn.completed, with how the turn ended.
TurnEnds(outcome) ==
  /\ live # NoTurn
  /\ live' = NoTurn
  /\ ingest' = Append(ingest, [type |-> "completed", turn |-> live])
  /\ runtime' = Append(runtime, [type |-> "completed", turn |-> live, outcome |-> outcome])
  /\ UNCHANGED <<user, pending, edits, conversation, files, domain, active, checkpoints,
                 placeholder, job, refs, faults>>

-----------------------------------------------------------------------------
(* ProviderRuntimeIngestion                                                *)

Ingesting(type) ==
  /\ placeholder = NoPlaceholder
  /\ ingest # <<>> /\ Head(ingest).type = type
  /\ ingest' = Tail(ingest)
  /\ UNCHANGED <<user, pending, provider, files, runtime, job, refs, faults>>

\* Only the active turn changes the session's lifecycle.
IngestLifecycle(type, next) ==
  /\ Ingesting(type)
  /\ active' = IF active \in {NoTurn, Head(ingest).turn} THEN next ELSE active
  /\ UNCHANGED <<domain, checkpoints, placeholder>>

IngestStarted == IngestLifecycle("started", Head(ingest).turn)
IngestCompleted == IngestLifecycle("completed", NoTurn)

\* turn.diff.updated: a turn without a checkpoint gets the next count ...
IngestDiff ==
  /\ Ingesting("diff")
  /\ placeholder' = IF Tracked(Head(ingest).turn) THEN NoPlaceholder
                    ELSE [turn |-> Head(ingest).turn, count |-> MaxCount + 1]
  /\ UNCHANGED <<domain, active, checkpoints>>

\* ... when the command is handled.
RecordPlaceholder ==
  /\ placeholder # NoPlaceholder
  /\ checkpoints' = Upsert(Row(placeholder.turn, placeholder.count, "missing", FALSE))
  /\ domain' = Append(domain, Diff(placeholder.turn, placeholder.count, "missing"))
  /\ placeholder' = NoPlaceholder
  /\ UNCHANGED <<user, pending, provider, files, ingest, runtime, active, job, refs, faults>>

IngestStep == IngestStarted \/ IngestCompleted \/ IngestDiff \/ RecordPlaceholder

-----------------------------------------------------------------------------
(* CheckpointReactor: one input at a time, and what becomes of it.         *)

\* The state before a turn, unless it is already captured.
BaselineJob ==
  IF MaxCount \in DOMAIN refs THEN Idle ELSE [step |-> "baseline", count |-> MaxCount]

CaptureJob(t, count, status) ==
  [step |-> "capture", turn |-> t, count |-> count, status |-> status]

\* checkpointStatusFromRuntime
StatusOf(outcome) ==
  CASE outcome = "completed" -> "ready"
    [] outcome = "failed" -> "error"
    [] outcome = "interrupted" -> "missing"

CountForBug(t) == MaxCount + 1  \* forgets the placeholder's count

\* A placeholder keeps its count.
CountFor(t) ==
  IF Tracked(t) THEN (CHOOSE c \in checkpoints : c.turn = t).count ELSE MaxCount + 1

\* turn.completed: no other turn may be active, nor the turn captured.
CompletionJob(e) ==
  IF active \in {NoTurn, e.turn} /\ ~Captured(e.turn)
  THEN CaptureJob(e.turn, CountFor(e.turn), StatusOf(e.outcome))
  ELSE Idle

PlaceholderJobBug(e) == Idle  \* leaves placeholders to turn.completed

\* thread.turn-diff-completed: replace a placeholder, with its count.
PlaceholderJob(e) ==
  IF e.status = "missing" /\ ~Captured(e.turn)
  THEN CaptureJob(e.turn, e.count, "ready")
  ELSE Idle

\* thread.checkpoint-revert-requested: the target must be known.
RevertJob(e) ==
  LET known == {c \in checkpoints : c.count = e.target}
  IN  IF e.target <= MaxCount /\ (e.target = 0 \/ known # {})
      THEN [step |-> "restore", target |-> e.target, max |-> MaxCount,
            git |-> \A c \in known : c.git,
            stale |-> {c.count : c \in {d \in checkpoints : d.count > e.target /\ d.git}}]
      ELSE Idle

JobFor(e) ==
  CASE e.type = "start" -> BaselineJob
    [] e.type = "completed" -> CompletionJob(e)
    [] e.type = "diff" -> PlaceholderJob(e)
    [] e.type = "revert" -> RevertJob(e)

TakeRuntime ==
  /\ job = Idle /\ runtime # <<>>
  /\ job' = JobFor(Head(runtime))
  /\ runtime' = Tail(runtime)
  /\ UNCHANGED <<user, pending, provider, files, ingest, domain, active, checkpoints,
                 placeholder, refs, faults>>

TakeDomain ==
  /\ job = Idle /\ domain # <<>>
  /\ job' = JobFor(Head(domain))
  /\ domain' = Tail(domain)
  /\ UNCHANGED <<user, pending, provider, files, ingest, runtime, active, checkpoints,
                 placeholder, refs, faults>>

\* captureCheckpoint: the workspace as it is now, as a ref.
CaptureRef(count, t) ==
  refs' = [n \in DOMAIN refs \cup {count} |->
             IF n = count THEN [turn |-> t, files |-> files] ELSE refs[n]]

CaptureBaseline ==
  /\ job.step = "baseline"
  /\ CaptureRef(job.count, NoTurn)
  /\ job' = Idle
  /\ UNCHANGED <<user, pending, provider, files, ingest, runtime, domain, active, checkpoints,
                 placeholder, faults>>

CaptureTurn ==
  /\ job.step = "capture"
  /\ CaptureRef(job.count, job.turn)
  /\ job' = [job EXCEPT !.step = "record"]
  /\ UNCHANGED <<user, pending, provider, files, ingest, runtime, domain, active, checkpoints,
                 placeholder, faults>>

\* thread.turn.diff.complete, which comes back as an event.
RecordCheckpoint ==
  /\ job.step = "record"
  /\ checkpoints' = Upsert(Row(job.turn, job.count, job.status, TRUE))
  /\ domain' = Append(domain, Diff(job.turn, job.count, job.status))
  /\ job' = Idle
  /\ UNCHANGED <<user, pending, provider, files, ingest, runtime, active, placeholder, refs, faults>>

RestoreBug ==  \* leaves the files
  /\ job.step = "restore"
  /\ job' = [job EXCEPT !.step = "rollback"]
  /\ UNCHANGED <<user, pending, provider, files, ingest, runtime, domain, active, checkpoints,
                 placeholder, refs, faults>>

\* A revert, first step: the files.  Without a ref, turn 0 is HEAD.
Restore ==
  /\ job.step = "restore"
  /\ \/ /\ job.git /\ job.target \in DOMAIN refs
        /\ files' = refs[job.target].files
        /\ job' = [job EXCEPT !.step = "rollback"]
     \/ /\ job.target = 0 /\ 0 \notin DOMAIN refs
        /\ files' = {}
        /\ job' = [job EXCEPT !.step = "rollback"]
     \/ /\ job.target # 0 /\ ~(job.git /\ job.target \in DOMAIN refs)
        /\ files' = files
        /\ job' = Idle
  /\ UNCHANGED <<user, pending, provider, ingest, runtime, domain, active, checkpoints,
                 placeholder, refs, faults>>

\* Second, the conversation: as many turns as the counts say.
Rollback ==
  /\ job.step = "rollback"
  /\ LET kept == Len(conversation) - (job.max - job.target)
     IN  conversation' = SubSeq(conversation, 1, kept)
  /\ job' = [job EXCEPT !.step = "delete"]
  /\ UNCHANGED <<user, pending, live, edits, files, ingest, runtime, domain, active,
                 checkpoints, placeholder, refs, faults>>

\* Third, the refs of the turns given up.
DeleteRefs ==
  /\ job.step = "delete"
  /\ refs' = [n \in DOMAIN refs \ job.stale |-> refs[n]]
  /\ job' = [job EXCEPT !.step = "complete"]
  /\ UNCHANGED <<user, pending, provider, files, ingest, runtime, domain, active, checkpoints,
                 placeholder, faults>>

\* Last, thread.revert.complete: the read model keeps the counts up to the target.
CompleteRevert ==
  /\ job.step = "complete"
  /\ checkpoints' = {c \in checkpoints : c.count <= job.target}
  /\ job' = Idle
  /\ UNCHANGED <<user, pending, provider, files, ingest, runtime, domain, active, placeholder,
                 refs, faults>>

\* A step fails: the reactor appends a failure activity and goes on.
StepFails ==
  /\ job.step \in Faults /\ faults < IF patient THEN MaxFaults ELSE HastyFaults
  /\ job' = Idle
  /\ faults' = faults + 1
  /\ UNCHANGED <<user, pending, provider, files, ingest, runtime, domain, active, checkpoints,
                 placeholder, refs>>

ReactorStep ==
  \/ TakeRuntime \/ TakeDomain
  \/ CaptureBaseline \/ CaptureTurn \/ RecordCheckpoint
  \/ Restore \/ Rollback \/ DeleteRefs \/ CompleteRevert

-----------------------------------------------------------------------------
Next ==
  \/ Send \/ RequestRevert
  \/ TurnBegins \/ Edit \/ \E o \in Outcomes : TurnEnds(o)
  \/ IngestStep \/ ReactorStep \/ StepFails

(* In a patient behaviour the user sends and reverts when the server is    *)
(* quiet, and the agent changes files after its baseline was captured;     *)
(* everything else interleaves.  In the others nobody waits.               *)
Spec == Init /\ [][Next]_vars

\* The workers of ingestion and reactor are scheduled.
FairSpec == Spec /\ WF_vars(IngestStep) /\ WF_vars(ReactorStep)

-----------------------------------------------------------------------------
\* A checkpoint with a git ref has it, and it was captured for its turn:
\* although refs are named by counts that the two workers take from earlier
\* reads, and a revert deletes refs long before it deletes rows.
RefsAreCaptured ==
  job = Idle =>
    \A c \in checkpoints : c.git => c.count \in DOMAIN refs /\ refs[c.count].turn = c.turn

\* Rows and the provider's conversation agree, count by count, which is what
\* makes "roll back n turns" right.
RowsAreConversation ==
  patient /\ Quiet =>
    /\ Cardinality(checkpoints) = Len(conversation)
    /\ \A c \in checkpoints : c.count \in DOMAIN conversation /\ conversation[c.count] = c.turn

\* After any reverts, the workspace has no edit of a turn that the provider
\* has forgotten, nor has a checkpoint one of a later turn.
WorkspaceIsOfConversation ==
  patient /\ Quiet =>
    LET first(n) == {conversation[i] : i \in 1 .. n}
    IN  /\ \A e \in files : e[1] \in first(Len(conversation))
        /\ \A c \in checkpoints : \A e \in refs[c.count].files : e[1] \in first(c.count)

\* Whoever else counts or reverts meanwhile, and whichever of turn.completed
\* and the placeholder's event comes first, no placeholder stays for good.
PlaceholdersAreReplaced == []<>(\A c \in checkpoints : c.status # "missing")
=============================================================================
