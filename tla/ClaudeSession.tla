----------------------------- MODULE ClaudeSession -----------------------------
(***************************************************************************)
(* The sessions that one adapter, ClaudeAdapter.ts, holds for one thread.  *)
(*                                                                         *)
(* startSession, sendTurn and stopSession are called from fibers that do   *)
(* not wait for each other, and each of them waits in its middle: for the  *)
(* stream of a stopped session to be interrupted, for the agent to change  *)
(* its mode, for an attachment to be read.  Meanwhile the agent's messages *)
(* come in on the stream and its requests for permission through a         *)
(* callback.  What happens between two waits is one step.                  *)
(*                                                                         *)
(* A session has the number of the call that starts it.  The agent behind  *)
(* a session is external: it answers prompts in order, and may report on   *)
(* work in the background at any time.                                     *)
(***************************************************************************)
EXTENDS Naturals, FiniteSets

CONSTANTS
  MaxSessions,    \* bound: calls of startSession
  MaxPrompts,     \* bound: calls of sendTurn
  MaxBackground,  \* bound: turns that the agent's own messages start
  Requests        \* requests for permission or input

ASSUME ClaudeAssumption ==
  MaxSessions \in Nat /\ MaxPrompts \in Nat /\ MaxBackground \in Nat

Sessions == 1 .. MaxSessions
Prompts == 1 .. MaxPrompts
Background == MaxPrompts + 1 .. MaxPrompts + MaxBackground
Turns == Prompts \cup Background
NoSession == 0
NoTurn == 0
Stop == 0  \* stopSession, as against a start that replaces the session

VARIABLES
  stage,      \* of each session, and of the call that starts it
  stopper,    \* who stops it
  entry,      \* sessions.get(threadId)
  turn,       \* context.turnState
  prompts,    \* how many prompts its agent has not answered
  sends,      \* where each call of sendTurn is, and with which session
  requests,   \* what became of each request
  begun,      \* turns reported as started
  ended,      \* turns reported as completed
  raced,      \* observation: turns begun while another sendTurn waits, or after a stop
  overlapped  \* observation: a session has been entered while another was being stopped

vars == <<stage, stopper, entry, turn, prompts, sends, requests, begun, ended, raced,
          overlapped>>
turnEvents == <<begun, ended, raced>>

Live(c) == stage[c] = "live"
HasSession == entry # NoSession /\ Live(entry)  \* hasSession, requireSession
NotSent == [pc |-> "idle", at |-> NoSession]
NotAsked == [state |-> "none", at |-> NoSession, kind |-> "none", late |-> FALSE]

Init ==
  /\ stage = [c \in Sessions |-> "none"] /\ stopper = [c \in Sessions |-> Stop]
  /\ entry = NoSession
  /\ turn = [c \in Sessions |-> NoTurn] /\ prompts = [c \in Sessions |-> 0]
  /\ sends = [t \in Prompts |-> NotSent]
  /\ requests = [r \in Requests |-> NotAsked]
  /\ begun = {} /\ ended = {} /\ raced = {} /\ overlapped = FALSE

-----------------------------------------------------------------------------
\* completeTurn; without a turn, what it reports names none.
CompleteTurn(c) ==
  /\ ended' = ended \cup ({turn[c]} \ {NoTurn})
  /\ turn' = [turn EXCEPT ![c] = NoTurn]

\* (Variants named ...Bug stand for plausible mistakes; nothing here uses them.)
CancelledBug(c) == requests  \* a stop leaves the requests alone

\* A stop cancels the session's pending approvals, not its questions.
Cancelled(c) ==
  [r \in Requests |->
     IF requests[r].state = "pending" /\ requests[r].at = c /\ requests[r].kind = "approval"
     THEN [requests[r] EXCEPT !.state = "decided"] ELSE requests[r]]

\* stopSessionInternal, until it waits for the stream.
BeginStop(c, by) ==
  /\ stopper' = [stopper EXCEPT ![c] = by]
  /\ CompleteTurn(c)
  /\ requests' = Cancelled(c)

-----------------------------------------------------------------------------
(* startSession                                                            *)

Stopping == {c \in Sessions : stage[c] = "stopping"}

\* The session is there, and the map names it.
Enter(k, others) ==
  /\ entry' = k
  /\ overlapped' = (overlapped \/ others # {})

MayStart(k) == stage[k] = "none" /\ \A j \in 1 .. k - 1 : stage[j] # "none"

StartBug(k) ==  \* never stops the session that is there
  /\ MayStart(k)
  /\ stage' = [stage EXCEPT ![k] = "live"] /\ Enter(k, Stopping)
  /\ UNCHANGED <<stopper, turn, prompts, sends, requests, turnEvents>>

\* Nothing has to be stopped: there is no session, or somebody else stops it.
Start(k) ==
  /\ MayStart(k)
  /\ ~HasSession
  /\ \/ stage' = [stage EXCEPT ![k] = "live"] /\ Enter(k, Stopping)
     \/ stage' = [stage EXCEPT ![k] = "failed"] /\ UNCHANGED <<entry, overlapped>>
  /\ UNCHANGED <<stopper, turn, prompts, sends, requests, turnEvents>>

Replace(k) ==
  /\ MayStart(k)
  /\ HasSession
  /\ stage' = [stage EXCEPT ![k] = "replacing", ![entry] = "stopping"]
  /\ BeginStop(entry, k)
  /\ UNCHANGED <<entry, prompts, sends, begun, raced, overlapped>>

\* The old session is closed and the entry deleted; then the new one is made,
\* if the agent's process can be started.
Replaced(k, c) ==
  /\ stage[k] = "replacing" /\ stage[c] = "stopping" /\ stopper[c] = k
  /\ \/ stage' = [stage EXCEPT ![k] = "live", ![c] = "closed"] /\ Enter(k, Stopping \ {c})
     \/ /\ stage' = [stage EXCEPT ![k] = "failed", ![c] = "closed"]
        /\ entry' = NoSession /\ UNCHANGED overlapped
  /\ UNCHANGED <<stopper, turn, prompts, sends, requests, turnEvents>>

-----------------------------------------------------------------------------
(* stopSession, and the end of the stream                                  *)

StopSession ==
  /\ HasSession
  /\ stage' = [stage EXCEPT ![entry] = "stopping"]
  /\ BeginStop(entry, Stop)
  /\ UNCHANGED <<entry, prompts, sends, begun, raced, overlapped>>

\* session.exited is reported, and the thread's entry deleted.
Stopped(c) ==
  /\ stage[c] = "stopping" /\ stopper[c] = Stop
  /\ stage' = [stage EXCEPT ![c] = "closed"]
  /\ entry' = NoSession
  /\ UNCHANGED <<stopper, turn, prompts, sends, requests, turnEvents, overlapped>>

\* handleStreamExit runs in the stream's own fiber, for which nobody waits.
StreamEnds(c) ==
  /\ Live(c)
  /\ stage' = [stage EXCEPT ![c] = "closed"]
  /\ BeginStop(c, Stop)
  /\ entry' = NoSession
  /\ UNCHANGED <<prompts, sends, begun, raced, overlapped>>

-----------------------------------------------------------------------------
(* sendTurn                                                                *)

Waiting(c) == {t \in Prompts : sends[t] = [pc |-> "waiting", at |-> c]}

\* turn.started; the call that waits meanwhile does not know of it.
BeginTurn(c, t) ==
  /\ turn' = [turn EXCEPT ![c] = t]
  /\ begun' = begun \cup {t}
  /\ raced' = IF Live(c) /\ Waiting(c) \subseteq {t} THEN raced ELSE raced \cup {t}

MaySend(t) == sends[t].pc = "idle" /\ \A u \in 1 .. t - 1 : sends[u].pc # "idle"

SendTurnBug(t) ==  \* leaves the turn that is there
  /\ MaySend(t)
  /\ HasSession
  /\ sends' = [sends EXCEPT ![t] = [pc |-> "waiting", at |-> entry]]
  /\ UNCHANGED <<stage, stopper, entry, turn, prompts, requests, turnEvents, overlapped>>

\* A turn at work is completed; then the agent is told the model and the mode.
SendTurn(t) ==
  /\ MaySend(t)
  /\ HasSession
  /\ sends' = [sends EXCEPT ![t] = [pc |-> "waiting", at |-> entry]]
  /\ CompleteTurn(entry)
  /\ UNCHANGED <<stage, stopper, entry, prompts, requests, begun, raced, overlapped>>

TurnStarts(t) ==
  /\ sends[t].pc = "waiting"
  /\ BeginTurn(sends[t].at, t)
  /\ sends' = [sends EXCEPT ![t].pc = "building"]
  /\ UNCHANGED <<stage, stopper, entry, prompts, requests, ended, overlapped>>

\* The queue of a session that has been stopped takes nothing.
PromptOffered(t) ==
  /\ sends[t].pc = "building"
  /\ sends' = [sends EXCEPT ![t].pc = "done"]
  /\ prompts' = IF Live(sends[t].at) THEN [prompts EXCEPT ![sends[t].at] = @ + 1] ELSE prompts
  /\ UNCHANGED <<stage, stopper, entry, turn, requests, turnEvents, overlapped>>

\* There is no session, the agent refuses, or an attachment cannot be read.
SendFails(t) ==
  /\ \/ MaySend(t) /\ ~HasSession
     \/ sends[t].pc \in {"waiting", "building"}
  /\ sends' = [sends EXCEPT ![t].pc = "failed"]
  /\ UNCHANGED <<stage, stopper, entry, turn, prompts, requests, turnEvents, overlapped>>

-----------------------------------------------------------------------------
(* The agent's messages                                                    *)

\* handleAssistantMessage starts a turn if there is none.
AssistantMessage(c, t) ==
  /\ Live(c) /\ turn[c] = NoTurn
  /\ t \in Background /\ t \notin begun /\ \A u \in Background : u < t => u \in begun
  /\ BeginTurn(c, t)
  /\ UNCHANGED <<stage, stopper, entry, prompts, sends, requests, ended, overlapped>>

\* handleResultMessage completes the turn that is there, whichever prompt the
\* result answers.
Result(c) ==
  /\ Live(c)
  /\ \/ prompts[c] > 0 /\ prompts' = [prompts EXCEPT ![c] = @ - 1]
     \/ turn[c] \in Background /\ UNCHANGED prompts
  /\ CompleteTurn(c)
  /\ UNCHANGED <<stage, stopper, entry, sends, requests, begun, raced, overlapped>>

-----------------------------------------------------------------------------
(* canUseTool, respondToRequest, respondToUserInput                        *)

Ask(r, c, kind) ==
  /\ requests[r] = NotAsked /\ stage[c] \in {"live", "stopping"}
  /\ requests' = [requests EXCEPT ![r] = [state |-> "pending", at |-> c, kind |-> kind,
                                          late |-> ~Live(c)]]
  /\ UNCHANGED <<stage, stopper, entry, turn, prompts, sends, turnEvents, overlapped>>

Decide(r) ==
  /\ requests[r].state = "pending"
  /\ requests' = [requests EXCEPT ![r].state = "decided"]
  /\ UNCHANGED <<stage, stopper, entry, turn, prompts, sends, turnEvents, overlapped>>

Respond(r) == HasSession /\ requests[r].at = entry /\ Decide(r)

\* The agent withdraws its request, or goes away.
Abort(r) == Decide(r)

\* The callback goes on: request.resolved or user-input.resolved is reported.
Resolve(r) ==
  /\ requests[r].state = "decided"
  /\ requests' = [requests EXCEPT ![r].state = "resolved"]
  /\ UNCHANGED <<stage, stopper, entry, turn, prompts, sends, turnEvents, overlapped>>

-----------------------------------------------------------------------------
Next ==
  \/ \E k \in Sessions : Start(k) \/ Replace(k)
  \/ \E k, c \in Sessions : Replaced(k, c)
  \/ StopSession
  \/ \E c \in Sessions : Stopped(c) \/ StreamEnds(c)
  \/ \E t \in Prompts : SendTurn(t) \/ TurnStarts(t) \/ PromptOffered(t) \/ SendFails(t)
  \/ \E c \in Sessions, t \in Background : AssistantMessage(c, t)
  \/ \E c \in Sessions : Result(c)
  \/ \E r \in Requests, c \in Sessions, kind \in {"approval", "question"} : Ask(r, c, kind)
  \/ \E r \in Requests : Respond(r) \/ Abort(r) \/ Resolve(r)

Spec == Init /\ [][Next]_vars

-----------------------------------------------------------------------------
SendStates ==
  [Prompts -> [pc : {"idle", "waiting", "building", "done", "failed"},
               at : Sessions \cup {NoSession}]]
RequestStates ==
  [Requests -> [state : {"none", "pending", "decided", "resolved"},
                at : Sessions \cup {NoSession},
                kind : {"none", "approval", "question"}, late : BOOLEAN]]

TypeOK ==
  /\ stage \in [Sessions -> {"none", "replacing", "live", "stopping", "closed", "failed"}]
  /\ stopper \in [Sessions -> Sessions \cup {Stop}]
  /\ entry \in Sessions \cup {NoSession}
  /\ turn \in [Sessions -> Turns \cup {NoTurn}]
  /\ prompts \in [Sessions -> Nat]
  /\ sends \in SendStates /\ requests \in RequestStates
  /\ begun \subseteq Turns /\ ended \subseteq Turns /\ raced \subseteq Turns
  /\ overlapped \in BOOLEAN

\* A turn that was reported as started and not as completed is the turn of a
\* session at work, which its result, the next send or the stop completes: no
\* step of the adapter loses it, but for turns that begin while another
\* sendTurn waits, which overwrites them, or in a session already stopped.
TurnsEnd ==
  \A t \in begun \ ended : t \in raced \/ \E c \in Sessions : Live(c) /\ turn[c] = t

\* An approval that waits for the user can still be answered: its session is at
\* work, and it is the session that an answer is routed to.  Excepted are
\* requests made of a session that is being stopped already, and sessions that
\* a start has displaced while another was stopped.
ApprovalsCanBeAnswered ==
  \A r \in Requests :
    requests[r].state = "pending" /\ requests[r].kind = "approval" =>
      \/ requests[r].late
      \/ Live(requests[r].at) /\ (overlapped \/ entry = requests[r].at)

\* Unless a session was started while another was being stopped, the one at
\* work is the one the map names: none is left running that nobody can stop.
NoneLeaks ==
  ~overlapped => \A c \in Sessions : Live(c) => entry = c

=============================================================================
