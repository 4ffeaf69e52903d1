-------------------------- MODULE ClaudeSessionProofs --------------------------
(***************************************************************************)
(* The invariants of ClaudeSession, for any number of sessions, prompts,   *)
(* background turns and requests.  Each is inductive with the part of      *)
(* SessionInv that it needs: what a call that waits in its middle may find *)
(* when it goes on.                                                        *)
(***************************************************************************)
EXTENDS ClaudeSession, TLAPS

\* A call of sendTurn that waits belongs to a session, and a turn that the
\* session has got meanwhile began in a race.
SendsWait ==
  \A t \in Prompts :
    sends[t].pc \in {"waiting", "building"} =>
      /\ sends[t].at \in Sessions
      /\ stage[sends[t].at] \in {"live", "stopping", "closed"}
      /\ sends[t].pc = "waiting" /\ Live(sends[t].at) /\ turn[sends[t].at] # NoTurn
           => turn[sends[t].at] \in raced

\* While a session is being stopped none is at work, unless one was started
\* meanwhile.
StopsAlone ==
  ~overlapped => \A c, d \in Sessions : stage[c] = "stopping" => ~Live(d)

\* An approval that waits was asked of a session at work, or too late.
ApprovalsAreLive ==
  \A r \in Requests :
    requests[r].state = "pending" /\ requests[r].kind = "approval" =>
      requests[r].late \/ (requests[r].at \in Sessions /\ Live(requests[r].at))

USE DEF NoSession, NoTurn, Stop

-----------------------------------------------------------------------------
\* The type invariant, with what it says of the bounds.
LEMMA Ranges ==
  /\ NoSession \notin Sessions /\ NoTurn \notin Turns
  /\ Prompts \subseteq Turns /\ Background \subseteq Turns /\ Prompts \cap Background = {}
BY ClaudeAssumption DEF Sessions, Turns, Prompts, Background

\* Cancelling requests keeps what they are.
LEMMA Cancelling ==
  ASSUME requests \in RequestStates, NEW c PROVE Cancelled(c) \in RequestStates
BY DEF Cancelled, RequestStates

\* Every variable keeps its type.
THEOREM TypeCorrect == Spec => []TypeOK
<1>1. Init => TypeOK
  <2> SUFFICES ASSUME Init PROVE TypeOK
    OBVIOUS
  <2>1. sends \in SendStates
    BY DEF Init, NotSent, SendStates
  <2>2. requests \in RequestStates
    BY DEF Init, NotAsked, RequestStates
  <2>3. QED
    BY <2>1, <2>2 DEF Init, TypeOK
<1>2. TypeOK /\ [Next]_vars => TypeOK'
  <2> SUFFICES ASSUME TypeOK, [Next]_vars PROVE TypeOK'
    OBVIOUS
  <2> USE Ranges DEF TypeOK, turnEvents
  <2>1. ASSUME NEW k \in Sessions, Start(k) PROVE TypeOK'
    BY <2>1 DEF Start, Enter
  <2>2. ASSUME NEW k \in Sessions, Replace(k) PROVE TypeOK'
    BY <2>2, Cancelling DEF Replace, HasSession, BeginStop, CompleteTurn
  <2>3. ASSUME NEW k \in Sessions, NEW c \in Sessions, Replaced(k, c) PROVE TypeOK'
    BY <2>3 DEF Replaced, Enter
  <2>4. CASE StopSession
    BY <2>4, Cancelling DEF StopSession, HasSession, BeginStop, CompleteTurn
  <2>5. ASSUME NEW c \in Sessions, Stopped(c) \/ StreamEnds(c) PROVE TypeOK'
    BY <2>5, Cancelling DEF Stopped, StreamEnds, BeginStop, CompleteTurn
  <2>6. ASSUME NEW t \in Prompts, SendTurn(t) PROVE TypeOK'
    <3>1. sends' \in SendStates
      BY <2>6 DEF SendTurn, SendStates
    <3>2. QED
      BY <2>6, <3>1 DEF SendTurn, HasSession, CompleteTurn
  <2>7. ASSUME NEW t \in Prompts, TurnStarts(t) PROVE TypeOK'
    <3>1. sends' \in SendStates
      BY <2>7 DEF TurnStarts, SendStates
    <3>2. QED
      BY <2>7, <3>1 DEF TurnStarts, BeginTurn
  <2>8. ASSUME NEW t \in Prompts, PromptOffered(t) \/ SendFails(t) PROVE TypeOK'
    <3>1. sends' \in SendStates
      BY <2>8 DEF PromptOffered, SendFails, SendStates
    <3>2. QED
      BY <2>8, <3>1 DEF PromptOffered, SendFails
  <2>9. ASSUME NEW c \in Sessions, NEW t \in Background, AssistantMessage(c, t) PROVE TypeOK'
    BY <2>9 DEF AssistantMessage, BeginTurn
  <2>10. ASSUME NEW c \in Sessions, Result(c) PROVE TypeOK'
    BY <2>10 DEF Result, CompleteTurn
  <2>11. ASSUME NEW r \in Requests, NEW c \in Sessions,
                NEW kind \in {"approval", "question"}, Ask(r, c, kind) PROVE TypeOK'
    <3>1. Live(c) \in BOOLEAN
      BY DEF Live
    <3>2. requests' \in RequestStates
      BY <2>11, <3>1 DEF Ask, RequestStates
    <3>3. QED
      BY <2>11, <3>2 DEF Ask
  <2>12. ASSUME NEW r \in Requests, Respond(r) \/ Abort(r) \/ Resolve(r) PROVE TypeOK'
    <3>1. requests' \in RequestStates
      BY <2>12 DEF Respond, Abort, Decide, Resolve, RequestStates
    <3>2. QED
      BY <2>12, <3>1 DEF Respond, Abort, Decide, Resolve
  <2>13. CASE UNCHANGED vars
    BY <2>13 DEF vars
  <2>14. QED
    BY <2>1, <2>2, <2>3, <2>4, <2>5, <2>6, <2>7, <2>8, <2>9, <2>10, <2>11, <2>12, <2>13 DEF Next
<1>3. QED
  BY <1>1, <1>2, PTL DEF Spec

-----------------------------------------------------------------------------
\* No turn is lost: TurnsEnd holds for all bounds.  What makes it inductive is
\* SendsWait: the turn that a waiting sendTurn overwrites is one of those that the
\* property excepts.
THEOREM TurnsAreEnded == Spec => []TurnsEnd
<1>1. Init => SendsWait /\ TurnsEnd
  BY DEF Init, SendsWait, TurnsEnd, NotSent
<1>2. TypeOK /\ SendsWait /\ TurnsEnd /\ [Next]_vars => SendsWait' /\ TurnsEnd'
  <2> SUFFICES ASSUME TypeOK, SendsWait, TurnsEnd, [Next]_vars PROVE SendsWait' /\ TurnsEnd'
    OBVIOUS
  <2> USE Ranges DEF TypeOK, SendStates, turnEvents, SendsWait, TurnsEnd, Live
  <2>1. ASSUME NEW k \in Sessions, Start(k) PROVE SendsWait' /\ TurnsEnd'
    <3>1. SendsWait'
      BY <2>1 DEF Start, MayStart, Enter
    <3>2. TurnsEnd'
      BY <2>1 DEF Start, MayStart, Enter
    <3>3. QED  BY <3>1, <3>2
  <2>2. ASSUME NEW k \in Sessions, Replace(k) PROVE SendsWait' /\ TurnsEnd'
    <3>1. SendsWait'
      BY <2>2 DEF Replace, MayStart, HasSession, BeginStop, CompleteTurn
    <3>2. TurnsEnd'
      BY <2>2 DEF Replace, MayStart, HasSession, BeginStop, CompleteTurn
    <3>3. QED  BY <3>1, <3>2
  <2>3. ASSUME NEW k \in Sessions, NEW c \in Sessions, Replaced(k, c) PROVE SendsWait' /\ TurnsEnd'
    <3>1. SendsWait'
      BY <2>3 DEF Replaced, Enter
    <3>2. TurnsEnd'
      BY <2>3 DEF Replaced, Enter
    <3>3. QED  BY <3>1, <3>2
  <2>4. CASE StopSession
    <3>1. SendsWait'
      BY <2>4 DEF StopSession, HasSession, BeginStop, CompleteTurn
    <3>2. TurnsEnd'
      BY <2>4 DEF StopSession, HasSession, BeginStop, CompleteTurn
    <3>3. QED  BY <3>1, <3>2
  <2>5. ASSUME NEW c \in Sessions, Stopped(c) PROVE SendsWait' /\ TurnsEnd'
    <3>1. SendsWait'
      BY <2>5 DEF Stopped
    <3>2. TurnsEnd'
      BY <2>5 DEF Stopped
    <3>3. QED  BY <3>1, <3>2
  <2>6. ASSUME NEW c \in Sessions, StreamEnds(c) PROVE SendsWait' /\ TurnsEnd'
    <3>1. SendsWait'
      BY <2>6 DEF StreamEnds, BeginStop, CompleteTurn
    <3>2. TurnsEnd'
      BY <2>6 DEF StreamEnds, BeginStop, CompleteTurn
    <3>3. QED  BY <3>1, <3>2
  <2>7. ASSUME NEW t \in Prompts, SendTurn(t) PROVE SendsWait' /\ TurnsEnd'
    <3>1. SendsWait'
      BY <2>7 DEF SendTurn, HasSession, CompleteTurn
    <3>2. TurnsEnd'
      BY <2>7 DEF SendTurn, HasSession, CompleteTurn
    <3>3. QED  BY <3>1, <3>2
  <2>8. ASSUME NEW t \in Prompts, TurnStarts(t) PROVE SendsWait' /\ TurnsEnd'
    <3>1. SendsWait'
      BY <2>8 DEF TurnStarts, BeginTurn, Waiting
    <3>2. TurnsEnd'
      BY <2>8 DEF TurnStarts, BeginTurn, Waiting
    <3>3. QED  BY <3>1, <3>2
  <2>9. ASSUME NEW t \in Prompts, PromptOffered(t) \/ SendFails(t) PROVE SendsWait' /\ TurnsEnd'
    <3>1. SendsWait'
      BY <2>9 DEF PromptOffered, SendFails, MaySend
    <3>2. TurnsEnd'
      BY <2>9 DEF PromptOffered, SendFails, MaySend
    <3>3. QED  BY <3>1, <3>2
  <2>10. ASSUME NEW c \in Sessions, NEW t \in Background, AssistantMessage(c, t) PROVE SendsWait' /\ TurnsEnd'
    <3>1. SendsWait'
      BY <2>10 DEF AssistantMessage, BeginTurn, Waiting
    <3>2. TurnsEnd'
      BY <2>10 DEF AssistantMessage, BeginTurn, Waiting
    <3>3. QED  BY <3>1, <3>2
  <2>11. ASSUME NEW c \in Sessions, Result(c) PROVE SendsWait' /\ TurnsEnd'
    <3>1. SendsWait'
      BY <2>11 DEF Result, CompleteTurn
    <3>2. TurnsEnd'
      BY <2>11 DEF Result, CompleteTurn
    <3>3. QED  BY <3>1, <3>2
  <2>12. ASSUME NEW r \in Requests, NEW c \in Sessions,
                NEW kind \in {"approval", "question"}, Ask(r, c, kind) PROVE SendsWait' /\ TurnsEnd'
    <3>1. SendsWait'
      BY <2>12 DEF Ask
    <3>2. TurnsEnd'
      BY <2>12 DEF Ask
    <3>3. QED  BY <3>1, <3>2
  <2>13. ASSUME NEW r \in Requests, Respond(r) \/ Abort(r) \/ Resolve(r) PROVE SendsWait' /\ TurnsEnd'
    <3>1. SendsWait'
      BY <2>13 DEF Respond, Abort, Decide, Resolve
    <3>2. TurnsEnd'
      BY <2>13 DEF Respond, Abort, Decide, Resolve
    <3>3. QED  BY <3>1, <3>2
  <2>14. CASE UNCHANGED vars
    <3>1. SendsWait'
      BY <2>14 DEF vars
    <3>2. TurnsEnd'
      BY <2>14 DEF vars
    <3>3. QED  BY <3>1, <3>2
  <2>15. QED
    BY <2>1, <2>2, <2>3, <2>4, <2>5, <2>6, <2>7, <2>8, <2>9, <2>10, <2>11, <2>12, <2>13, <2>14 DEF Next
<1>3. QED
  BY TypeCorrect, <1>1, <1>2, PTL DEF Spec

-----------------------------------------------------------------------------
\* No session is left running that the map does not name, unless starts and stops
\* have overlapped: NoneLeaks holds for all bounds, with StopsAlone.
THEOREM NothingLeaks == Spec => []NoneLeaks
<1>1. Init => StopsAlone /\ NoneLeaks
  BY DEF Init, StopsAlone, NoneLeaks, Live
<1>2. TypeOK /\ StopsAlone /\ NoneLeaks /\ [Next]_vars => StopsAlone' /\ NoneLeaks'
  <2> SUFFICES ASSUME TypeOK, StopsAlone, NoneLeaks, [Next]_vars PROVE StopsAlone' /\ NoneLeaks'
    OBVIOUS
  <2> USE Ranges DEF TypeOK, StopsAlone, NoneLeaks, Live, Stopping
  <2>1. ASSUME NEW k \in Sessions, Start(k) PROVE StopsAlone' /\ NoneLeaks'
    <3>1. CASE stage' = [stage EXCEPT ![k] = "failed"] /\ UNCHANGED <<entry, overlapped>>
      BY <2>1, <3>1 DEF Start, MayStart
    <3>2. CASE stage' = [stage EXCEPT ![k] = "live"] /\ Enter(k, Stopping)
      <4>1. ~overlapped => \A c \in Sessions : stage[c] # "live"
        BY <2>1 DEF Start, HasSession
      <4>2. ~overlapped' => \A c \in Sessions : stage'[c] # "stopping" /\ ~overlapped
        BY <3>2 DEF Enter
      <4>3. QED
        BY <3>2, <4>1, <4>2 DEF Enter
    <3>3. QED
      BY <2>1, <3>1, <3>2 DEF Start
  <2>2. ASSUME NEW k \in Sessions, Replace(k) PROVE StopsAlone' /\ NoneLeaks'
    BY <2>2 DEF Replace, MayStart, HasSession, BeginStop, CompleteTurn
  <2>3. ASSUME NEW k \in Sessions, NEW c \in Sessions, Replaced(k, c) PROVE StopsAlone' /\ NoneLeaks'
    <3>1. ~overlapped => \A d \in Sessions : stage[d] # "live"
      BY <2>3 DEF Replaced
    <3>2. CASE stage' = [stage EXCEPT ![k] = "failed", ![c] = "closed"]
               /\ entry' = NoSession /\ UNCHANGED overlapped
      BY <3>1, <3>2
    <3>3. CASE stage' = [stage EXCEPT ![k] = "live", ![c] = "closed"] /\ Enter(k, Stopping \ {c})
      <4>1. ~overlapped' => ~overlapped /\ \A d \in Sessions : stage'[d] # "stopping"
        BY <3>3 DEF Enter
      <4>2. QED
        BY <3>1, <3>3, <4>1 DEF Enter
    <3>4. QED
      BY <2>3, <3>2, <3>3 DEF Replaced
  <2>4. CASE StopSession
    BY <2>4 DEF StopSession, HasSession, BeginStop, CompleteTurn
  <2>5. ASSUME NEW c \in Sessions, Stopped(c) PROVE StopsAlone' /\ NoneLeaks'
    BY <2>5 DEF Stopped
  <2>6. ASSUME NEW c \in Sessions, StreamEnds(c) PROVE StopsAlone' /\ NoneLeaks'
    BY <2>6 DEF StreamEnds, BeginStop, CompleteTurn
  <2>7. ASSUME NEW t \in Prompts, SendTurn(t) PROVE StopsAlone' /\ NoneLeaks'
    BY <2>7 DEF SendTurn, HasSession, CompleteTurn
  <2>8. ASSUME NEW t \in Prompts, TurnStarts(t) PROVE StopsAlone' /\ NoneLeaks'
    BY <2>8 DEF TurnStarts, BeginTurn, Waiting
  <2>9. ASSUME NEW t \in Prompts, PromptOffered(t) \/ SendFails(t) PROVE StopsAlone' /\ NoneLeaks'
    BY <2>9 DEF PromptOffered, SendFails, MaySend
  <2>10. ASSUME NEW c \in Sessions, NEW t \in Background, AssistantMessage(c, t) PROVE StopsAlone' /\ NoneLeaks'
    BY <2>10 DEF AssistantMessage, BeginTurn, Waiting
  <2>11. ASSUME NEW c \in Sessions, Result(c) PROVE StopsAlone' /\ NoneLeaks'
    BY <2>11 DEF Result, CompleteTurn
  <2>12. ASSUME NEW r \in Requests, NEW c \in Sessions,
                NEW kind \in {"approval", "question"}, Ask(r, c, kind) PROVE StopsAlone' /\ NoneLeaks'
    BY <2>12 DEF Ask
  <2>13. ASSUME NEW r \in Requests, Respond(r) \/ Abort(r) \/ Resolve(r) PROVE StopsAlone' /\ NoneLeaks'
    BY <2>13 DEF Respond, Abort, Decide, Resolve
  <2>14. CASE UNCHANGED vars
    BY <2>14 DEF vars
  <2>15. QED
    BY <2>1, <2>2, <2>3, <2>4, <2>5, <2>6, <2>7, <2>8, <2>9, <2>10, <2>11, <2>12, <2>13, <2>14 DEF Next
<1>3. QED
  BY TypeCorrect, <1>1, <1>2, PTL DEF Spec

-----------------------------------------------------------------------------
\* An approval that waits can be answered: ApprovalsCanBeAnswered holds for all
\* bounds, since a stop cancels the approvals of the session it stops, and since a
\* session at work is the one that answers are routed to.
THEOREM ApprovalsAreAnswerable == Spec => []ApprovalsCanBeAnswered
<1>1. Init => ApprovalsAreLive
  BY DEF Init, ApprovalsAreLive, NotAsked
<1>2. TypeOK /\ ApprovalsAreLive /\ [Next]_vars => ApprovalsAreLive'
  <2> SUFFICES ASSUME TypeOK, ApprovalsAreLive, [Next]_vars PROVE ApprovalsAreLive'
    OBVIOUS
  <2> USE Ranges DEF TypeOK, RequestStates, ApprovalsAreLive, Live, Cancelled
  <2>1. ASSUME NEW k \in Sessions, Start(k) PROVE ApprovalsAreLive'
    BY <2>1 DEF Start, MayStart, Enter
  <2>2. ASSUME NEW k \in Sessions, Replace(k) PROVE ApprovalsAreLive'
    BY <2>2 DEF Replace, MayStart, HasSession, BeginStop, CompleteTurn
  <2>3. ASSUME NEW k \in Sessions, NEW c \in Sessions, Replaced(k, c) PROVE ApprovalsAreLive'
    BY <2>3 DEF Replaced, Enter
  <2>4. CASE StopSession
    BY <2>4 DEF StopSession, HasSession, BeginStop, CompleteTurn
  <2>5. ASSUME NEW c \in Sessions, Stopped(c) PROVE ApprovalsAreLive'
    BY <2>5 DEF Stopped
  <2>6. ASSUME NEW c \in Sessions, StreamEnds(c) PROVE ApprovalsAreLive'
    BY <2>6 DEF StreamEnds, BeginStop, CompleteTurn
  <2>7. ASSUME NEW t \in Prompts, SendTurn(t) PROVE ApprovalsAreLive'
    BY <2>7 DEF SendTurn, HasSession, CompleteTurn
  <2>8. ASSUME NEW t \in Prompts, TurnStarts(t) PROVE ApprovalsAreLive'
    BY <2>8 DEF TurnStarts, BeginTurn, Waiting
  <2>9. ASSUME NEW t \in Prompts, PromptOffered(t) \/ SendFails(t) PROVE ApprovalsAreLive'
    BY <2>9 DEF PromptOffered, SendFails, MaySend
  <2>10. ASSUME NEW c \in Sessions, NEW t \in Background, AssistantMessage(c, t) PROVE ApprovalsAreLive'
    BY <2>10 DEF AssistantMessage, BeginTurn, Waiting
  <2>11. ASSUME NEW c \in Sessions, Result(c) PROVE ApprovalsAreLive'
    BY <2>11 DEF Result, CompleteTurn
  <2>12. ASSUME NEW r \in Requests, NEW c \in Sessions,
                NEW kind \in {"approval", "question"}, Ask(r, c, kind) PROVE ApprovalsAreLive'
    BY <2>12 DEF Ask
  <2>13. ASSUME NEW r \in Requests, Respond(r) \/ Abort(r) \/ Resolve(r) PROVE ApprovalsAreLive'
    BY <2>13 DEF Respond, Abort, Decide, Resolve
  <2>14. CASE UNCHANGED vars
    BY <2>14 DEF vars
  <2>15. QED
    BY <2>1, <2>2, <2>3, <2>4, <2>5, <2>6, <2>7, <2>8, <2>9, <2>10, <2>11, <2>12, <2>13, <2>14 DEF Next
<1>3. ApprovalsAreLive /\ NoneLeaks => ApprovalsCanBeAnswered
  BY DEF ApprovalsAreLive, NoneLeaks, ApprovalsCanBeAnswered
<1>4. QED
  BY TypeCorrect, NothingLeaks, <1>1, <1>2, <1>3, PTL DEF Spec
================================================================================
