------------------------------ MODULE CommandLog ------------------------------
(***************************************************************************)
(* What the orchestration engine promises its clients (the comment of      *)
(* Services/OrchestrationEngine.ts: "Dispatch is serialized through an     *)
(* internal queue and deduplicated via command receipts").  A command is   *)
(* decided at most once and at one moment, on what the whole log amounts   *)
(* to.  Accepted, all its events enter the log together; refused, none     *)
(* ever does.  No queue, transaction, receipt lookup, model or crash.      *)
(*                                                                         *)
(* How a command is decided and what its events amount to are parameters:  *)
(* the promise is about any decider and any projection.                    *)
(***************************************************************************)
EXTENDS Sequences

CONSTANTS
  CommandIds,
  EmptyView,
  Decisions(_, _),  \* the event sequences a command may be decided into on a view
  Replay(_, _)      \* the view that a sequence of events leads to from a view

VARIABLES
  log,     \* the events so far
  view,    \* what they amount to
  outcome  \* of each command

vars == <<log, view, outcome>>

Init ==
  /\ log = <<>>
  /\ view = EmptyView
  /\ outcome = [c \in CommandIds |-> "none"]

Accept(c) ==
  /\ outcome[c] = "none"
  /\ \E events \in Decisions(view, c) :
       /\ log' = log \o events
       /\ view' = Replay(view, events)
  /\ outcome' = [outcome EXCEPT ![c] = "accepted"]

Refuse(c) ==
  /\ outcome[c] = "none"
  /\ Decisions(view, c) = {}
  /\ outcome' = [outcome EXCEPT ![c] = "rejected"]
  /\ UNCHANGED <<log, view>>

Next == \E c \in CommandIds : Accept(c) \/ Refuse(c)

Spec == Init /\ [][Next]_vars
=============================================================================
