---------------------------- MODULE RuntimeEvents ----------------------------
(***************************************************************************)
(* The event vocabulary of one Session Journal: redpanda/runtime/events.py *)
(* and the parts of redpanda/runtime/model.py a Step commits.  An event's  *)
(* identity is its position in the log (the code draws a random event id   *)
(* and a sequence number; both are unique within the Session, and a second *)
(* write of the same id changes nothing).                                  *)
(***************************************************************************)
EXTENDS Integers, Sequences

CONSTANTS
  Facts,              \* delivery identities of external facts (source, delivery id)
  QuietFacts,         \* those of domain facts that do not request a decision
  Commands,           \* command ids a Step may issue
  NeedsAuthorization, \* commands frozen with requires_authorization
  NoDecision,         \* commands frozen with decision_on_outcome = False
  Results,            \* the outcomes an Attempt may end with
  FrameData,          \* (cursor, basis state version, observed position) of a DecisionFrame
  MaxEvents           \* bound on the length of the log

ASSUME FactAssumption == QuietFacts \subseteq Facts
ASSUME CommandAssumption ==
  /\ NeedsAuthorization \subseteq Commands
  /\ NoDecision \subseteq Commands
ASSUME BoundAssumption == MaxEvents \in Nat

Positions == 1..MaxEvents

\* "no event": the NULL of the Journal's tables.
None == 0

NoCommand == "no command"

ASSUME NoCommandAssumption == NoCommand \notin Commands

\* UserMessageReceived, or DomainFactCommitted, with its delivery identity.
FactEvents == [kind : {"fact"}, delivery : Facts]

\* StepClaimRequest: what a Step claim and the StepCommitted it leads to are
\* both about.  The Journal only compares the frame.
Requests == [trigger : Positions, frame : FrameData]

StepEvents ==
  [kind : {"step"}, request : Requests, commands : SUBSET Commands]

GrantEvents == [kind : {"grant"}, command : Commands, cause : Positions]

RejectEvents == [kind : {"reject"}, command : Commands, cause : Positions]

\* DispatchAttemptStarted; the Attempt is known by the position of this event.
AttemptEvents ==
  [kind : {"attempt"}, command : Commands, number : Nat, cause : Positions]

OutcomeEvents ==
  [kind : {"outcome"}, command : Commands, attempt : Positions, result : Results]

CancelEvents == [kind : {"cancel"}, trigger : Positions]

\* StepContinuationCancelled
StopEvents == [kind : {"stop"}, step : Positions]

Events ==
  FactEvents \cup StepEvents \cup GrantEvents \cup RejectEvents
    \cup AttemptEvents \cup OutcomeEvents \cup CancelEvents \cup StopEvents

\* The positions of the events of one kind.
Of(log, kind) == {i \in DOMAIN log : log[i].kind = kind}

\* An arrival from outside that may start a decision.
IsExternalDecisionFact(log, i) ==
  log[i].kind = "fact" /\ log[i].delivery \notin QuietFacts

==============================================================================
