--------------------------- MODULE StateProjector ---------------------------
(***************************************************************************)
(* redpanda/runtime/state.py: the deterministic reduction of a Session's   *)
(* log to what the Runtime does next.  project reads the log twice.  The   *)
(* operational view is every event in log order.  The decision view        *)
(* follows the decisions: it walks the arrivals, and at each one that was  *)
(* consumed applies the step or cancellation that consumed it, so that it  *)
(* rebuilds the frame each step was decided in and compares the two.  A    *)
(* ValueError or KeyError anywhere is `raised`: there is no projection.    *)
(***************************************************************************)
EXTENDS RuntimeEvents, FiniteSets, SequencesExt

\* A frame as it is frozen into a Step: decision_cursor, basis_state_version
\* (the hash of the list of visible event ids; here the list) and
\* observed_journal_position.
Frames == [cursor : Nat, basis : Seq(Positions), observed : 0..MaxEvents]

-------------------------------------------------------------------------------
\* _StateBuilder: command states and the events applied so far, in order.
\* A command's phase is PENDING, UNKNOWN or TERMINAL as its attempt and its
\* outcome are or are not there; it never has a second attempt.

UnissuedCommand ==
  [issued |-> None, eligible |-> None, rejected |-> None, attempt |-> None, outcome |-> None]

EmptyView ==
  [commands |-> [c \in Commands |-> UnissuedCommand], visible |-> <<>>, raised |-> FALSE]

Known(state) == state.issued # None
Pending(state) == Known(state) /\ state.attempt = None
Terminal(state) == state.outcome # None
Unverdicted(state) == Pending(state) /\ state.eligible = None /\ state.rejected = None

Shown(view, i) == \E n \in DOMAIN view.visible : view.visible[n] = i

Raise(view) == [view EXCEPT !.raised = TRUE]

Show(view, i) == [view EXCEPT !.visible = Append(@, i)]

\* What apply_regular requires of an event about a command in this state.
Applicable(e, state) ==
  CASE e.kind \in {"grant", "reject"} -> Unverdicted(state) /\ e.cause = state.issued
    [] e.kind = "attempt" ->
         Pending(state) /\ e.cause = state.eligible /\ e.number = 1
    [] e.kind = "outcome" ->
         Known(state) /\ state.attempt = e.attempt /\ ~Terminal(state)

\* Mutant: an attempt leaves its command eligible.
AppliedKeepingEligible(e, i, state) ==
  CASE e.kind = "grant"   -> [state EXCEPT !.eligible = i]
    [] e.kind = "reject"  -> [state EXCEPT !.rejected = i]
    [] e.kind = "attempt" -> [state EXCEPT !.attempt = i]
    [] e.kind = "outcome" -> [state EXCEPT !.outcome = i, !.eligible = None]

\* The command state it leaves.
Applied(e, i, state) ==
  CASE e.kind = "grant"   -> [state EXCEPT !.eligible = i]
    [] e.kind = "reject"  -> [state EXCEPT !.rejected = i]
    [] e.kind = "attempt" -> [state EXCEPT !.attempt = i, !.eligible = None]
    [] e.kind = "outcome" -> [state EXCEPT !.outcome = i, !.eligible = None]

AboutCommand(e) == e.kind \in {"grant", "reject", "attempt", "outcome"}

\* apply_regular
ApplyRegular(view, log, i) ==
  LET e == log[i] IN
  CASE ~AboutCommand(e) -> Show(view, i)
    [] AboutCommand(e) /\ Applicable(e, view.commands[e.command]) ->
         Show([view EXCEPT !.commands[e.command] = Applied(e, i, @)], i)
    [] OTHER -> Raise(view)

Issued(c, i) ==
  [UnissuedCommand EXCEPT
    !.issued = i, !.eligible = IF c \in NeedsAuthorization THEN None ELSE i]

\* apply_step
ApplyStep(view, log, i) ==
  IF \E c \in log[i].commands : Known(view.commands[c])
  THEN Raise(view)
  ELSE Show([view EXCEPT !.commands =
               [c \in Commands |-> IF c \in log[i].commands THEN Issued(c, i) ELSE @[c]]], i)

ApplyEvent(view, log, i) ==
  CASE view.raised -> view
    [] ~view.raised /\ log[i].kind = "step" -> ApplyStep(view, log, i)
    [] OTHER -> ApplyRegular(view, log, i)

\* The view of every event, in log order.
Operational(log) ==
  LET Apply(view, i) == ApplyEvent(view, log, i)
  IN  FoldLeftDomain(Apply, EmptyView, log)

-------------------------------------------------------------------------------
\* The indexes over the log, and when they raise.

StepsFor(log, t) == {s \in Of(log, "step") : log[s].request.trigger = t}

CancelsFor(log, t) == {k \in Of(log, "cancel") : log[k].trigger = t}

StopsFor(log, s) == {k \in Of(log, "stop") : log[k].step = s}

\* _validate_session, _index_*: targets precede what names them, and no trigger
\* is consumed and no continuation stopped twice.
Indexable(log) ==
  /\ \A s \in Of(log, "step") : log[s].request.trigger < s
  /\ \A k \in Of(log, "cancel") : log[k].trigger < k
  /\ \A k \in Of(log, "stop") : log[k].step < k /\ log[log[k].step].kind = "step"
  /\ \A i \in DOMAIN log :
       /\ Cardinality(StepsFor(log, i)) + Cardinality(CancelsFor(log, i)) <= 1
       /\ Cardinality(StopsFor(log, i)) <= 1

\* issuing_observed: how much of the log a Step's decision had seen.
ObservedBy(log, s) == log[s].request.frame.observed

-------------------------------------------------------------------------------
\* Does this arrival start a decision?

\* Mutant: every outcome decides for itself.
GroupAlwaysClosed(view, c) == TRUE

\* _parallel_decision_group_closed: of the commands one Step issued, all those
\* whose outcome matters to the model have one.
GroupClosed(view, c) ==
  \A sibling \in Commands \ NoDecision :
    view.commands[sibling].issued = view.commands[c].issued
      => Terminal(view.commands[sibling])

\* Mutant: a stopped continuation still decides.
ContinuationAlwaysOpen(log, s) == TRUE

ContinuationOpen(log, s) == StopsFor(log, s) = {}

\* Mutant: an outcome is superseded by nothing.
NeverSuperseded(log, seen) == FALSE

\* A later external fact takes over the decision of every older result.
Superseded(log, seen) ==
  \E i \in DOMAIN log : i > seen /\ IsExternalDecisionFact(log, i)

\* _requires_decision
RequiresDecision(view, log, i) ==
  LET e == log[i]
      c == e.command
      issued == view.commands[c].issued
  IN  \/ IsExternalDecisionFact(log, i)
      \/ e.kind = "reject"
      \/ /\ e.kind = "outcome"
         /\ view.commands[c].outcome = i
         /\ c \notin NoDecision
         /\ ContinuationOpen(log, issued)
         /\ GroupClosed(view, c)
         /\ ~Superseded(log, ObservedBy(log, issued))

\* Mutant: running commands are not waited for.
NothingInFlight(operational, log, m) == FALSE

\* _blocked_by_in_flight: an attempt is still out that a Step decided before
\* the external fact m arrived had asked for.
BlockedByInFlight(operational, log, m) ==
  \E c \in Commands :
    LET state == operational.commands[c] IN
    /\ state.attempt # None
    /\ ~Terminal(state)
    /\ ObservedBy(log, state.issued) < m

\* _is_waited_follow_up
IsWaitedFollowUp(view, e) ==
  e.kind \in {"attempt", "outcome"} /\ Known(view.commands[e.command])

\* _waited_batch_complete
WaitedBatchComplete(view, operational) ==
  \A c \in Commands :
    Known(view.commands[c]) /\ operational.commands[c].attempt # None
      => Terminal(view.commands[c])

\* Mutant: the frame of an external fact shows no later result.
WithoutWaitedFollowUps(view, log, t, operational, until) == view

IncludeFollowUp(wait, log, i, t, operational, until) ==
  IF \/ wait.complete \/ wait.view.raised
     \/ i \notin t + 1..until
     \/ Shown(wait.view, i)
     \/ ~IsWaitedFollowUp(wait.view, log[i])
  THEN wait
  ELSE LET shown == ApplyRegular(wait.view, log, i)
       IN  [view |-> shown, complete |-> WaitedBatchComplete(shown, operational)]

\* _include_waited_follow_up_events: the frame of an external fact also shows
\* the attempts and outcomes recorded after it of the commands the view knows,
\* until none of those is out.
WithWaitedFollowUps(view, log, t, operational, until) ==
  LET Include(wait, i) == IncludeFollowUp(wait, log, i, t, operational, until)
  IN  FoldLeftDomain(Include, [view |-> view, complete |-> FALSE], log).view

\* The view a decision on t is made with: follow-ups are for external facts.
DecisionView(view, log, t, operational, until) ==
  IF IsExternalDecisionFact(log, t)
  THEN WithWaitedFollowUps(view, log, t, operational, until)
  ELSE view

-------------------------------------------------------------------------------
\* project

\* The cancellation k of the arrival just applied.
ApplyCancellation(walk, log, k) ==
  [walk EXCEPT !.view = ApplyRegular(@, log, k),
               !.cursor = @ + 1,
               !.applied = @ \cup {k}]

\* Mutant: the replay shows the step what was recorded after it had looked.
ShownUntilNow(log, frame) == Len(log)

\* How far follow-ups are shown when a committed step is replayed.
ShownUntil(log, frame) == frame.observed

\* The frame step s was frozen in is the one the walk arrived at.
SameFrame(walk, view, frame, s) ==
  /\ ~view.raised
  /\ frame.cursor = walk.cursor + 1
  /\ \A n \in DOMAIN view.visible : view.visible[n] <= frame.observed
  /\ frame.observed < s
  /\ frame.basis = view.visible

Decided(walk, view, log, s) ==
  [walk EXCEPT !.view = IF SameFrame(walk, view, log[s].request.frame, s)
                        THEN ApplyStep(view, log, s)
                        ELSE Raise(view),
               !.cursor = @ + 1,
               !.applied = @ \cup {s}]

\* The step s that consumed arrival t, decided in view of what it had observed.
ApplyDecision(walk, log, t, s, operational) ==
  LET until == ShownUntil(log, log[s].request.frame) IN
  Decided(walk, DecisionView(walk.view, log, t, operational, until), log, s)

\* Arrival t was not consumed: it is skipped, waits, or is the next trigger.
ConsiderTrigger(walk, log, t, operational) ==
  CASE ~RequiresDecision(walk.view, log, t) -> walk
    [] /\ RequiresDecision(walk.view, log, t)
       /\ IsExternalDecisionFact(log, t)
       /\ BlockedByInFlight(operational, log, t) -> [walk EXCEPT !.halted = TRUE]
    [] OTHER ->
         [walk EXCEPT
           !.halted = TRUE,
           !.next = t,
           !.view = DecisionView(@, log, t, operational, Len(log))]

\* What arrival i, just applied, leads to.
Arrive(walk, log, i, operational) ==
  CASE walk.view.raised -> walk
    [] ~walk.view.raised /\ CancelsFor(log, i) # {} ->
         ApplyCancellation(walk, log, CHOOSE k \in CancelsFor(log, i) : TRUE)
    [] ~walk.view.raised /\ CancelsFor(log, i) = {} /\ StepsFor(log, i) # {} ->
         ApplyDecision(walk, log, i, CHOOSE s \in StepsFor(log, i) : TRUE, operational)
    [] OTHER -> ConsiderTrigger(walk, log, i, operational)

NewWalk ==
  [view |-> EmptyView, cursor |-> 0, applied |-> {}, next |-> None, halted |-> FALSE]

WalkOn(walk, log, i, operational) ==
  IF \/ walk.halted \/ walk.view.raised
     \/ log[i].kind = "step"
     \/ Shown(walk.view, i)
  THEN walk
  ELSE Arrive([walk EXCEPT !.view = ApplyRegular(@, log, i)], log, i, operational)

DecisionWalk(log, operational) ==
  LET Walk(walk, i) == WalkOn(walk, log, i, operational)
  IN  FoldLeftDomain(Walk, NewWalk, log)

\* CanonicalState and the next DecisionFrame, as far as the Runtime uses them.
ProjectionOf(log, operational, walk) ==
  [raised   |-> \/ ~Indexable(log)
                \/ operational.raised
                \/ walk.view.raised
                \/ ~(Of(log, "step") \cup Of(log, "cancel") \subseteq walk.applied),
   next     |-> walk.next,
   frame    |-> [cursor |-> walk.cursor + 1, basis |-> walk.view.visible,
                 observed |-> Len(log)],
   commands |-> operational.commands]

Project(log, operational) == ProjectionOf(log, operational, DecisionWalk(log, operational))

Projection(log) == Project(log, Operational(log))

\* The commands waiting_for names; without any, and without a next decision,
\* the Session waits for an external fact.
WaitingCommands(p) ==
  {c \in Commands : /\ Known(p.commands[c])
                    /\ ~Terminal(p.commands[c])
                    /\ p.commands[c].rejected = None}

WaitsForFactOnly(p) == p.next = None /\ WaitingCommands(p) = {}

===============================================================================
