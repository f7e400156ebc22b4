---------------------------- MODULE AgentRuntime ----------------------------
(***************************************************************************)
(* One AgentRuntime over its Session's Journal: redpanda/runtime/          *)
(* runtime.py, step.py and dispatcher.py.  The coroutines run in one event *)
(* loop and interleave at every await, so an action is what a coroutine    *)
(* does between two awaits, or one Journal transaction: advance (one at a  *)
(* time, under its lock), cancel_turn, start_pending called by advance or  *)
(* by grant_command, one task per running Attempt, and the calls that      *)
(* receive facts and verdicts.  The Assistant calls advance and cancel_turn*)
(* whenever it likes.                                                      *)
(***************************************************************************)
EXTENDS SessionJournal, StateProjector

CONSTANTS
  MaxCancels, \* bound on the calls of cancel_turn
  MaxFaults   \* bound on restarts, failed decisions and handlers, missed commits

ASSUME RuntimeBoundAssumption == MaxCancels \in Nat /\ MaxFaults \in Nat

VARIABLES
  advancing,  \* the advance that holds the lock: where it is, its frame, its lease
  cancelling, \* cancel_turn: where it is and what it is about to cancel
  starting,   \* what each start_pending has read and not yet started
  grantOwes,  \* a grant was recorded and its start_pending has not read yet
  running,    \* Attempts that have a live task (Dispatcher._tasks)
  cancels,    \* calls of cancel_turn so far
  faults      \* faults so far

processVars == <<advancing, cancelling, starting, grantOwes, running>>

runtimeVars == <<journalVars, processVars, cancels, faults>>

Callers == {"advance", "grant"}

Starts == [command : Commands, cause : Positions]

NoRequest == [trigger |-> None, frame |-> [cursor |-> 0, basis |-> <<>>, observed |-> 0]]

\* lease: which of `leases` it was handed; it names the _ActiveDecision.
\* cancelRequested: of that _ActiveDecision.
IdleAdvance ==
  [pc |-> "idle", request |-> NoRequest, lease |-> 0, cancelRequested |-> FALSE]

IdleCancel == [pc |-> "idle", trigger |-> None, lease |-> 0, steps |-> {}]

RuntimeTypeOK ==
  /\ JournalTypeOK
  /\ advancing \in
       [pc : {"idle", "frozen", "claimed", "deciding", "committed", "dispatching"},
        request : Requests \cup {NoRequest}, lease : Nat, cancelRequested : BOOLEAN]
  /\ cancelling \in
       [pc : {"idle", "look", "active", "await", "read", "frame", "steps", "interrupt"},
        trigger : Positions \cup {None}, lease : Nat, steps : SUBSET Positions]
  /\ starting \in [Callers -> SUBSET Starts]
  /\ grantOwes \in BOOLEAN
  /\ running \in SUBSET Positions
  /\ cancels \in 0..MaxCancels
  /\ faults \in 0..MaxFaults

RuntimeInit ==
  /\ JournalInit
  /\ advancing = IdleAdvance
  /\ cancelling = IdleCancel
  /\ starting = [w \in Callers |-> {}]
  /\ grantOwes = FALSE
  /\ running = {}
  /\ cancels = 0
  /\ faults = 0

-------------------------------------------------------------------------------
\* Calls from outside.

\* receive_user_message, receive_domain_fact
Receive(d) ==
  /\ AcceptDelivery(d)
  /\ UNCHANGED <<processVars, cancels, faults>>

\* grant_command: start_pending follows in the same call.
GrantCommand(c) ==
  /\ Grant(c)
  /\ grantOwes' = TRUE
  /\ UNCHANGED <<advancing, cancelling, starting, running, cancels, faults>>

\* reject_command
RejectCommand(c) ==
  /\ Reject(c)
  /\ UNCHANGED <<processVars, cancels, faults>>

-------------------------------------------------------------------------------
\* advance

\* The lock is held until start_pending is through.
AdvanceIdle == advancing.pc = "idle" /\ starting["advance"] = {}

\* Mutant: advance returns instead.
ReturnWithStep == IdleAdvance

\* After the step, and when there is no step to take: start_pending.
GoOnToDispatch == [IdleAdvance EXCEPT !.pc = "dispatching"]

\* Snapshot and project; without a decision, go on to start_pending.
Freeze ==
  LET p == Projection(log) IN
  /\ AdvanceIdle
  /\ ~p.raised
  /\ advancing' =
       IF p.next = None
       THEN GoOnToDispatch
       ELSE [IdleAdvance EXCEPT
              !.pc = "frozen", !.request = [trigger |-> p.next, frame |-> p.frame]]
  /\ UNCHANGED <<journalVars, cancelling, starting, grantOwes, running, cancels, faults>>

\* Tokens are numbered as they are drawn; Tokens bounds the leases.
Claim ==
  /\ advancing.pc = "frozen"
  /\ Len(leases) + 1 \in Tokens
  /\ \E w \in Owners : AcquireStep(advancing.request, Len(leases) + 1, w)
  /\ advancing' = [advancing EXCEPT !.pc = "claimed", !.lease = Len(leases')]
  /\ UNCHANGED <<cancelling, starting, grantOwes, running, cancels, faults>>

\* acquire_step returned None.
ClaimRefused ==
  /\ advancing.pc = "frozen"
  /\ ~Claimable(advancing.request)
  /\ advancing' = IdleAdvance
  /\ UNCHANGED <<journalVars, cancelling, starting, grantOwes, running, cancels, faults>>

\* _active_decisions[session_id] = active
Activate ==
  /\ advancing.pc = "claimed"
  /\ advancing' = [advancing EXCEPT !.pc = "deciding"]
  /\ UNCHANGED <<journalVars, cancelling, starting, grantOwes, running, cancels, faults>>

MyLease == leases[advancing.lease].lease

\* StepRunner.commit: the model's answer, cs, is committed in one transaction.
Decide(cs) ==
  /\ advancing.pc = "deciding"
  /\ CommitStep(MyLease, cs)
  /\ advancing' = [advancing EXCEPT !.pc = "committed"]
  /\ UNCHANGED <<cancelling, starting, grantOwes, running, cancels, faults>>

\* LeaseLostError, from commit_step or from the heartbeat.
LoseLease ==
  /\ advancing.pc = "deciding"
  /\ ~Holds(MyLease)
  /\ ReleaseStep(MyLease)
  /\ advancing' = IdleAdvance
  /\ UNCHANGED <<cancelling, starting, grantOwes, running, cancels, faults>>

\* The heartbeat finds the row gone because the step has just been committed, and
\* is heard first: advance returns without start_pending.
MissCommit ==
  /\ advancing.pc = "committed"
  /\ faults < MaxFaults
  /\ ReleaseStep(MyLease)
  /\ advancing' = IdleAdvance
  /\ faults' = faults + 1
  /\ UNCHANGED <<cancelling, starting, grantOwes, running, cancels>>

\* cancel_requested was set before the operation was seen to be done: advance
\* returns, whether or not the step was committed meanwhile.
Withdraw ==
  /\ advancing.pc \in {"deciding", "committed"}
  /\ advancing.cancelRequested
  /\ advancing' = IdleAdvance
  /\ UNCHANGED <<journalVars, cancelling, starting, grantOwes, running, cancels, faults>>

\* decide raised: the claim is released and the failure goes to the caller.
FailDecision ==
  /\ advancing.pc = "deciding"
  /\ faults < MaxFaults
  /\ ReleaseStep(MyLease)
  /\ advancing' = IdleAdvance
  /\ faults' = faults + 1
  /\ UNCHANGED <<cancelling, starting, grantOwes, running, cancels>>

FinishDecision ==
  /\ advancing.pc = "committed"
  /\ advancing' = GoOnToDispatch
  /\ UNCHANGED <<journalVars, cancelling, starting, grantOwes, running, cancels, faults>>

-------------------------------------------------------------------------------
\* The Dispatcher.

RunningCommands == {attemptRows[a].command : a \in running}

\* What start_pending finds to start.
PendingStarts(p) ==
  {[command |-> c, cause |-> p.commands[c].eligible] :
     c \in {c \in Commands \ RunningCommands :
             /\ Pending(p.commands[c])
             /\ p.commands[c].eligible # None
             /\ p.commands[c].rejected = None}}

\* start_pending takes its snapshot; when there is no projection it raises.
ReadPending(caller) ==
  LET p == Projection(log) IN
  starting' = [starting EXCEPT ![caller] = IF p.raised THEN {} ELSE PendingStarts(p)]

AdvanceReadsPending ==
  /\ advancing.pc = "dispatching"
  /\ ReadPending("advance")
  /\ advancing' = IdleAdvance
  /\ UNCHANGED <<journalVars, cancelling, grantOwes, running, cancels, faults>>

GrantReadsPending ==
  /\ grantOwes
  /\ starting["grant"] = {}
  /\ ReadPending("grant")
  /\ grantOwes' = FALSE
  /\ UNCHANGED <<journalVars, advancing, cancelling, running, cancels, faults>>

\* One turn of start_pending's loop: start_attempt, then the task.
Start(caller, item) ==
  /\ item \in starting[caller]
  /\ StartAttempt(item.command, item.cause, 1)
  /\ running' = running \cup {NextPosition}
  /\ starting' = [starting EXCEPT ![caller] = @ \ {item}]
  /\ UNCHANGED <<advancing, cancelling, grantOwes, cancels, faults>>

\* start_attempt returned None: another start_pending was first.
StartRefused(caller, item) ==
  /\ item \in starting[caller]
  /\ ~Startable(item.command, item.cause, 1)
  /\ starting' = [starting EXCEPT ![caller] = @ \ {item}]
  /\ UNCHANGED <<journalVars, advancing, cancelling, grantOwes, running, cancels, faults>>

\* The task of an Attempt is through: it records its outcome, unless an
\* interrupt has, and ends.
FinishTask(a, result) ==
  /\ a \in running
  /\ RecordOutcome(a, result)
  /\ running' = running \ {a}
  /\ UNCHANGED <<advancing, cancelling, starting, grantOwes, cancels, faults>>

FinishEndedTask(a) ==
  /\ a \in running
  /\ ~Unended(a)
  /\ ReleaseAttempt(a)
  /\ running' = running \ {a}
  /\ UNCHANGED <<advancing, cancelling, starting, grantOwes, cancels, faults>>

\* The handler, or the attempt's heartbeat, raised: the outcome stays unknown.
FailTask(a) ==
  /\ a \in running
  /\ faults < MaxFaults
  /\ ReleaseAttempt(a)
  /\ running' = running \ {a}
  /\ faults' = faults + 1
  /\ UNCHANGED <<advancing, cancelling, starting, grantOwes, cancels>>

-------------------------------------------------------------------------------
\* cancel_turn: a loop that goes back to "look" until there is nothing to cancel.

CancelAt(pc) == [IdleCancel EXCEPT !.pc = pc]

BeginCancel ==
  /\ cancelling.pc = "idle"
  /\ cancels < MaxCancels
  /\ cancelling' = CancelAt("look")
  /\ cancels' = cancels + 1
  /\ UNCHANGED <<journalVars, advancing, starting, grantOwes, running, faults>>

\* The _ActiveDecision is registered until advance's finally clause.
Active == advancing.pc \in {"deciding", "committed"}

LookForActive ==
  /\ cancelling.pc = "look"
  /\ cancelling' =
       IF Active
       THEN [CancelAt("active") EXCEPT
              !.trigger = advancing.request.trigger, !.lease = advancing.lease]
       ELSE CancelAt("read")
  /\ UNCHANGED <<journalVars, advancing, starting, grantOwes, running, cancels, faults>>

Signalled(lease) ==
  IF Active /\ advancing.lease = lease
  THEN [advancing EXCEPT !.cancelRequested = TRUE]
  ELSE advancing

\* cancel_decision for the active decision, then its cancel_requested is set.
\* The trigger stays in cancelling exactly if the cancellation was recorded.
CancelActive ==
  /\ cancelling.pc = "active"
  /\ \/ /\ CancelDecision(cancelling.trigger)
        /\ cancelling' = [cancelling EXCEPT !.pc = "await"]
     \/ /\ ~Open(cancelling.trigger)
        /\ cancelling' = [cancelling EXCEPT !.pc = "await", !.trigger = None]
        /\ UNCHANGED journalVars
  /\ advancing' = Signalled(cancelling.lease)
  /\ UNCHANGED <<starting, grantOwes, running, cancels, faults>>

\* active.finished.wait()
AwaitFinished ==
  /\ cancelling.pc = "await"
  /\ ~(Active /\ advancing.lease = cancelling.lease)
  /\ cancelling' = CancelAt(IF cancelling.trigger = None THEN "look" ELSE "interrupt")
  /\ UNCHANGED <<journalVars, advancing, starting, grantOwes, running, cancels, faults>>

\* The steps whose continuation is open.
ContinuableSteps(p) ==
  {p.commands[c].issued : c \in WaitingCommands(p) \ NoDecision}

\* No decision is active: cancel the next one, else the continuations, else return.
ReadForCancel ==
  LET p == Projection(log)
      open == {s \in ContinuableSteps(p) : StopsFor(log, s) = {}}
  IN
  /\ cancelling.pc = "read"
  /\ cancelling' =
       CASE p.raised -> IdleCancel
         [] ~p.raised /\ p.next # None -> [CancelAt("frame") EXCEPT !.trigger = p.next]
         [] ~p.raised /\ p.next = None /\ open # {} ->
              [CancelAt("steps") EXCEPT !.steps = open]
         [] OTHER -> CancelAt("interrupt")
  /\ UNCHANGED <<journalVars, advancing, starting, grantOwes, running, cancels, faults>>

CancelFrame ==
  /\ cancelling.pc = "frame"
  /\ \/ /\ CancelDecision(cancelling.trigger)
        /\ cancelling' = CancelAt("interrupt")
     \/ /\ ~Open(cancelling.trigger)
        /\ cancelling' = CancelAt("look")
        /\ UNCHANGED journalVars
  /\ UNCHANGED <<advancing, starting, grantOwes, running, cancels, faults>>

\* Only cancel_turn stops a continuation, and it stops each step it read once.
CancelSteps(s) ==
  /\ cancelling.pc = "steps"
  /\ s \in cancelling.steps
  /\ CancelContinuation(s)
  /\ cancelling' = IF cancelling.steps = {s}
                   THEN CancelAt("look")
                   ELSE [cancelling EXCEPT !.steps = @ \ {s}]
  /\ UNCHANGED <<advancing, starting, grantOwes, running, cancels, faults>>

\* SessionScheduler.cancel_turn goes on to interrupt live commands and records
\* an outcome for each it stopped, unless the command has just ended.
Interrupt(a, result) ==
  /\ cancelling.pc = "interrupt"
  /\ a \in running
  /\ RecordOutcome(a, result)
  /\ UNCHANGED <<processVars, cancels, faults>>

EndCancel ==
  /\ cancelling.pc = "interrupt"
  /\ cancelling' = IdleCancel
  /\ UNCHANGED <<journalVars, advancing, starting, grantOwes, running, cancels, faults>>

-------------------------------------------------------------------------------
\* The process dies and another takes over: prepare_recovery lets the claim
\* expire; what was running is gone and its outcome stays unknown.
Restart ==
  /\ faults < MaxFaults
  /\ ExpireStep
  /\ advancing' = IdleAdvance
  /\ cancelling' = IdleCancel
  /\ starting' = [w \in Callers |-> {}]
  /\ grantOwes' = FALSE
  /\ running' = {}
  /\ faults' = faults + 1
  /\ UNCHANGED cancels

OutsideAction ==
  \/ \E d \in Facts : Receive(d)
  \/ \E c \in Commands : GrantCommand(c)
  \/ \E c \in Commands : RejectCommand(c)
  \/ Restart

AdvanceAction ==
  \/ Freeze
  \/ Claim
  \/ ClaimRefused
  \/ Activate
  \/ \E cs \in SUBSET Commands : Decide(cs)
  \/ LoseLease
  \/ MissCommit
  \/ Withdraw
  \/ FailDecision
  \/ FinishDecision
  \/ AdvanceReadsPending

DispatchAction ==
  \/ GrantReadsPending
  \/ \E caller \in Callers : \E item \in starting[caller] : Start(caller, item)
  \/ \E caller \in Callers : \E item \in starting[caller] : StartRefused(caller, item)
  \/ \E a \in running, result \in Results : FinishTask(a, result)
  \/ \E a \in running : FinishEndedTask(a)
  \/ \E a \in running : FailTask(a)

CancelAction ==
  \/ BeginCancel
  \/ LookForActive
  \/ CancelActive
  \/ AwaitFinished
  \/ ReadForCancel
  \/ CancelFrame
  \/ \E s \in Positions : CancelSteps(s)
  \/ \E a \in running, result \in Results : Interrupt(a, result)
  \/ EndCancel

RuntimeNext == OutsideAction \/ AdvanceAction \/ DispatchAction \/ CancelAction

RuntimeSpec == RuntimeInit /\ [][RuntimeNext]_runtimeVars

-------------------------------------------------------------------------------
\* Safety.

Steps == Of(log, "step")

BasisOf(s) == {log[s].request.frame.basis[n] : n \in DOMAIN log[s].request.frame.basis}

IsOutcomeOf(i, s) == log[i].kind = "outcome" /\ log[i].command \in log[s].commands

\* Steps whose trigger is the outcome of a command of step s.
Continuations(s) == {t \in Steps : IsOutcomeOf(log[t].request.trigger, s)}

\* Promise (docs, Runtime: "any historical cut can be replayed in full from the
\* ordered events"): every log the Runtime can write has a projection.
Replayable == ~Projection(log).raised

\* A decision that comes before external fact m issued a command, which was
\* granted after m arrived and attempted before m was decided: the frame of m
\* shows the attempt and not the grant.
LateGrant ==
  \E m, a \in DOMAIN log, s \in Steps :
    /\ IsExternalDecisionFact(log, m)
    /\ log[s].request.trigger < m
    /\ log[a].kind = "attempt"
    /\ log[a].command \in log[s].commands \cap NeedsAuthorization
    /\ log[a].cause > m
    /\ CancelsFor(log, m) = {}
    /\ \A t \in StepsFor(log, m) : ObservedBy(log, t) >= a

\* A decision was cancelled whose trigger a step, frozen without seeing the
\* cancellation, had already passed over.
StaleCancel ==
  \E k \in Of(log, "cancel"), s \in Steps :
    /\ log[k].trigger < log[s].request.trigger
    /\ ObservedBy(log, s) < k

\* Apart from those two, every log the Runtime writes has a projection, whatever
\* the interleaving of facts, decisions, cancellations, outcomes and restarts.
OnlyKnownReplayGaps == Replayable \/ LateGrant \/ StaleCancel

\* A step on an external fact waited for the running commands of earlier
\* decisions, and was shown their outcomes (_blocked_by_in_flight and
\* _include_waited_follow_up_events against each other).
FollowUpShowsResults ==
  \A s \in Steps, a \in Of(log, "attempt"), issuer \in Steps :
    LET m == log[s].request.trigger IN
    /\ IsExternalDecisionFact(log, m)
    /\ log[a].command \in log[issuer].commands
    /\ ObservedBy(log, issuer) < m
    /\ a <= ObservedBy(log, s)
    => \E o \in BasisOf(s) : log[o].kind = "outcome" /\ log[o].attempt = a

\* A later external fact takes the decision over from older results: no step is
\* triggered by a result when, in what that step had observed, such a fact had
\* arrived after the command was decided.
OldResultNeverRunsAlone ==
  \A s \in Steps : \A t \in Continuations(s) :
    \A m \in ObservedBy(log, s) + 1..ObservedBy(log, t) : ~IsExternalDecisionFact(log, m)

\* The parallel commands of one step lead to at most one further step, and that
\* one has seen every outcome of the group.
OneDecisionPerGroup ==
  \A s \in Steps :
    /\ Cardinality(Continuations(s)) <= 1
    /\ \A t \in Continuations(s), c \in log[s].commands \ NoDecision :
         \E o \in BasisOf(t) : log[o].kind = "outcome" /\ log[o].command = c

\* No step continues another whose continuation it had observed to be stopped.
StoppedIsNotResumed ==
  \A s \in Steps : \A t \in Continuations(s) :
    \A k \in StopsFor(log, s) : ObservedBy(log, t) < k

\* Nothing is under way and the Session waits for an external fact.
AtRest ==
  LET p == Projection(log) IN
  /\ ~p.raised
  /\ WaitsForFactOnly(p)
  /\ AdvanceIdle

\* External fact m arrived after the command of outcome o was decided, and takes
\* the decision on o over.
TakenOver(o, m) ==
  /\ IsExternalDecisionFact(log, m)
  /\ \E s \in Steps : log[o].command \in log[s].commands /\ ObservedBy(log, s) < m

\* The decision that a cancellation kept from being made was on outcome o: on the
\* last outcome of its group, or on a fact that took it over.
DecisionCancelled(o) ==
  \E k \in Of(log, "cancel") :
    \/ TakenOver(o, log[k].trigger)
    \/ \E s \in Steps : IsOutcomeOf(o, s) /\ IsOutcomeOf(log[k].trigger, s)

\* Outcomes the model was to see, of a continuation that was not stopped and with
\* no decision cancelled, that are in no committed step's basis.
Stranded ==
  {o \in Of(log, "outcome") :
     /\ log[o].command \notin NoDecision
     /\ \A s \in Steps : log[o].command \in log[s].commands => StopsFor(log, s) = {}
     /\ ~DecisionCancelled(o)
     /\ \A s \in Steps : o \notin BasisOf(s)}

\* A sibling that also was to be continued from was rejected: the group of
\* outcome o never closes.
GroupCannotClose(o) ==
  \E s \in Steps, r \in Of(log, "reject") :
    /\ {log[o].command, log[r].command} \subseteq log[s].commands
    /\ log[r].command \notin NoDecision

\* The command of o was attempted only after the decision on a later external
\* fact had been frozen, which therefore neither waited for it nor shows it.
DecidedWithoutIt(o) ==
  \E t \in Steps :
    TakenOver(o, log[t].request.trigger) /\ ObservedBy(log, t) < log[o].attempt

\* Those are the only ways for a result to be left over: every other outcome the
\* model was to see is in the basis of a step by the time the Session is at rest.
OnlyKnownStrandings ==
  AtRest => \A o \in Stranded : GroupCannotClose(o) \/ DecidedWithoutIt(o)

\* The Dispatcher takes eligibility from the projection and the Journal compares
\* it with its own tables: two reductions of the log, in state.py and in
\* sqlite.py, which always agree on every command.
ProjectionAgreesWithTables ==
  LET commands == Operational(log).commands IN
  /\ Indexable(log) /\ ~Operational(log).raised
  /\ \A c \in Commands :
       /\ commands[c].issued = commandRows[c].issued
       /\ commands[c].eligible = commandRows[c].eligible
       /\ commands[c].rejected = commandRows[c].rejected
       /\ commands[c].outcome = commandRows[c].outcome
       /\ AttemptsOf(c) = {commands[c].attempt} \ {None}

\* A call that looks at a log without a projection raises, and ends the process.
NeverRaised == \A n \in 0..Len(log) : ~Projection(SubSeq(log, 1, n)).raised

\* Without a fault and without a cancellation, when advance and grant_command
\* have returned every command that may run has been started: nobody has to ask
\* again.
NothingForgotten ==
  /\ cancels = 0 /\ faults = 0
  /\ AdvanceIdle /\ ~grantOwes /\ starting["grant"] = {}
  => PendingStarts(Projection(log)) = {} \/ ~NeverRaised

-------------------------------------------------------------------------------
\* What the proofs of the above rest on besides the Journal's own invariant.

\* The decision requested was the next one, and its frame the one it had, when the
\* log was as long as the frame says.
IsFromCut(events, r) ==
  /\ r.frame.observed \in 0..Len(events)
  /\ LET p == Projection(SubSeq(events, 1, r.frame.observed)) IN
     /\ ~p.raised
     /\ r = [trigger |-> p.next, frame |-> p.frame]
     /\ r.trigger # None

\* Whatever becomes of a claim, and however late its step is committed: every step
\* in the log, and every lease, is for the decision that was next in a prefix of it.
DecidedFromCuts ==
  /\ advancing.pc \in {"frozen", "claimed", "deciding", "committed"} =>
       IsFromCut(log, advancing.request)
  /\ advancing.pc \in {"claimed", "deciding", "committed"} =>
       advancing.lease \in DOMAIN leases
  /\ \A n \in DOMAIN leases : IsFromCut(log, leases[n].lease.request)
  /\ \A s \in Steps : IsFromCut(log, log[s].request) /\ ObservedBy(log, s) < s

===============================================================================
