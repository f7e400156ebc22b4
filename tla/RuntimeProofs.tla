----------------------------- MODULE RuntimeProofs -----------------------------
(***************************************************************************)
(* What holds of AgentRuntime whatever the facts, commands, bounds and the *)
(* interleaving: it uses the Journal as JournalSpec allows, the Journal's  *)
(* tables and the projection agree, every step was decided on a projection *)
(* of a prefix of the log, what follows for which step is taken when, that *)
(* no command and no result is left behind and no log without a projection *)
(* but in the known cases, and that SessionScheduler over it loses no      *)
(* wake.                                                                   *)
(***************************************************************************)
EXTENDS SessionScheduler, SessionJournalProofs, ProjectorProofs

-------------------------------------------------------------------------------
\* The Runtime as a caller of the Journal.

ProcessTypeOK ==
  /\ advancing \in
       [pc : {"idle", "frozen", "claimed", "deciding", "committed", "dispatching"},
        request : Requests \cup {NoRequest}, lease : Nat, cancelRequested : BOOLEAN]
  /\ cancelling \in
       [pc : {"idle", "look", "active", "await", "read", "frame", "steps", "interrupt"},
        trigger : Positions \cup {None}, lease : Nat, steps : SUBSET Positions]
  /\ starting \in [Callers -> SUBSET Starts]
  /\ grantOwes \in BOOLEAN
  /\ running \in SUBSET Positions
  /\ cancels \in 0..MaxCancels
  /\ faults \in 0..MaxFaults

\* The invariant: the Journal's own, types, and where requests come from.
RuntimeInv == JournalInv /\ ProcessTypeOK /\ DecidedFromCuts

\* A log the Journal holds is one the projection is defined for.
LEMMA LogIsLog ==
  ASSUME FrameData = Frames, JournalTypeOK
  PROVE  IsLog(log)
<1>1. log \in Seq(Events) /\ Len(log) <= MaxEvents
  BY DEF JournalTypeOK
<1>2. ASSUME NEW s \in Of(log, "step")
      PROVE  ObservedBy(log, s) \in Nat
  <2>1. log[s] \in Events /\ log[s].kind = "step"
    BY <1>1 DEF Of
  <2>2. log[s].request.frame \in Frames
    BY <2>1, EventFields DEF Requests
  <2>3. log[s].request.frame.observed \in 0..MaxEvents
    BY <2>2 DEF Frames
  <2> QED
    BY <2>3, BoundAssumption DEF ObservedBy
<1> QED
  BY <1>1, <1>2 DEF IsLog

\* What a step of the Runtime asks of the Journal: a lease only for the decision
\* it has frozen, and otherwise any transaction that hands out none.
LEMMA RuntimeStepIsJournalStep ==
  ASSUME RuntimeInv, [RuntimeNext]_runtimeVars
  PROVE  /\ [JournalNext]_journalVars
         /\ \/ leases' = leases
            \/ /\ advancing.pc = "frozen"
               /\ \E k \in Tokens, w \in Owners : AcquireStep(advancing.request, k, w)
<1>1. /\ advancing.pc = "frozen" => advancing.request \in Requests
      /\ advancing.pc \in {"claimed", "deciding", "committed"} =>
           advancing.lease \in 1..Len(leases)
  <2>1. leases \in Seq(HandedOut) /\ advancing.request \in Requests \cup {NoRequest}
    BY DEF RuntimeInv, JournalInv, JournalTypeOK, ProcessTypeOK
  <2>2. DOMAIN leases = 1..Len(leases)
    BY <2>1
  <2>3. advancing.pc = "frozen" => advancing.request.trigger # None
    BY DEF RuntimeInv, DecidedFromCuts, IsFromCut
  <2>4. NoRequest.trigger = None
    BY DEF NoRequest
  <2> QED
    BY <2>1, <2>2, <2>3, <2>4 DEF RuntimeInv, DecidedFromCuts
<1>2. /\ \A caller \in Callers : starting[caller] \in SUBSET Starts
      /\ \A i \in Starts : i.command \in Commands /\ i.cause \in Positions
      /\ running \in SUBSET Positions
  BY DEF RuntimeInv, ProcessTypeOK, Starts
<1>3. \A t : Recorded(t) => t \in Positions
  <2>1. log \in Seq(Events) /\ Len(log) <= MaxEvents /\ Len(log) \in Nat
    BY DEF RuntimeInv, JournalInv, JournalTypeOK
  <2> QED
    BY <2>1, BoundAssumption DEF Recorded, Positions
<1>4. 1 \in 1..2
  OBVIOUS
<1>5. CASE OutsideAction
  BY <1>5 DEF OutsideAction, Receive, GrantCommand, RejectCommand, Restart, AcceptDelivery, Grant,
              Reject, ExpireStep, JournalNext, ClaimAction, CommandAction
<1>6. CASE AdvanceAction
  <2>1. CASE Claim
    <3>1. PICK k \in Tokens, w \in Owners :
            advancing.pc = "frozen" /\ AcquireStep(advancing.request, k, w)
      BY <2>1 DEF Claim
    <3> QED
      BY <1>1, <3>1 DEF JournalNext, ClaimAction
  <2>2. CASE \E cs \in SUBSET Commands : Decide(cs)
    BY <1>1, <2>2 DEF Decide, MyLease, CommitStep, JournalNext, DecisionAction
  <2>3. CASE LoseLease \/ MissCommit \/ FailDecision
    BY <1>1, <2>3 DEF LoseLease, MissCommit, FailDecision, MyLease, ReleaseStep, JournalNext,
                      ClaimAction
  <2>4. CASE Freeze \/ ClaimRefused \/ Activate \/ Withdraw \/ FinishDecision \/ AdvanceReadsPending
    BY <2>4 DEF Freeze, ClaimRefused, Activate, Withdraw, FinishDecision, AdvanceReadsPending,
                journalVars
  <2> QED
    BY <1>6, <2>1, <2>2, <2>3, <2>4 DEF AdvanceAction
<1>7. CASE DispatchAction
  <2>1. CASE \E caller \in Callers : \E item \in starting[caller] : Start(caller, item)
    <3>0. PICK caller \in Callers : \E item \in starting[caller] : Start(caller, item)
      BY <2>1
    <3>1. PICK item \in starting[caller] : Start(caller, item)
      BY <3>0
    <3>2. item.command \in Commands /\ item.cause \in Positions
      BY <1>2
    <3>3. StartAttempt(item.command, item.cause, 1)
      BY <3>1 DEF Start
    <3> QED
      BY <1>4, <3>2, <3>3 DEF StartAttempt, JournalNext, CommandAction
  <2>2. CASE \E a \in running, result \in Results : FinishTask(a, result)
    BY <1>2, <2>2 DEF FinishTask, RecordOutcome, JournalNext, CommandAction
  <2>3. CASE \E a \in running : FinishEndedTask(a) \/ FailTask(a)
    BY <1>2, <2>3 DEF FinishEndedTask, FailTask, ReleaseAttempt, JournalNext, CommandAction
  <2>4. CASE \/ GrantReadsPending
             \/ \E caller \in Callers : \E item \in starting[caller] : StartRefused(caller, item)
    BY <2>4 DEF GrantReadsPending, StartRefused, journalVars
  <2> QED
    BY <1>7, <2>1, <2>2, <2>3, <2>4 DEF DispatchAction
<1>8. CASE CancelAction
  <2>1. CASE CancelActive
    BY <1>3, <2>1 DEF CancelActive, CancelDecision, JournalNext, DecisionAction, journalVars
  <2>2. CASE CancelFrame
    BY <1>3, <2>2 DEF CancelFrame, CancelDecision, JournalNext, DecisionAction, journalVars
  <2>3. CASE \E s \in Positions : CancelSteps(s)
    BY <2>3 DEF CancelSteps, CancelContinuation, JournalNext, DecisionAction
  <2>4. CASE \E a \in running, result \in Results : Interrupt(a, result)
    BY <1>2, <2>4 DEF Interrupt, RecordOutcome, JournalNext, CommandAction
  <2>5. CASE BeginCancel \/ LookForActive \/ AwaitFinished \/ ReadForCancel \/ EndCancel
    BY <2>5 DEF BeginCancel, LookForActive, AwaitFinished, ReadForCancel, EndCancel, journalVars
  <2> QED
    BY <1>8, <2>1, <2>2, <2>3, <2>4, <2>5 DEF CancelAction
<1>9. CASE UNCHANGED runtimeVars
  BY <1>9 DEF runtimeVars, journalVars
<1> QED
  BY <1>5, <1>6, <1>7, <1>8, <1>9 DEF RuntimeNext

-------------------------------------------------------------------------------
\* Where requests come from.

\* A cut of the log is a cut of the longer log.
LEMMA CutsStay ==
  ASSUME NEW E, NEW events \in Seq(E), NEW e \in E, NEW r, IsFromCut(events, r)
  PROVE  IsFromCut(Append(events, e), r)
<1>1. r.frame.observed \in 0..Len(events)
  BY DEF IsFromCut
<1>2. PICK n : n = r.frame.observed
  OBVIOUS
<1>3. SubSeq(Append(events, e), 1, n) = SubSeq(events, 1, n) /\ n \in 0..Len(Append(events, e))
  BY <1>1, <1>2
<1> QED
  BY <1>2, <1>3 DEF IsFromCut

\* A transaction appends at most one event, and a step only for a lease.
LEMMA StepsAreLeased ==
  ASSUME JournalTypeOK, Bookkeeping, [JournalNext]_journalVars
  PROVE  \/ log' = log
         \/ \E e \in Events :
              /\ AppendEvent(e)
              /\ e.kind = "step" => \E n \in DOMAIN leases : e.request = leases[n].lease.request
<1>1. \A n \in 1..Len(leases) : leases[n].lease.request \in Requests
  BY HandedOutLeasesTyped DEF JournalTypeOK, Leases
<1>2. DOMAIN leases = 1..Len(leases)
  BY DEF JournalTypeOK
<1>3. CASE \E n \in 1..Len(leases), cs \in SUBSET Commands : CommitStep(leases[n].lease, cs)
  <2>1. PICK n \in 1..Len(leases), cs \in SUBSET Commands : CommitStep(leases[n].lease, cs)
    BY <1>3
  <2>2. PICK e : e = [kind |-> "step", request |-> leases[n].lease.request, commands |-> cs]
    OBVIOUS
  <2>3. e \in Events /\ AppendEvent(e) /\ e.request = leases[n].lease.request
    BY <1>1, <2>1, <2>2, EventsTyped DEF CommitStep
  <2> QED
    BY <1>2, <2>3
<1>4. CASE \E e \in Events : AppendEvent(e) /\ e.kind # "step"
  BY <1>4
<1>5. CASE \E d \in Facts : AcceptDelivery(d)
  <2>1. PICK d \in Facts : AcceptDelivery(d)
    BY <1>5
  <2>2. PICK e : e = [kind |-> "fact", delivery |-> d]
    OBVIOUS
  <2> QED
    BY <1>4, <2>1, <2>2, EventsTyped DEF AcceptDelivery
<1>6. CASE \E t \in Positions : CancelDecision(t)
  <2>1. PICK t \in Positions : CancelDecision(t)
    BY <1>6
  <2>2. PICK e : e = [kind |-> "cancel", trigger |-> t]
    OBVIOUS
  <2> QED
    BY <1>4, <2>1, <2>2, EventsTyped DEF CancelDecision
<1>7. CASE \E s \in Positions : CancelContinuation(s)
  <2>1. PICK s \in Positions : CancelContinuation(s)
    BY <1>7
  <2>2. PICK e : e = [kind |-> "stop", step |-> s]
    OBVIOUS
  <2> QED
    BY <1>4, <2>1, <2>2, EventsTyped DEF CancelContinuation
<1>8. CASE \E c \in Commands : Grant(c) \/ Reject(c)
  <2>1. PICK c \in Commands : Grant(c) \/ Reject(c)
    BY <1>8
  <2>2. PICK kind \in {"grant", "reject"} :
          AppendEvent([kind |-> kind, command |-> c, cause |-> commandRows[c].issued])
    BY <2>1 DEF Grant, Reject
  <2>3. PICK e : e = [kind |-> kind, command |-> c, cause |-> commandRows[c].issued]
    OBVIOUS
  <2>4. commandRows[c].issued \in Positions
    BY <2>1 DEF Grant, Reject, AwaitsVerdict, JournalTypeOK, CommandRows
  <2>5. e \in Events /\ AppendEvent(e) /\ e.kind # "step"
    BY <2>2, <2>3, <2>4, EventsTyped
  <2> QED
    BY <1>4, <2>5
<1>9. CASE \E c \in Commands, cause \in Positions, n \in 1..2 : StartAttempt(c, cause, n)
  <2>1. PICK c \in Commands, cause \in Positions, n \in 1..2 : StartAttempt(c, cause, n)
    BY <1>9
  <2>2. PICK e : e = [kind |-> "attempt", command |-> c, number |-> n, cause |-> cause]
    OBVIOUS
  <2> QED
    BY <1>4, <2>1, <2>2, EventsTyped DEF StartAttempt
<1>10. CASE \E a \in Positions, result \in Results : RecordOutcome(a, result)
  <2>1. PICK a \in Positions, result \in Results : RecordOutcome(a, result)
    BY <1>10
  <2>2. PICK e : e = [kind |-> "outcome", command |-> attemptRows[a].command, attempt |-> a,
                      result |-> result]
    OBVIOUS
  <2>3. attemptRows[a].command \in Commands
    BY <2>1, UnendedAttempt DEF RecordOutcome
  <2> QED
    BY <1>4, <2>1, <2>2, <2>3, EventsTyped DEF RecordOutcome
<1>11. CASE ClaimAction \/ (\E a \in Positions : ReleaseAttempt(a)) \/ UNCHANGED journalVars
  BY <1>11 DEF ClaimAction, AcquireStep, ReleaseStep, RenewStep, ExpireStep, ReleaseAttempt,
               journalVars
<1> QED
  BY <1>3, <1>5, <1>6, <1>7, <1>8, <1>9, <1>10, <1>11 DEF JournalNext, DecisionAction, CommandAction

\* What the Runtime reads in a projection has the type of where it puts it.
LEMMA ProjectionTyped ==
  ASSUME FrameData = Frames, JournalTypeOK
  PROVE  LET p == Projection(log) IN
         /\ p.next \in Positions \cup {None}
         /\ p.next # None => [trigger |-> p.next, frame |-> p.frame] \in Requests
         /\ p.frame.observed = Len(log)
         /\ PendingStarts(p) \in SUBSET Starts
         /\ ContinuableSteps(p) \in SUBSET Positions
<1>1. IsLog(log)
  BY LogIsLog
<1>2. PICK p : p = Projection(log)
  OBVIOUS
<1>3. /\ p.next \in Positions \cup {None} /\ p.frame \in Frames
      /\ p.frame.observed = Len(log)
  BY <1>1, <1>2, FrameTyped
<1>4. p.next # None => [trigger |-> p.next, frame |-> p.frame] \in Requests
  BY <1>3 DEF Requests
<1>5. p.commands \in [Commands -> CommandStates]
  <2>1. p.commands = Operational(log).commands
    BY <1>2 DEF Projection, Project, ProjectionOf
  <2> QED
    BY <1>1, <2>1, OperationalIsTrue DEF ViewIsTrue, Views
<1>6. PendingStarts(p) \in SUBSET Starts
  <2>1. \A c \in Commands : p.commands[c].eligible # None => p.commands[c].eligible \in Positions
    BY <1>5 DEF CommandStates
  <2> QED
    BY <2>1 DEF PendingStarts, Starts
<1>7. ContinuableSteps(p) \in SUBSET Positions
  <2>1. \A c \in Commands : p.commands[c].issued # None => p.commands[c].issued \in Positions
    BY <1>5 DEF CommandStates
  <2> QED
    BY <2>1 DEF ContinuableSteps, WaitingCommands, Known
<1> QED
  BY <1>2, <1>3, <1>4, <1>6, <1>7

\* advance goes from one await to the next with a request it has frozen.
LEMMA AdvancingTyped ==
  ASSUME FrameData = Frames, RuntimeInv, [RuntimeNext]_runtimeVars
  PROVE  advancing' \in
           [pc : {"idle", "frozen", "claimed", "deciding", "committed", "dispatching"},
            request : Requests \cup {NoRequest}, lease : Nat, cancelRequested : BOOLEAN]
<1> DEFINE Type ==
             [pc : {"idle", "frozen", "claimed", "deciding", "committed", "dispatching"},
              request : Requests \cup {NoRequest}, lease : Nat, cancelRequested : BOOLEAN]
<1>1. JournalTypeOK /\ advancing \in Type
  BY DEF RuntimeInv, JournalInv, ProcessTypeOK
<1>2. IdleAdvance \in Type /\ GoOnToDispatch \in Type
  BY DEF IdleAdvance, GoOnToDispatch
<1>3. CASE Freeze
  <2>1. PICK p : p = Projection(log)
    OBVIOUS
  <2>2. p.next # None => [trigger |-> p.next, frame |-> p.frame] \in Requests
    BY <1>1, <2>1, ProjectionTyped
  <2>3. advancing' = IF p.next = None THEN GoOnToDispatch
                     ELSE [IdleAdvance EXCEPT
                            !.pc = "frozen", !.request = [trigger |-> p.next, frame |-> p.frame]]
    BY <1>3, <2>1 DEF Freeze
  <2> QED
    BY <1>2, <2>2, <2>3 DEF IdleAdvance
<1>4. CASE Claim
  <2>1. leases \in Seq(HandedOut)
    BY <1>1 DEF JournalTypeOK
  <2>2. PICK h : leases' = Append(leases, h)
    BY <1>4 DEF Claim, AcquireStep
  <2>3. Len(leases') = Len(leases) + 1 /\ Len(leases) \in Nat
    BY <2>1, <2>2
  <2>4. Len(leases') \in Nat
    BY <2>3
  <2> QED
    BY <1>1, <1>4, <2>4 DEF Claim
<1>5. CASE CancelActive
  BY <1>1, <1>5 DEF CancelActive, Signalled
<1>6. CASE Activate \/ \E cs \in SUBSET Commands : Decide(cs)
  BY <1>1, <1>6 DEF Activate, Decide
<1>7. CASE advancing' \in {IdleAdvance, GoOnToDispatch, advancing}
  BY <1>1, <1>2, <1>7
<1> HIDE DEF Type
<1>8. OutsideAction => advancing' \in {IdleAdvance, advancing}
  BY DEF OutsideAction, Receive, GrantCommand, RejectCommand, Restart, processVars
<1>9. AdvanceAction => \/ Freeze \/ Claim \/ Activate \/ \E cs \in SUBSET Commands : Decide(cs)
                       \/ advancing' \in {IdleAdvance, GoOnToDispatch}
  BY DEF AdvanceAction, ClaimRefused, LoseLease, MissCommit, Withdraw, FailDecision,
         FinishDecision, AdvanceReadsPending
<1>10. DispatchAction => advancing' = advancing
  BY DEF DispatchAction, GrantReadsPending, Start, StartRefused, FinishTask, FinishEndedTask, FailTask
<1>11. CancelAction => CancelActive \/ advancing' = advancing
  BY DEF CancelAction, BeginCancel, LookForActive, AwaitFinished, ReadForCancel, CancelFrame,
         CancelSteps, Interrupt, EndCancel, processVars
<1>12. UNCHANGED runtimeVars => advancing' = advancing
  BY DEF runtimeVars, processVars
<1> QED
  BY <1>3, <1>4, <1>5, <1>6, <1>7, <1>8, <1>9, <1>10, <1>11, <1>12 DEF RuntimeNext, Type

\* cancel_turn keeps a trigger, a lease and steps to cancel.
LEMMA CancellingTyped ==
  ASSUME FrameData = Frames, RuntimeInv, [RuntimeNext]_runtimeVars
  PROVE  cancelling' \in
           [pc : {"idle", "look", "active", "await", "read", "frame", "steps", "interrupt"},
            trigger : Positions \cup {None}, lease : Nat, steps : SUBSET Positions]
<1> DEFINE Pcs == {"idle", "look", "active", "await", "read", "frame", "steps", "interrupt"}
           Type == [pc : Pcs, trigger : Positions \cup {None}, lease : Nat,
                    steps : SUBSET Positions]
<1>1. JournalTypeOK /\ cancelling \in Type
  BY DEF RuntimeInv, JournalInv, ProcessTypeOK
<1>2. IdleCancel \in Type /\ \A pc \in Pcs : CancelAt(pc) \in Type
  BY DEF IdleCancel, CancelAt
<1>3. CASE LookForActive
  <2>1. Active => advancing.request.trigger \in Positions \cup {None} /\ advancing.lease \in Nat
    <3>1. advancing.request \in Requests \cup {NoRequest} /\ advancing.lease \in Nat
      BY DEF RuntimeInv, ProcessTypeOK
    <3> QED
      BY <3>1 DEF Requests, NoRequest
  <2> QED
    BY <1>2, <1>3, <2>1 DEF LookForActive, CancelAt, IdleCancel
<1>4. CASE CancelActive
  BY <1>1, <1>4 DEF CancelActive
<1>5. CASE ReadForCancel
  <2>1. PICK p : p = Projection(log)
    OBVIOUS
  <2>2. p.next \in Positions \cup {None} /\ ContinuableSteps(p) \in SUBSET Positions
    BY <1>1, <2>1, ProjectionTyped
  <2>3. PICK open : open = {s \in ContinuableSteps(p) : StopsFor(log, s) = {}}
    OBVIOUS
  <2>4. open \in SUBSET Positions
    BY <2>2, <2>3
  <2>5. cancelling' \in {IdleCancel, [CancelAt("frame") EXCEPT !.trigger = p.next],
                         [CancelAt("steps") EXCEPT !.steps = open], CancelAt("interrupt")}
    BY <1>5, <2>1, <2>3 DEF ReadForCancel
  <2>6. CancelAt("frame") \in Type /\ CancelAt("steps") \in Type /\ CancelAt("interrupt") \in Type
    BY <1>2
  <2>7. \A trigger \in Positions \cup {None} : [CancelAt("frame") EXCEPT !.trigger = trigger] \in Type
    BY <2>6
  <2>8. [CancelAt("frame") EXCEPT !.trigger = p.next] \in Type
    BY <2>2, <2>7
  <2>9. [CancelAt("steps") EXCEPT !.steps = open] \in Type
    BY <2>4, <2>6
  <2> QED
    BY <1>2, <2>5, <2>6, <2>8, <2>9
<1>6. CASE \E s \in Positions : CancelSteps(s)
  BY <1>1, <1>2, <1>6 DEF CancelSteps
<1>7. CASE BeginCancel \/ AwaitFinished \/ CancelFrame \/ EndCancel
  BY <1>2, <1>7 DEF BeginCancel, AwaitFinished, CancelFrame, EndCancel
<1>8. CASE cancelling' \in {IdleCancel, cancelling}
  BY <1>1, <1>2, <1>8
<1> HIDE DEF Type
<1>9. OutsideAction => cancelling' \in {IdleCancel, cancelling}
  BY DEF OutsideAction, Receive, GrantCommand, RejectCommand, Restart, processVars
<1>10. AdvanceAction => cancelling' = cancelling
  BY DEF AdvanceAction, Freeze, Claim, ClaimRefused, Activate, Decide, LoseLease, MissCommit,
         Withdraw, FailDecision, FinishDecision, AdvanceReadsPending
<1>11. DispatchAction => cancelling' = cancelling
  BY DEF DispatchAction, GrantReadsPending, Start, StartRefused, FinishTask, FinishEndedTask, FailTask
<1>12. (\E a \in running, result \in Results : Interrupt(a, result)) => cancelling' = cancelling
  BY DEF Interrupt, processVars
<1>13. UNCHANGED runtimeVars => cancelling' = cancelling
  BY DEF runtimeVars, processVars
<1> QED
  BY <1>3, <1>4, <1>5, <1>6, <1>7, <1>8, <1>9, <1>10, <1>11, <1>12, <1>13
     DEF RuntimeNext, CancelAction, Type

\* What start_pending has read and the tasks it has started.
LEMMA DispatchTyped ==
  ASSUME FrameData = Frames, RuntimeInv, [RuntimeNext]_runtimeVars
  PROVE  /\ starting' \in [Callers -> SUBSET Starts]
         /\ grantOwes' \in BOOLEAN
         /\ running' \in SUBSET Positions
         /\ cancels' \in 0..MaxCancels
         /\ faults' \in 0..MaxFaults
<1>1. /\ JournalTypeOK
      /\ starting \in [Callers -> SUBSET Starts] /\ grantOwes \in BOOLEAN
      /\ running \in SUBSET Positions
      /\ cancels \in 0..MaxCancels /\ faults \in 0..MaxFaults
  BY DEF RuntimeInv, JournalInv, ProcessTypeOK
<1>2. starting' \in [Callers -> SUBSET Starts]
  <2>1. ASSUME NEW caller \in Callers, ReadPending(caller)
        PROVE  starting' \in [Callers -> SUBSET Starts]
    <3>1. PICK p : p = Projection(log)
      OBVIOUS
    <3>2. PendingStarts(p) \in SUBSET Starts
      BY <1>1, <3>1, ProjectionTyped
    <3> QED
      BY <1>1, <2>1, <3>1, <3>2 DEF ReadPending
  <2>2. CASE AdvanceReadsPending \/ GrantReadsPending
    BY <2>1, <2>2 DEF AdvanceReadsPending, GrantReadsPending, Callers
  <2>3. CASE \E caller \in Callers : \E item \in starting[caller] :
               Start(caller, item) \/ StartRefused(caller, item)
    BY <1>1, <2>3 DEF Start, StartRefused
  <2>4. CASE Restart
    BY <2>4 DEF Restart
  <2>5. CASE starting' = starting
    BY <1>1, <2>5
  <2>6. OutsideAction => Restart \/ starting' = starting
    BY DEF OutsideAction, Receive, GrantCommand, RejectCommand, processVars
  <2>7. AdvanceAction => AdvanceReadsPending \/ starting' = starting
    BY DEF AdvanceAction, Freeze, Claim, ClaimRefused, Activate, Decide, LoseLease, MissCommit,
           Withdraw, FailDecision, FinishDecision
  <2>8. DispatchAction => \/ GrantReadsPending
                          \/ \E caller \in Callers : \E item \in starting[caller] :
                               Start(caller, item) \/ StartRefused(caller, item)
                          \/ starting' = starting
    BY DEF DispatchAction, FinishTask, FinishEndedTask, FailTask
  <2>9. CancelAction \/ UNCHANGED runtimeVars => starting' = starting
    BY DEF CancelAction, BeginCancel, LookForActive, CancelActive, AwaitFinished, ReadForCancel,
           CancelFrame, CancelSteps, Interrupt, EndCancel, runtimeVars, processVars
  <2> QED
    BY <2>2, <2>3, <2>4, <2>5, <2>6, <2>7, <2>8, <2>9 DEF RuntimeNext
<1>3. running' \in SUBSET Positions
  <2>1. CASE \E caller \in Callers : \E item \in starting[caller] : Start(caller, item)
    <3>1. NextPosition <= MaxEvents /\ Len(log) \in Nat
      BY <1>1, <2>1 DEF Start, StartAttempt, AppendEvent, JournalTypeOK
    <3>2. NextPosition \in Positions
      BY <3>1, BoundAssumption DEF NextPosition, Positions
    <3> QED
      BY <1>1, <2>1, <3>2 DEF Start
  <2>2. CASE running' \subseteq running
    BY <1>1, <2>2
  <2>3. OutsideAction => running' \subseteq running
    BY DEF OutsideAction, Receive, GrantCommand, RejectCommand, Restart, processVars
  <2>4. AdvanceAction => running' = running
    BY DEF AdvanceAction, Freeze, Claim, ClaimRefused, Activate, Decide, LoseLease, MissCommit,
           Withdraw, FailDecision, FinishDecision, AdvanceReadsPending
  <2>5. DispatchAction => \/ \E caller \in Callers : \E item \in starting[caller] : Start(caller, item)
                          \/ running' \subseteq running
    BY DEF DispatchAction, GrantReadsPending, StartRefused, FinishTask, FinishEndedTask, FailTask
  <2>6. CancelAction \/ UNCHANGED runtimeVars => running' = running
    BY DEF CancelAction, BeginCancel, LookForActive, CancelActive, AwaitFinished, ReadForCancel,
           CancelFrame, CancelSteps, Interrupt, EndCancel, runtimeVars, processVars
  <2> QED
    BY <2>1, <2>2, <2>3, <2>4, <2>5, <2>6 DEF RuntimeNext
<1>4. grantOwes' \in BOOLEAN
  BY <1>1 DEF RuntimeNext, OutsideAction, Receive, GrantCommand, RejectCommand, Restart,
              AdvanceAction, Freeze, Claim, ClaimRefused, Activate, Decide, LoseLease, MissCommit,
              Withdraw, FailDecision, FinishDecision, AdvanceReadsPending,
              DispatchAction, GrantReadsPending, Start, StartRefused, FinishTask, FinishEndedTask,
              FailTask, CancelAction, BeginCancel, LookForActive, CancelActive, AwaitFinished,
              ReadForCancel, CancelFrame, CancelSteps, Interrupt, EndCancel, runtimeVars, processVars
<1>5. cancels' = cancels \/ (cancels < MaxCancels /\ cancels' = cancels + 1)
  <2>1. OutsideAction => cancels' = cancels
    BY DEF OutsideAction, Receive, GrantCommand, RejectCommand, Restart
  <2>2. AdvanceAction => cancels' = cancels
    BY DEF AdvanceAction, Freeze, Claim, ClaimRefused, Activate, Decide, LoseLease, MissCommit,
           Withdraw, FailDecision, FinishDecision, AdvanceReadsPending
  <2>3. DispatchAction => cancels' = cancels
    BY DEF DispatchAction, GrantReadsPending, Start, StartRefused, FinishTask, FinishEndedTask,
           FailTask
  <2>4. CancelAction => BeginCancel \/ cancels' = cancels
    BY DEF CancelAction, LookForActive, CancelActive, AwaitFinished, ReadForCancel, CancelFrame,
           CancelSteps, Interrupt, EndCancel
  <2>5. UNCHANGED runtimeVars => cancels' = cancels
    BY DEF runtimeVars
  <2>6. BeginCancel => cancels < MaxCancels /\ cancels' = cancels + 1
    BY DEF BeginCancel
  <2>7. \/ OutsideAction \/ AdvanceAction \/ DispatchAction \/ CancelAction
        \/ UNCHANGED runtimeVars
    BY DEF RuntimeNext
  <2> QED
    BY <2>1, <2>2, <2>3, <2>4, <2>5, <2>6, <2>7
<1>6. faults' = faults \/ (faults < MaxFaults /\ faults' = faults + 1)
  <2>1. OutsideAction => Restart \/ faults' = faults
    BY DEF OutsideAction, Receive, GrantCommand, RejectCommand
  <2>2. AdvanceAction => MissCommit \/ FailDecision \/ faults' = faults
    BY DEF AdvanceAction, Freeze, Claim, ClaimRefused, Activate, Decide, LoseLease, Withdraw,
           FinishDecision, AdvanceReadsPending
  <2>3. DispatchAction => (\E a \in running : FailTask(a)) \/ faults' = faults
    BY DEF DispatchAction, GrantReadsPending, Start, StartRefused, FinishTask, FinishEndedTask
  <2>4. CancelAction => faults' = faults
    BY DEF CancelAction, BeginCancel, LookForActive, CancelActive, AwaitFinished, ReadForCancel,
           CancelFrame, CancelSteps, Interrupt, EndCancel
  <2>5. UNCHANGED runtimeVars => faults' = faults
    BY DEF runtimeVars
  <2>6. Restart \/ MissCommit \/ FailDecision \/ (\E a \in running : FailTask(a)) =>
          faults < MaxFaults /\ faults' = faults + 1
    BY DEF Restart, MissCommit, FailDecision, FailTask
  <2>7. \/ OutsideAction \/ AdvanceAction \/ DispatchAction \/ CancelAction
        \/ UNCHANGED runtimeVars
    BY DEF RuntimeNext
  <2> QED
    BY <2>1, <2>2, <2>3, <2>4, <2>5, <2>6, <2>7
<1>7. cancels' \in 0..MaxCancels /\ faults' \in 0..MaxFaults
  BY <1>1, <1>5, <1>6, RuntimeBoundAssumption
<1> QED
  BY <1>2, <1>3, <1>4, <1>7

\* What advance freezes is next in the whole log.
LEMMA FrozenFromCut ==
  ASSUME FrameData = Frames, JournalTypeOK, NEW p, p = Projection(log), ~p.raised, p.next # None
  PROVE  IsFromCut(log, [trigger |-> p.next, frame |-> p.frame])
<1>1. log \in Seq(Events) /\ Len(log) \in Nat
  BY DEF JournalTypeOK
<1>2. SubSeq(log, 1, Len(log)) = log
  BY <1>1
<1>3. p.frame.observed = Len(log)
  BY LogIsLog, FrameTyped
<1>4. PICK r : r = [trigger |-> p.next, frame |-> p.frame]
  OBVIOUS
<1>5. r.trigger = p.next /\ r.frame = p.frame /\ r.frame.observed = Len(log)
  BY <1>3, <1>4
<1>6. SubSeq(log, 1, r.frame.observed) = log
  BY <1>2, <1>5
<1>7. r.frame.observed \in 0..Len(log)
  BY <1>1, <1>5
<1>8. IsFromCut(log, r)
  BY <1>4, <1>5, <1>6, <1>7 DEF IsFromCut
<1> QED
  BY <1>4, <1>8

\* The log only grows.
LEMMA CutsAreKept ==
  ASSUME RuntimeInv, [RuntimeNext]_runtimeVars, NEW r, IsFromCut(log, r)
  PROVE  IsFromCut(log', r)
<1>1. [JournalNext]_journalVars
  BY RuntimeStepIsJournalStep
<1>2. JournalTypeOK /\ Bookkeeping
  BY DEF RuntimeInv, JournalInv
<1>3. CASE log' = log
  BY <1>3
<1>4. CASE \E e \in Events : AppendEvent(e)
  <2>1. PICK e \in Events : AppendEvent(e)
    BY <1>4
  <2>2. log \in Seq(Events) /\ log' = Append(log, e)
    BY <1>2, <2>1 DEF JournalTypeOK, AppendEvent
  <2>3. IsFromCut(Append(log, e), r)
    BY <2>2, CutsStay
  <2> QED
    BY <2>2, <2>3
<1> QED
  BY <1>1, <1>2, <1>3, <1>4, StepsAreLeased

\* The steps of advance that take up a request, keep it, or leave it.
LEMMA RequestsAreFrozen ==
  ASSUME ProcessTypeOK, [RuntimeNext]_runtimeVars
  PROVE  \/ Freeze
         \/ Claim
         \/ advancing'.pc \in {"idle", "dispatching"}
         \/ /\ advancing'.request = advancing.request /\ advancing'.lease = advancing.lease
            /\ \/ advancing'.pc = advancing.pc
               \/ advancing.pc \in {"claimed", "deciding"}
<1>1. OutsideAction => advancing' \in {IdleAdvance, advancing}
  BY DEF OutsideAction, Receive, GrantCommand, RejectCommand, Restart, processVars
<1>2. AdvanceAction => \/ Freeze \/ Claim \/ Activate \/ \E cs \in SUBSET Commands : Decide(cs)
                       \/ advancing' \in {IdleAdvance, GoOnToDispatch}
  BY DEF AdvanceAction, ClaimRefused, LoseLease, MissCommit, Withdraw, FailDecision,
         FinishDecision, AdvanceReadsPending
<1>3. DispatchAction => advancing' = advancing
  BY DEF DispatchAction, GrantReadsPending, Start, StartRefused, FinishTask, FinishEndedTask, FailTask
<1>4. CancelAction => CancelActive \/ advancing' = advancing
  BY DEF CancelAction, BeginCancel, LookForActive, AwaitFinished, ReadForCancel, CancelFrame,
         CancelSteps, Interrupt, EndCancel, processVars
<1>5. UNCHANGED runtimeVars => advancing' = advancing
  BY DEF runtimeVars, processVars
<1>6. Activate \/ (\E cs \in SUBSET Commands : Decide(cs)) \/ CancelActive =>
        /\ advancing'.request = advancing.request /\ advancing'.lease = advancing.lease
        /\ \/ advancing'.pc = advancing.pc
           \/ advancing.pc \in {"claimed", "deciding"}
  BY DEF Activate, Decide, CancelActive, Signalled, ProcessTypeOK
<1>7. IdleAdvance.pc = "idle" /\ GoOnToDispatch.pc = "dispatching"
  BY DEF IdleAdvance, GoOnToDispatch
<1> QED
  BY <1>1, <1>2, <1>3, <1>4, <1>5, <1>6, <1>7 DEF RuntimeNext

\* DecidedFromCuts is kept.
LEMMA CutsStep ==
  ASSUME FrameData = Frames, RuntimeInv, [RuntimeNext]_runtimeVars
  PROVE  DecidedFromCuts'
<1>1. JournalTypeOK /\ Bookkeeping /\ [JournalNext]_journalVars /\ ProcessTypeOK
  BY RuntimeStepIsJournalStep DEF RuntimeInv, JournalInv
<1>2. \A r : IsFromCut(log, r) => IsFromCut(log', r)
  BY CutsAreKept
<1>3. leases \in Seq(HandedOut) /\ Len(leases) \in Nat /\ DOMAIN leases = 1..Len(leases)
  BY <1>1 DEF JournalTypeOK
<1>4. \/ leases' = leases
      \/ /\ advancing.pc = "frozen"
         /\ \E h : leases' = Append(leases, h) /\ h.lease.request = advancing.request
  <2>1. ASSUME NEW k \in Tokens, NEW w \in Owners, AcquireStep(advancing.request, k, w)
        PROVE  \E h : leases' = Append(leases, h) /\ h.lease.request = advancing.request
    BY <2>1 DEF AcquireStep
  <2> QED
    BY <2>1, RuntimeStepIsJournalStep
<1>5. \A n \in DOMAIN leases : n \in DOMAIN leases'
  BY <1>3, <1>4
<1>6. advancing'.pc \in {"frozen", "claimed", "deciding", "committed"} =>
        IsFromCut(log', advancing'.request)
  <2>1. CASE Freeze
    <3>1. PICK p : p = Projection(log)
      OBVIOUS
    <3>2. ~p.raised /\ log' = log
      BY <2>1, <3>1 DEF Freeze, journalVars
    <3>3. CASE p.next = None
      BY <2>1, <3>1, <3>3 DEF Freeze, GoOnToDispatch, IdleAdvance
    <3>4. CASE p.next # None
      <4>1. IsFromCut(log, [trigger |-> p.next, frame |-> p.frame])
        BY <1>1, <3>1, <3>2, <3>4, FrozenFromCut
      <4>2. advancing'.request = [trigger |-> p.next, frame |-> p.frame]
        BY <2>1, <3>1, <3>4 DEF Freeze, IdleAdvance
      <4> QED
        BY <3>2, <4>1, <4>2
    <3> QED
      BY <3>3, <3>4
  <2>2. CASE Claim
    <3>1. advancing.pc = "frozen" /\ advancing'.request = advancing.request
      BY <1>1, <2>2 DEF Claim, ProcessTypeOK
    <3> QED
      BY <1>2, <3>1 DEF RuntimeInv, DecidedFromCuts
  <2>3. CASE advancing'.pc \in {"idle", "dispatching"}
    BY <2>3
  <2>4. CASE /\ advancing'.request = advancing.request
             /\ \/ advancing'.pc = advancing.pc
                \/ advancing.pc \in {"claimed", "deciding"}
    BY <1>2, <2>4 DEF RuntimeInv, DecidedFromCuts
  <2> QED
    BY <1>1, <2>1, <2>2, <2>3, <2>4, RequestsAreFrozen
<1>7. advancing'.pc \in {"claimed", "deciding", "committed"} => advancing'.lease \in DOMAIN leases'
  <2>1. CASE Freeze
    BY <2>1 DEF Freeze, GoOnToDispatch, IdleAdvance
  <2>2. CASE Claim
    <3>1. PICK h : leases' = Append(leases, h)
      BY <2>2 DEF Claim, AcquireStep
    <3>2. Len(leases') \in DOMAIN leases'
      BY <1>3, <3>1
    <3> QED
      BY <1>1, <2>2, <3>2 DEF Claim, ProcessTypeOK
  <2>3. CASE advancing'.pc \in {"idle", "dispatching"}
    BY <2>3
  <2>4. CASE /\ advancing'.lease = advancing.lease
             /\ \/ advancing'.pc = advancing.pc
                \/ advancing.pc \in {"claimed", "deciding"}
    BY <1>5, <2>4 DEF RuntimeInv, DecidedFromCuts
  <2> QED
    BY <1>1, <2>1, <2>2, <2>3, <2>4, RequestsAreFrozen
<1>8. \A n \in DOMAIN leases' : IsFromCut(log', leases'[n].lease.request)
  <2>1. CASE leases' = leases
    BY <1>2, <2>1 DEF RuntimeInv, DecidedFromCuts
  <2>2. CASE advancing.pc = "frozen" /\ \E h : /\ leases' = Append(leases, h)
                                               /\ h.lease.request = advancing.request
    <3>1. PICK h : leases' = Append(leases, h) /\ h.lease.request = advancing.request
      BY <2>2
    <3>2. \A n \in DOMAIN leases' : leases'[n] = IF n \in DOMAIN leases THEN leases[n] ELSE h
      BY <1>3, <3>1
    <3>3. IsFromCut(log, h.lease.request)
      BY <2>2, <3>1 DEF RuntimeInv, DecidedFromCuts
    <3> QED
      BY <1>2, <3>2, <3>3 DEF RuntimeInv, DecidedFromCuts
  <2> QED
    BY <1>4, <2>1, <2>2
<1>9. \A s \in Of(log', "step") :
        IsFromCut(log', log'[s].request) /\ ObservedBy(log', s) < s
  <2>1. CASE log' = log
    BY <2>1 DEF RuntimeInv, DecidedFromCuts, Steps
  <2>2. ASSUME NEW e \in Events, AppendEvent(e),
               e.kind = "step" => \E n \in DOMAIN leases : e.request = leases[n].lease.request,
               NEW s \in Of(log', "step")
        PROVE  IsFromCut(log', log'[s].request) /\ ObservedBy(log', s) < s
    <3>1. log \in Seq(Events) /\ log' = Append(log, e) /\ Len(log) \in Nat
      BY <1>1, <2>2 DEF JournalTypeOK, AppendEvent
    <3>2. CASE s \in DOMAIN log
      <4>1. log'[s] = log[s] /\ s \in Steps
        BY <2>2, <3>1, <3>2 DEF Of, Steps
      <4> QED
        BY <1>2, <4>1 DEF RuntimeInv, DecidedFromCuts, ObservedBy
    <3>3. CASE s = Len(log) + 1
      <4>1. log'[s] = e /\ e.kind = "step"
        BY <2>2, <3>1, <3>3 DEF Of
      <4>2. IsFromCut(log, e.request)
        BY <2>2, <4>1 DEF RuntimeInv, DecidedFromCuts
      <4>3. e.request.frame.observed \in 0..Len(log)
        BY <4>2 DEF IsFromCut
      <4> QED
        BY <1>2, <3>1, <3>3, <4>1, <4>2, <4>3 DEF ObservedBy
    <3> QED
      BY <2>2, <3>1, <3>2, <3>3 DEF Of
  <2> QED
    BY <1>1, <2>1, <2>2, StepsAreLeased
<1> QED
  BY <1>6, <1>7, <1>8, <1>9 DEF DecidedFromCuts, Steps

\* RuntimeInv holds at first.
LEMMA RuntimeInvInit == RuntimeInit => RuntimeInv
<1> SUFFICES ASSUME RuntimeInit PROVE RuntimeInv
  OBVIOUS
<1>1. JournalInv
  BY JournalInvInit DEF RuntimeInit
<1>2. ProcessTypeOK
  <2>1. advancing \in
          [pc : {"idle", "frozen", "claimed", "deciding", "committed", "dispatching"},
           request : Requests \cup {NoRequest}, lease : Nat, cancelRequested : BOOLEAN]
    BY DEF RuntimeInit, IdleAdvance
  <2>2. cancelling \in
          [pc : {"idle", "look", "active", "await", "read", "frame", "steps", "interrupt"},
           trigger : Positions \cup {None}, lease : Nat, steps : SUBSET Positions]
    BY DEF RuntimeInit, IdleCancel
  <2>3. starting \in [Callers -> SUBSET Starts] /\ grantOwes \in BOOLEAN
        /\ running \in SUBSET Positions
    BY DEF RuntimeInit
  <2>4. cancels \in 0..MaxCancels /\ faults \in 0..MaxFaults
    BY RuntimeBoundAssumption DEF RuntimeInit
  <2> QED
    BY <2>1, <2>2, <2>3, <2>4 DEF ProcessTypeOK
<1>3. DecidedFromCuts
  BY DEF RuntimeInit, JournalInit, DecidedFromCuts, IdleAdvance, Steps, Of
<1> QED
  BY <1>1, <1>2, <1>3 DEF RuntimeInv

\* and every step keeps it.
LEMMA RuntimeInvStep ==
  FrameData = Frames /\ RuntimeInv /\ [RuntimeNext]_runtimeVars => RuntimeInv'
<1> SUFFICES ASSUME FrameData = Frames, RuntimeInv, [RuntimeNext]_runtimeVars PROVE RuntimeInv'
  OBVIOUS
<1>1. JournalInv'
  BY RuntimeStepIsJournalStep, JournalInvStep DEF RuntimeInv
<1>2. ProcessTypeOK'
  BY AdvancingTyped, CancellingTyped, DispatchTyped DEF ProcessTypeOK
<1> QED
  BY <1>1, <1>2, CutsStep DEF RuntimeInv

\* The invariant of the Runtime, for frames as the projection makes them.
THEOREM RuntimeInvHolds ==
  ASSUME FrameData = Frames
  PROVE  RuntimeSpec => []RuntimeInv
<1>1. RuntimeInit => RuntimeInv
  BY RuntimeInvInit
<1>2. RuntimeInv /\ [RuntimeNext]_runtimeVars => RuntimeInv'
  BY RuntimeInvStep
<1> QED
  BY <1>1, <1>2, PTL DEF RuntimeSpec

\* The coroutines keep what they hold in the types they are modelled with: in
\* particular no frame, however late it is used, points outside the log's bound.
THEOREM RuntimeTypeCorrect ==
  ASSUME FrameData = Frames
  PROVE  RuntimeSpec => []RuntimeTypeOK
<1>1. RuntimeInv => RuntimeTypeOK
  BY DEF RuntimeInv, JournalInv, ProcessTypeOK, RuntimeTypeOK
<1> QED
  BY <1>1, RuntimeInvHolds, PTL

\* Every step of the Runtime is a transaction the Journal allows, or leaves the
\* Journal alone: what is proved of the Journal under any callers holds of it here.
THEOREM RuntimeUsesJournal ==
  ASSUME FrameData = Frames
  PROVE  RuntimeSpec => JournalSpec
<1>1. RuntimeInit => JournalInit
  BY DEF RuntimeInit
<1>2. RuntimeInv /\ [RuntimeNext]_runtimeVars => [JournalNext]_journalVars
  BY RuntimeStepIsJournalStep
<1> QED
  BY <1>1, <1>2, RuntimeInvHolds, PTL DEF RuntimeSpec, JournalSpec

\* Whatever was claimed, taken over, lost or cancelled meanwhile, every committed
\* step is for the decision that was next, and with the frame it had, in a prefix
\* of the log that ends before the step (runtime.py, _advance_once: snapshot,
\* project, acquire, decide, commit).
THEOREM DecisionsAreFromCuts ==
  ASSUME FrameData = Frames
  PROVE  RuntimeSpec => []DecidedFromCuts
<1>1. RuntimeInv => DecidedFromCuts
  BY DEF RuntimeInv
<1> QED
  BY <1>1, RuntimeInvHolds, PTL

-------------------------------------------------------------------------------
\* What follows for the steps in the log: each is about a cut in which its trigger
\* was next.

\* The cut step t was decided in.
CutOf(t) == SubSeq(log, 1, ObservedBy(log, t))

\* A cut has the log's events, and the step its projection's next frame.
LEMMA CutIsLog ==
  ASSUME FrameData = Frames, RuntimeInv, NEW t \in Steps, NEW cut, cut = CutOf(t)
  PROVE  /\ IsLog(cut)
         /\ ~Projection(cut).raised
         /\ Projection(cut).next = log[t].request.trigger
         /\ Projection(cut).next # None
         /\ Projection(cut).next \in DOMAIN cut
         /\ Projection(cut).frame = log[t].request.frame
         /\ \A i : i \in DOMAIN cut <=> i \in DOMAIN log /\ i <= ObservedBy(log, t)
         /\ \A i \in DOMAIN cut : cut[i] = log[i]
         /\ ObservedBy(log, t) \in Nat
<1>1. JournalTypeOK /\ IsFromCut(log, log[t].request)
  BY DEF RuntimeInv, JournalInv, DecidedFromCuts
<1>2. log \in Seq(Events) /\ Len(log) <= MaxEvents /\ Len(log) \in Nat /\ IsLog(log)
  BY <1>1, LogIsLog DEF JournalTypeOK
<1>3. PICK n : n = ObservedBy(log, t)
  OBVIOUS
<1>4. n \in 0..Len(log) /\ n \in Nat
  BY <1>1, <1>2, <1>3 DEF IsFromCut, ObservedBy
<1>5. cut = SubSeq(log, 1, n)
  BY <1>3 DEF CutOf
<1>6. cut \in Seq(Events) /\ Len(cut) = n /\ \A i \in 1..n : cut[i] = log[i]
  BY <1>2, <1>4, <1>5
<1>7. DOMAIN cut = 1..n /\ DOMAIN log = 1..Len(log)
  BY <1>2, <1>6
<1>8. IsLog(cut)
  <2>1. Len(cut) <= MaxEvents
    BY <1>2, <1>4, <1>6, BoundAssumption
  <2>2. ASSUME NEW s \in Of(cut, "step")
        PROVE  ObservedBy(cut, s) \in Nat
    <3>1. cut[s] = log[s] /\ s \in Of(log, "step")
      BY <1>2, <1>4, <1>6, <1>7 DEF Of
    <3> QED
      BY <1>2, <3>1 DEF IsLog, ObservedBy
  <2> QED
    BY <1>6, <2>1, <2>2 DEF IsLog
<1>9. /\ ~Projection(cut).raised
      /\ log[t].request = [trigger |-> Projection(cut).next, frame |-> Projection(cut).frame]
      /\ log[t].request.trigger # None
  <2>1. n = log[t].request.frame.observed
    BY <1>3 DEF ObservedBy
  <2> QED
    BY <1>1, <1>5, <2>1 DEF IsFromCut
<1>10. \A i : i \in DOMAIN cut <=> i \in DOMAIN log /\ i <= n
  BY <1>2, <1>4, <1>7
<1>11. /\ log[t].request.trigger = Projection(cut).next
       /\ log[t].request.frame = Projection(cut).frame
       /\ Projection(cut).next # None
  BY <1>9
<1>12. Projection(cut).next \in DOMAIN cut
  BY <1>8, <1>11, FrameTyped
<1> QED
  BY <1>3, <1>4, <1>6, <1>7, <1>8, <1>9, <1>10, <1>11, <1>12

\* A frame shows nothing but its basis.
LEMMA BasisIsFrame ==
  ASSUME FrameData = Frames, RuntimeInv, NEW t \in Steps, NEW o, FrameShows(CutOf(t), o)
  PROVE  o \in BasisOf(t)
<1>1. PICK cut : cut = CutOf(t)
  OBVIOUS
<1>2. Projection(cut).frame = log[t].request.frame
  BY <1>1, CutIsLog
<1>3. PICK n \in DOMAIN log[t].request.frame.basis : log[t].request.frame.basis[n] = o
  BY <1>1, <1>2 DEF FrameShows
<1> QED
  BY <1>3 DEF BasisOf

\* A command has one step, one attempt and one outcome, and a trigger one step.
LEMMA OneEach ==
  ASSUME RuntimeInv, NEW i \in DOMAIN log, NEW j \in DOMAIN log
  PROVE  /\ \A c \in Commands :
              /\ log[i].kind = "step" /\ c \in log[i].commands
              /\ log[j].kind = "step" /\ c \in log[j].commands
              => i = j
         /\ \A c \in Commands :
              /\ log[i].kind = "outcome" /\ log[i].command = c
              /\ log[j].kind = "outcome" /\ log[j].command = c
              => i = j
         /\ /\ log[i].kind = "step" /\ log[j].kind = "step"
            /\ log[i].request.trigger \in Positions
            /\ log[i].request.trigger = log[j].request.trigger
            => i = j
<1>1. JournalTypeOK /\ Bookkeeping
  BY DEF RuntimeInv, JournalInv
<1>2. i \in Positions /\ j \in Positions /\ Recorded(i) /\ Recorded(j)
  BY <1>1, LogDomain
<1>3. CommandRowsMatchLog /\ ConsumptionsMatchLog
  BY <1>1 DEF Bookkeeping
<1>4. ASSUME NEW c \in Commands
      PROVE  /\ Issues(i, c) /\ Issues(j, c) => i = j
             /\ IsAbout(i, "outcome", c) /\ IsAbout(j, "outcome", c) => i = j
  BY <1>2, <1>3 DEF CommandRowsMatchLog
<1>5. ASSUME NEW t \in Positions
      PROVE  Consumes(i, t) /\ Consumes(j, t) => i = j
  BY <1>2, <1>3 DEF ConsumptionsMatchLog
<1> QED
  BY <1>4, <1>5 DEF Issues, IsAbout, Consumes

\* The step s that t continues is in t's cut, and so is the result t is for.
LEMMA ContinuedStep ==
  ASSUME FrameData = Frames, RuntimeInv, NEW s \in Steps, NEW t \in Continuations(s),
         NEW cut, cut = CutOf(t), NEW o, o = log[t].request.trigger
  PROVE  /\ s \in Of(cut, "step") /\ cut[s] = log[s]
         /\ o \in DOMAIN cut /\ cut[o] = log[o]
         /\ log[o].kind = "outcome" /\ log[o].command \in log[s].commands
<1>1. t \in Steps /\ IsOutcomeOf(o, s)
  BY DEF Continuations
<1>2. /\ IsLog(cut) /\ ~Projection(cut).raised
      /\ o \in DOMAIN cut /\ o \in DOMAIN log /\ cut[o] = log[o]
      /\ \A i \in DOMAIN cut : i \in DOMAIN log /\ cut[i] = log[i]
  BY <1>1, CutIsLog
<1>3. log[o].kind = "outcome" /\ log[o].command \in log[s].commands
  BY <1>1 DEF IsOutcomeOf
<1>4. PICK issuer \in Of(cut, "step") : cut[o].command \in cut[issuer].commands
  BY <1>2, <1>3, IssuerIsInLog
<1>5. cut[o].command \in Commands
  BY <1>2, <1>3, EventTyped, EventFields DEF AboutCommand
<1>6. issuer \in DOMAIN log /\ log[issuer] = cut[issuer] /\ log[issuer].kind = "step"
  BY <1>2, <1>4 DEF Of
<1>7. s \in DOMAIN log /\ log[s].kind = "step"
  BY DEF Steps, Of
<1>8. issuer = s
  BY <1>2, <1>3, <1>4, <1>5, <1>6, <1>7, OneEach
<1> QED
  BY <1>2, <1>3, <1>4, <1>6, <1>8

\* What ResultFrame says of t's cut, said of the log.
LEMMA ContinuationFrame ==
  ASSUME FrameData = Frames, RuntimeInv, NEW s \in Steps, NEW t \in Continuations(s)
  PROVE  /\ log[log[t].request.trigger].command \in log[s].commands \ NoDecision
         /\ \A k \in StopsFor(log, s) : ObservedBy(log, t) < k
         /\ \A m \in ObservedBy(log, s) + 1..ObservedBy(log, t) : ~IsExternalDecisionFact(log, m)
         /\ \A d \in log[s].commands \ NoDecision :
              \E o \in BasisOf(t) :
                /\ o \in DOMAIN log /\ log[o].kind = "outcome" /\ log[o].command = d
                /\ o <= log[t].request.trigger
<1>1. PICK cut : cut = CutOf(t)
  OBVIOUS
<1>2. PICK o : o = log[t].request.trigger
  OBVIOUS
<1>3. t \in Steps
  BY DEF Continuations
<1>4. /\ IsLog(cut) /\ ~Projection(cut).raised
      /\ Projection(cut).next = o /\ Projection(cut).next # None
      /\ \A i : i \in DOMAIN cut <=> i \in DOMAIN log /\ i <= ObservedBy(log, t)
      /\ \A i \in DOMAIN cut : cut[i] = log[i]
      /\ ObservedBy(log, t) \in Nat
  BY <1>1, <1>2, <1>3, CutIsLog
<1>5. /\ s \in Of(cut, "step") /\ cut[s] = log[s]
      /\ o \in DOMAIN cut /\ cut[o] = log[o]
      /\ log[o].kind = "outcome" /\ log[o].command \in log[s].commands
  BY <1>1, <1>2, ContinuedStep
<1>6. /\ cut[o].command \notin NoDecision
      /\ StopsFor(cut, s) = {}
      /\ \A i \in DOMAIN cut : i > ObservedBy(cut, s) => ~IsExternalDecisionFact(cut, i)
      /\ \A d \in cut[s].commands \ NoDecision :
           \E i \in DOMAIN cut :
             cut[i].kind = "outcome" /\ cut[i].command = d /\ FrameShows(cut, i)
      /\ \A i \in DOMAIN cut :
           cut[i].kind = "outcome" /\ cut[i].command \in cut[s].commands \ NoDecision => i <= o
  BY <1>4, <1>5, ResultFrame
<1>7. JournalTypeOK
  BY DEF RuntimeInv, JournalInv
<1>8. DOMAIN log = 1..Len(log) /\ Len(log) \in Nat
  BY <1>7 DEF JournalTypeOK
<1>9. ASSUME NEW k \in StopsFor(log, s)
      PROVE  ObservedBy(log, t) < k
  <2>1. k \in DOMAIN log /\ log[k].kind = "stop" /\ log[k].step = s /\ k \in Nat
    BY <1>8 DEF StopsFor, Of
  <2>2. k \notin DOMAIN cut
    <3>1. SUFFICES ASSUME k \in DOMAIN cut PROVE FALSE
      OBVIOUS
    <3>2. k \in StopsFor(cut, s)
      BY <1>4, <2>1, <3>1 DEF StopsFor, Of
    <3> QED
      BY <1>6, <3>2
  <2> QED
    BY <1>4, <2>1, <2>2
<1>10. ASSUME NEW m \in ObservedBy(log, s) + 1..ObservedBy(log, t)
       PROVE  ~IsExternalDecisionFact(log, m)
  <2>1. ObservedBy(cut, s) = ObservedBy(log, s) /\ ObservedBy(log, s) \in Nat
    BY <1>4, <1>5 DEF ObservedBy, IsLog
  <2>2. m \in Int /\ m > ObservedBy(cut, s) /\ m <= ObservedBy(log, t) /\ m >= 1
    BY <1>4, <2>1
  <2>3. m \in DOMAIN cut
    <3>1. o \in DOMAIN log
      BY <1>4, <1>5
    <3>2. DOMAIN cut = 1..ObservedBy(log, t)
      BY <1>1, <1>3, <1>4, <1>7, <1>8 DEF CutOf, JournalTypeOK
    <3> QED
      BY <2>2, <3>2
  <2> QED
    BY <1>4, <1>6, <2>2, <2>3 DEF IsExternalDecisionFact
<1>11. ASSUME NEW d \in log[s].commands \ NoDecision
       PROVE  \E i \in BasisOf(t) :
                /\ i \in DOMAIN log /\ log[i].kind = "outcome" /\ log[i].command = d
                /\ i <= o
  <2>1. PICK i \in DOMAIN cut :
          cut[i].kind = "outcome" /\ cut[i].command = d /\ FrameShows(cut, i)
    BY <1>5, <1>6
  <2>2. i \in BasisOf(t)
    BY <1>1, <1>3, <2>1, BasisIsFrame
  <2>3. i <= o
    BY <1>5, <1>6, <2>1
  <2> QED
    BY <1>4, <2>1, <2>2, <2>3
<1> QED
  BY <1>2, <1>5, <1>6, <1>9, <1>10, <1>11

\* No step continues another whose continuation it had observed to be stopped.
THEOREM StoppedStaysStopped ==
  ASSUME FrameData = Frames
  PROVE  RuntimeSpec => []StoppedIsNotResumed
<1>1. RuntimeInv => StoppedIsNotResumed
  BY ContinuationFrame DEF StoppedIsNotResumed
<1> QED
  BY <1>1, RuntimeInvHolds, PTL

\* A result on which a later external fact had arrived, as far as the step knew, is
\* not decided on by itself: the fact's own decision takes it over.
THEOREM ResultsAreTakenOver ==
  ASSUME FrameData = Frames
  PROVE  RuntimeSpec => []OldResultNeverRunsAlone
<1>1. RuntimeInv => OldResultNeverRunsAlone
  BY ContinuationFrame DEF OldResultNeverRunsAlone
<1> QED
  BY <1>1, RuntimeInvHolds, PTL

\* Two steps that continue the same one are the same: each has seen the result that
\* triggered the other, and is for a result no earlier than it.
LEMMA ContinuationIsUnique ==
  ASSUME FrameData = Frames, RuntimeInv, NEW s \in Steps,
         NEW t \in Continuations(s), NEW u \in Continuations(s)
  PROVE  t = u
<1>1. t \in DOMAIN log /\ log[t].kind = "step" /\ u \in DOMAIN log /\ log[u].kind = "step"
  BY DEF Continuations, Steps, Of
<1>2. PICK o : o = log[t].request.trigger
  OBVIOUS
<1>3. PICK p : p = log[u].request.trigger
  OBVIOUS
<1>4. JournalTypeOK
  BY DEF RuntimeInv, JournalInv
<1>5. log[t] \in Events /\ log[u] \in Events /\ DOMAIN log = 1..Len(log) /\ Len(log) \in Nat
  BY <1>1, <1>4 DEF JournalTypeOK
<1>6. o \in Positions /\ p \in Positions /\ o \in Nat /\ p \in Nat
  BY <1>1, <1>2, <1>3, <1>5, EventFields DEF Requests, Positions
<1>7. /\ o \in DOMAIN log /\ log[o].kind = "outcome" /\ log[o].command \in Commands
      /\ p \in DOMAIN log /\ log[p].kind = "outcome" /\ log[p].command \in Commands
  <2>1. log[o].kind = "outcome" /\ log[p].kind = "outcome"
    BY <1>2, <1>3 DEF Continuations, IsOutcomeOf
  <2>2. o \in DOMAIN log /\ p \in DOMAIN log
    BY <1>2, <1>3, CutIsLog DEF Continuations
  <2>3. log[o] \in Events /\ log[p] \in Events
    BY <1>4, <2>2 DEF JournalTypeOK
  <2> QED
    BY <2>1, <2>2, <2>3, EventFields DEF AboutCommand
<1>8. p <= o
  <2>1. log[p].command \in log[s].commands \ NoDecision
    BY <1>3, ContinuationFrame
  <2>2. PICK i \in DOMAIN log :
          log[i].kind = "outcome" /\ log[i].command = log[p].command /\ i <= o
    BY <1>2, <2>1, ContinuationFrame
  <2>3. i = p
    BY <1>7, <2>2, OneEach
  <2> QED
    BY <2>2, <2>3
<1>9. o <= p
  <2>1. log[o].command \in log[s].commands \ NoDecision
    BY <1>2, ContinuationFrame
  <2>2. PICK i \in DOMAIN log :
          log[i].kind = "outcome" /\ log[i].command = log[o].command /\ i <= p
    BY <1>3, <2>1, ContinuationFrame
  <2>3. i = o
    BY <1>7, <2>2, OneEach
  <2> QED
    BY <2>2, <2>3
<1>10. o = p
  BY <1>6, <1>8, <1>9
<1> QED
  BY <1>1, <1>2, <1>3, <1>6, <1>10, OneEach

\* The parallel commands of a step lead to at most one further step, and that one
\* has seen the outcome of each.
THEOREM GroupsAreDecidedOnce ==
  ASSUME FrameData = Frames
  PROVE  RuntimeSpec => []OneDecisionPerGroup
<1>1. ASSUME RuntimeInv, NEW s \in Steps
      PROVE  Cardinality(Continuations(s)) <= 1
  <2>1. CASE Continuations(s) = {}
    BY <2>1, FS_EmptySet
  <2>2. CASE Continuations(s) # {}
    <3>1. PICK t : t \in Continuations(s)
      BY <2>2
    <3>2. Continuations(s) = {t}
      BY <1>1, <3>1, ContinuationIsUnique
    <3> QED
      BY <3>2, FS_Singleton
  <2> QED
    BY <2>1, <2>2
<1>2. RuntimeInv => OneDecisionPerGroup
  BY <1>1, ContinuationFrame DEF OneDecisionPerGroup
<1> QED
  BY <1>2, RuntimeInvHolds, PTL

\* A step on an external fact was shown the outcome of each earlier command that had
\* been attempted when it looked.
LEMMA AwaitedResult ==
  ASSUME FrameData = Frames, RuntimeInv, NEW s \in Steps, NEW a \in Of(log, "attempt"),
         NEW issuer \in Steps,
         IsExternalDecisionFact(log, log[s].request.trigger),
         log[a].command \in log[issuer].commands,
         ObservedBy(log, issuer) < log[s].request.trigger,
         a <= ObservedBy(log, s)
  PROVE  \E o \in BasisOf(s) :
           o \in DOMAIN log /\ log[o].kind = "outcome" /\ log[o].attempt = a
<1>1. PICK cut : cut = CutOf(s)
  OBVIOUS
<1>2. PICK m : m = log[s].request.trigger
  OBVIOUS
<1>3. /\ IsLog(cut) /\ ~Projection(cut).raised
      /\ Projection(cut).next = m /\ Projection(cut).next # None
      /\ m \in DOMAIN cut
      /\ \A i : i \in DOMAIN cut <=> i \in DOMAIN log /\ i <= ObservedBy(log, s)
      /\ \A i \in DOMAIN cut : cut[i] = log[i]
  BY <1>1, <1>2, CutIsLog
<1>4. a \in DOMAIN cut /\ cut[a] = log[a] /\ cut[a].kind = "attempt"
  BY <1>3 DEF Of
<1>5. PICK other \in Of(cut, "step") : cut[a].command \in cut[other].commands
  BY <1>3, <1>4, IssuerIsInLog
<1>6. cut[a].command \in Commands
  BY <1>3, <1>4, EventTyped, EventFields DEF AboutCommand
<1>7. other = issuer
  <2>1. other \in DOMAIN log /\ log[other] = cut[other] /\ log[other].kind = "step"
    BY <1>3, <1>5 DEF Of
  <2>2. issuer \in DOMAIN log /\ log[issuer].kind = "step"
    BY DEF Steps, Of
  <2> QED
    BY <1>4, <1>5, <1>6, <2>1, <2>2, OneEach
<1>8. issuer \in Of(cut, "step") /\ cut[issuer] = log[issuer]
  BY <1>3, <1>5, <1>7 DEF Of
<1>9. IsExternalDecisionFact(cut, m) /\ ObservedBy(cut, issuer) < m
  BY <1>2, <1>3, <1>8 DEF IsExternalDecisionFact, ObservedBy
<1>10. a \in Of(cut, "attempt") /\ cut[a].command \in cut[issuer].commands
  BY <1>4, <1>5, <1>7 DEF Of
<1>11. PICK o \in DOMAIN cut :
         cut[o].kind = "outcome" /\ cut[o].attempt = a /\ FrameShows(cut, o)
  BY <1>3, <1>8, <1>9, <1>10, FactFrame
<1>12. o \in BasisOf(s)
  BY <1>1, <1>11, BasisIsFrame
<1> QED
  BY <1>3, <1>11, <1>12

\* A step on an external fact has seen the outcome of every command that decisions
\* before the fact had issued and that was attempted by then.
THEOREM FollowUpsAreAwaited ==
  ASSUME FrameData = Frames
  PROVE  RuntimeSpec => []FollowUpShowsResults
<1>1. RuntimeInv => FollowUpShowsResults
  BY AwaitedResult DEF FollowUpShowsResults
<1> QED
  BY <1>1, RuntimeInvHolds, PTL

-------------------------------------------------------------------------------
\* The projection's command states and the Journal's rows: two reductions of the
\* log that agree whatever the callers of the Journal do.

\* What ProjectionAgreesWithTables says of one command.
StateIsRow(state, row, attempts) ==
  /\ state.issued = row.issued
  /\ state.eligible = row.eligible
  /\ state.rejected = row.rejected
  /\ state.outcome = row.outcome
  /\ attempts = {state.attempt} \ {None}

StatesAreRows ==
  /\ Operational(log) \in Views
  /\ ~Operational(log).raised
  /\ \A c \in Commands :
       StateIsRow(Operational(log).commands[c], commandRows[c], AttemptsOf(c))

\* The first part of Indexable, which is not a function of the tables.
TargetsPrecede ==
  /\ \A s \in Of(log, "step") : log[s].request.trigger < s
  /\ \A k \in Of(log, "cancel") : log[k].trigger < k
  /\ \A k \in Of(log, "stop") : log[k].step < k /\ log[log[k].step].kind = "step"

AgreeInv == JournalInv /\ StatesAreRows /\ TargetsPrecede

\* The operational view after one more event.
LEMMA ViewAppends ==
  ASSUME JournalTypeOK, NEW e \in Events, AppendEvent(e)
  PROVE  /\ Operational(log') = ApplyEvent(Operational(log), log', NextPosition)
         /\ log'[NextPosition] = e /\ NextPosition \in Positions
<1>1. log \in Seq(Events) /\ log' = Append(log, e)
  BY DEF JournalTypeOK, AppendEvent
<1>2. Operational(Append(log, e)) = ApplyEvent(Operational(log), Append(log, e), Len(log) + 1)
  BY <1>1, OperationalAppend
<1> QED
  BY <1>1, <1>2, AppendFacts DEF NextPosition

\* An event that is about no command changes no command.
LEMMA ViewAfterOther ==
  ASSUME JournalTypeOK, NEW view, view = Operational(log), view \in Views, ~view.raised,
         NEW e \in Events, AppendEvent(e), e.kind # "step", ~AboutCommand(e)
  PROVE  LET after == Operational(log') IN
         after \in Views /\ ~after.raised /\ after.commands = view.commands
<1>1. Operational(log') = Show(view, NextPosition) /\ NextPosition \in Positions
  BY ViewAppends DEF ApplyEvent, ApplyRegular
<1> QED
  BY <1>1, ShowShows

\* An applicable event changes the command it is about.
LEMMA ViewAfterCommand ==
  ASSUME JournalTypeOK, NEW view, view = Operational(log), view \in Views, ~view.raised,
         NEW e \in Events, AppendEvent(e), AboutCommand(e),
         Applicable(e, view.commands[e.command]),
         NEW state \in CommandStates,
         state = Applied(e, NextPosition, view.commands[e.command])
  PROVE  LET after == Operational(log') IN
         /\ after \in Views /\ ~after.raised
         /\ after.commands = [view.commands EXCEPT ![e.command] = state]
<1>1. PICK told : told = [view EXCEPT !.commands[e.command] = state]
  OBVIOUS
<1>2. told \in Views /\ ~told.raised /\ told.commands = [view.commands EXCEPT ![e.command] = state]
  BY <1>1 DEF Views
<1>3. Operational(log') = Show(told, NextPosition) /\ NextPosition \in Positions
  BY <1>1, ViewAppends DEF ApplyEvent, ApplyRegular, AboutCommand
<1> QED
  BY <1>2, <1>3, ShowShows

\* A step issues its commands, if none was known.
LEMMA ViewAfterStep ==
  ASSUME JournalTypeOK, NEW view, view = Operational(log), view \in Views, ~view.raised,
         NEW e \in Events, AppendEvent(e), e.kind = "step",
         \A c \in e.commands : view.commands[c].issued = None
  PROVE  LET after == Operational(log') IN
         /\ after \in Views /\ ~after.raised
         /\ \A c \in Commands :
              after.commands[c] = IF c \in e.commands THEN Issued(c, NextPosition)
                                  ELSE view.commands[c]
<1>1. PICK i : i = NextPosition
  OBVIOUS
<1>2. PICK told : told = [view EXCEPT !.commands =
                            [c \in Commands |-> IF c \in e.commands THEN Issued(c, i) ELSE @[c]]]
  OBVIOUS
<1>3. i \in Positions /\ log'[i] = e /\ Operational(log') = ApplyEvent(view, log', i)
  BY <1>1, ViewAppends
<1>4. \A c \in Commands : Issued(c, i) \in CommandStates
  BY <1>3 DEF Issued, UnissuedCommand, CommandStates
<1>5. /\ told \in Views /\ ~told.raised
      /\ told.commands = [c \in Commands |-> IF c \in e.commands THEN Issued(c, i)
                                              ELSE view.commands[c]]
  BY <1>2, <1>4 DEF Views
<1>6. Operational(log') = Show(told, i)
  BY <1>2, <1>3 DEF ApplyEvent, ApplyStep, Known
<1>7. /\ Operational(log') \in Views /\ ~Operational(log').raised
      /\ Operational(log').commands = told.commands
  BY <1>3, <1>5, <1>6, ShowShows
<1> QED
  BY <1>1, <1>5, <1>7

\* Transactions that write about no command.
LEMMA OtherEventsAgree ==
  ASSUME JournalTypeOK, StatesAreRows, NEW e \in Events, AppendEvent(e),
         e.kind \in {"fact", "cancel", "stop"}, UNCHANGED <<commandRows, attemptRows>>
  PROVE  StatesAreRows'
<1>1. PICK view : view = Operational(log)
  OBVIOUS
<1>2. view \in Views /\ ~view.raised
  BY <1>1 DEF StatesAreRows
<1>3. e.kind # "step" /\ ~AboutCommand(e)
  BY DEF AboutCommand
<1>4. /\ Operational(log') \in Views /\ ~Operational(log').raised
      /\ Operational(log').commands = view.commands
  BY <1>1, <1>2, <1>3, ViewAfterOther
<1>5. \A c \in Commands : commandRows'[c] = commandRows[c] /\ AttemptsOf(c)' = AttemptsOf(c)
  BY DEF AttemptsOf
<1> QED
  BY <1>1, <1>4, <1>5 DEF StatesAreRows

\* A step's commands are issued in both.
LEMMA CommitAgrees ==
  ASSUME JournalInv, StatesAreRows, NEW l \in Leases, NEW cs \in SUBSET Commands, CommitStep(l, cs)
  PROVE  StatesAreRows'
<1>0. JournalTypeOK /\ Bookkeeping
  BY DEF JournalInv
<1>1. PICK view : view = Operational(log)
  OBVIOUS
<1>2. view \in Views /\ ~view.raised
  BY <1>1 DEF StatesAreRows
<1>3. PICK e : e = [kind |-> "step", request |-> l.request, commands |-> cs]
  OBVIOUS
<1>4. e \in Events /\ AppendEvent(e) /\ e.kind = "step" /\ e.commands = cs
  <2>1. l.request \in Requests
    BY DEF Leases
  <2> QED
    BY <1>3, <2>1, EventsTyped DEF CommitStep
<1>5. \A c \in cs : commandRows[c].issued = None /\ AttemptsOf(c) = {}
  BY <1>0, UnissuedIsUnknown DEF CommitStep
<1>6. \A c \in e.commands : view.commands[c].issued = None
  BY <1>1, <1>4, <1>5 DEF StatesAreRows, StateIsRow
<1>7. /\ Operational(log') \in Views /\ ~Operational(log').raised
      /\ \A c \in Commands :
           Operational(log').commands[c] = IF c \in cs THEN Issued(c, NextPosition)
                                           ELSE view.commands[c]
  BY <1>0, <1>1, <1>2, <1>4, <1>6, ViewAfterStep
<1>8. ASSUME NEW c \in Commands
      PROVE  StateIsRow(Operational(log').commands[c], commandRows'[c], AttemptsOf(c)')
  <2>1. AttemptsOf(c)' = AttemptsOf(c)
    BY DEF CommitStep, AttemptsOf
  <2>2. commandRows'[c] = IF c \in cs THEN IssuedRow(c, NextPosition) ELSE commandRows[c]
    BY DEF CommitStep
  <2>3. CASE c \in cs
    <3>1. Operational(log').commands[c] = Issued(c, NextPosition)
      BY <1>7, <2>3
    <3>2. StateIsRow(Issued(c, NextPosition), IssuedRow(c, NextPosition), {})
      BY DEF StateIsRow, Issued, UnissuedCommand, IssuedRow, NoCommandRow
    <3> QED
      BY <1>5, <2>1, <2>2, <2>3, <3>1, <3>2
  <2>4. CASE c \notin cs
    BY <1>1, <1>7, <2>1, <2>2, <2>4 DEF StatesAreRows
  <2> QED
    BY <2>3, <2>4
<1> QED
  BY <1>7, <1>8 DEF StatesAreRows

\* An event about a command changes its state as its row is changed.
LEMMA CommandEventAgrees ==
  ASSUME JournalInv, StatesAreRows, NEW e \in Events, AppendEvent(e), AboutCommand(e),
         NEW c \in Commands, c = e.command,
         Applicable(e, Operational(log).commands[c]),
         Applied(e, NextPosition, Operational(log).commands[c]) \in CommandStates,
         \A d \in Commands \ {c} : commandRows'[d] = commandRows[d] /\ AttemptsOf(d)' = AttemptsOf(d),
         StateIsRow(Applied(e, NextPosition, Operational(log).commands[c]),
                    commandRows'[c], AttemptsOf(c)')
  PROVE  StatesAreRows'
<1>1. PICK view : view = Operational(log)
  OBVIOUS
<1>2. view \in Views /\ ~view.raised /\ JournalTypeOK
  BY <1>1 DEF StatesAreRows, JournalInv
<1>3. PICK state : state = Applied(e, NextPosition, view.commands[c])
  OBVIOUS
<1>4. /\ Operational(log') \in Views /\ ~Operational(log').raised
      /\ Operational(log').commands = [view.commands EXCEPT ![c] = state]
  BY <1>1, <1>2, <1>3, ViewAfterCommand
<1>5. view.commands \in [Commands -> CommandStates]
  BY <1>2 DEF Views
<1>6. ASSUME NEW d \in Commands
      PROVE  StateIsRow(Operational(log').commands[d], commandRows'[d], AttemptsOf(d)')
  <2>1. CASE d = c
    <3>1. Operational(log').commands[d] = state
      BY <1>4, <1>5, <2>1
    <3> QED
      BY <1>1, <1>3, <2>1, <3>1
  <2>2. CASE d # c
    <3>1. Operational(log').commands[d] = view.commands[d]
      BY <1>4, <1>5, <2>2
    <3> QED
      BY <1>1, <2>2, <3>1 DEF StatesAreRows
  <2> QED
    BY <2>1, <2>2
<1> QED
  BY <1>4, <1>6 DEF StatesAreRows

\* What a command's state is when its row is known.
LEMMA StateOfRow ==
  ASSUME StatesAreRows, NEW c \in Commands
  PROVE  LET state == Operational(log).commands[c] IN
         /\ state \in CommandStates
         /\ StateIsRow(state, commandRows[c], AttemptsOf(c))
         /\ AttemptsOf(c) = {} => state.attempt = None
BY DEF StatesAreRows, Views, StateIsRow

\* grant_command and reject_command
LEMMA VerdictAgrees ==
  ASSUME JournalInv, StatesAreRows, NEW c \in Commands, Grant(c) \/ Reject(c)
  PROVE  StatesAreRows'
<1>0. JournalTypeOK
  BY DEF JournalInv
<1>1. PICK state : state = Operational(log).commands[c]
  OBVIOUS
<1>2. /\ state \in CommandStates /\ StateIsRow(state, commandRows[c], AttemptsOf(c))
      /\ AttemptsOf(c) = {} => state.attempt = None
  BY <1>1, StateOfRow
<1>3. AwaitsVerdict(c) /\ attemptRows' = attemptRows
  BY DEF Grant, Reject
<1>4. PICK i : i = NextPosition
  OBVIOUS
<1>5. PICK kind \in {"grant", "reject"} :
        /\ AppendEvent([kind |-> kind, command |-> c, cause |-> commandRows[c].issued])
        /\ kind = "grant" => commandRows' = [commandRows EXCEPT ![c].eligible = i]
        /\ kind = "reject" => commandRows' = [commandRows EXCEPT ![c].rejected = i]
  BY <1>4 DEF Grant, Reject
<1>6. PICK e : e = [kind |-> kind, command |-> c, cause |-> commandRows[c].issued]
  OBVIOUS
<1>7. commandRows[c].issued \in Positions /\ commandRows[c] \in CommandRows
  BY <1>0, <1>3 DEF AwaitsVerdict, JournalTypeOK, CommandRows
<1>8. e \in Events /\ AppendEvent(e) /\ e.kind = kind /\ e.command = c /\ AboutCommand(e)
  BY <1>5, <1>6, <1>7, EventsTyped DEF AboutCommand
<1>9. i \in Positions
  BY <1>0, <1>4, <1>8, AppendFacts DEF JournalTypeOK
<1>10. Applicable(e, state)
  BY <1>2, <1>3, <1>6, <1>8
     DEF Applicable, Unverdicted, Pending, Known, AwaitsVerdict, StateIsRow
<1>11. PICK told : told = Applied(e, i, state)
  OBVIOUS
<1>12. \/ kind = "grant" /\ told = [state EXCEPT !.eligible = i]
       \/ kind = "reject" /\ told = [state EXCEPT !.rejected = i]
  BY <1>8, <1>11 DEF Applied
<1>13. told \in CommandStates
  BY <1>2, <1>9, <1>12 DEF CommandStates
<1>14. \A d \in Commands : AttemptsOf(d)' = AttemptsOf(d)
  BY <1>3 DEF AttemptsOf
<1>15. \A d \in Commands \ {c} : commandRows'[d] = commandRows[d]
  BY <1>0, <1>5 DEF JournalTypeOK
<1>16. StateIsRow(told, commandRows'[c], AttemptsOf(c)')
  <2>1. CASE kind = "grant"
    <3>1. commandRows'[c] = [commandRows[c] EXCEPT !.eligible = i]
      BY <1>0, <1>5, <2>1 DEF JournalTypeOK
    <3>2. told = [state EXCEPT !.eligible = i]
      BY <1>12, <2>1
    <3> QED
      BY <1>2, <1>7, <1>14, <3>1, <3>2 DEF StateIsRow, CommandStates, CommandRows
  <2>2. CASE kind = "reject"
    <3>1. commandRows'[c] = [commandRows[c] EXCEPT !.rejected = i]
      BY <1>0, <1>5, <2>2 DEF JournalTypeOK
    <3>2. told = [state EXCEPT !.rejected = i]
      BY <1>12, <2>2
    <3> QED
      BY <1>2, <1>7, <1>14, <3>1, <3>2 DEF StateIsRow, CommandStates, CommandRows
  <2> QED
    BY <2>1, <2>2
<1> QED
  BY <1>1, <1>4, <1>8, <1>10, <1>11, <1>13, <1>14, <1>15, <1>16, CommandEventAgrees

\* start_attempt
LEMMA StartAgrees ==
  ASSUME JournalInv, StatesAreRows,
         NEW c \in Commands, NEW cause \in Positions, NEW n \in 1..2, StartAttempt(c, cause, n)
  PROVE  StatesAreRows'
<1>0. JournalTypeOK /\ Bookkeeping
  BY DEF JournalInv
<1>1. PICK state : state = Operational(log).commands[c]
  OBVIOUS
<1>2. /\ state \in CommandStates /\ StateIsRow(state, commandRows[c], AttemptsOf(c))
      /\ AttemptsOf(c) = {} => state.attempt = None
  BY <1>1, StateOfRow
<1>3. PICK i : i = NextPosition
  OBVIOUS
<1>4. /\ Startable(c, cause, n)
      /\ attemptRows' = [attemptRows EXCEPT ![i] =
                           [command |-> c, number |-> n, held |-> TRUE, terminal |-> None]]
      /\ commandRows' = [commandRows EXCEPT ![c] = Started(@)]
  BY <1>3 DEF StartAttempt
<1>5. PICK e : e = [kind |-> "attempt", command |-> c, number |-> n, cause |-> cause]
  OBVIOUS
<1>6. e \in Events /\ AppendEvent(e) /\ e.kind = "attempt" /\ e.command = c /\ AboutCommand(e)
  BY <1>5, EventsTyped DEF AboutCommand, StartAttempt
<1>7. i \in Positions /\ ~Recorded(i) /\ i # None
  BY <1>0, <1>3, <1>6, RecordedAfterAppend
<1>8. AttemptsOf(c) = {} /\ n = 1
  <2>1. AttemptsOf(c) = {}
    BY <1>0, <1>4, EligibleIsUnattempted DEF Startable
  <2> QED
    BY <1>4, <2>1, FS_EmptySet DEF Startable
<1>9. Applicable(e, state)
  BY <1>2, <1>4, <1>5, <1>8 DEF Applicable, Pending, Known, Startable, StateIsRow
<1>10. PICK told : told = Applied(e, i, state)
  OBVIOUS
<1>11. told = [state EXCEPT !.attempt = i, !.eligible = None]
  BY <1>6, <1>10 DEF Applied
<1>12. told \in CommandStates
  BY <1>2, <1>7, <1>11 DEF CommandStates
<1>13. /\ commandRows[c] \in CommandRows
       /\ commandRows'[c] = [commandRows[c] EXCEPT !.eligible = None]
       /\ \A d \in Commands \ {c} : commandRows'[d] = commandRows[d]
  BY <1>0, <1>4 DEF JournalTypeOK, Started
<1>14. \A a \in Positions : attemptRows'[a].command = IF a = i THEN c ELSE attemptRows[a].command
  BY <1>0, <1>4, <1>7 DEF JournalTypeOK
<1>15. \A d \in Commands : attemptRows[i].command # d
  BY <1>0, <1>7 DEF Bookkeeping, AttemptRowsMatchLog
<1>16. AttemptsOf(c)' = {i} /\ \A d \in Commands \ {c} : AttemptsOf(d)' = AttemptsOf(d)
  BY <1>7, <1>8, <1>14, <1>15 DEF AttemptsOf
<1>17. StateIsRow(told, commandRows'[c], AttemptsOf(c)')
  BY <1>2, <1>7, <1>11, <1>13, <1>16 DEF StateIsRow, CommandStates, CommandRows
<1> QED
  BY <1>1, <1>3, <1>6, <1>9, <1>10, <1>12, <1>13, <1>16, <1>17, CommandEventAgrees

\* record_attempt_fact
LEMMA OutcomeAgrees ==
  ASSUME JournalInv, StatesAreRows,
         NEW a \in Positions, NEW result \in Results, RecordOutcome(a, result)
  PROVE  StatesAreRows'
<1>0. JournalTypeOK /\ Bookkeeping
  BY DEF JournalInv
<1>1. PICK c : c = attemptRows[a].command
  OBVIOUS
<1>2. /\ c \in Commands /\ commandRows[c].issued # None
      /\ commandRows[c].outcome = None /\ commandRows[c].eligible = None
  BY <1>0, <1>1, UnendedAttempt DEF RecordOutcome
<1>3. PICK state : state = Operational(log).commands[c]
  OBVIOUS
<1>4. state \in CommandStates /\ StateIsRow(state, commandRows[c], AttemptsOf(c))
  BY <1>2, <1>3, StateOfRow
<1>5. PICK i : i = NextPosition
  OBVIOUS
<1>6. /\ attemptRows' = [attemptRows EXCEPT ![a].terminal = i, ![a].held = FALSE]
      /\ commandRows' = [commandRows EXCEPT ![c] = Concluded(@, i)]
  BY <1>1, <1>5 DEF RecordOutcome
<1>7. PICK e : e = [kind |-> "outcome", command |-> c, attempt |-> a, result |-> result]
  OBVIOUS
<1>8. /\ e \in Events /\ AppendEvent(e) /\ e.kind = "outcome" /\ e.command = c /\ e.attempt = a
      /\ AboutCommand(e)
  BY <1>1, <1>2, <1>7, EventsTyped DEF AboutCommand, RecordOutcome
<1>9. i \in Positions /\ i # None
  BY <1>0, <1>5, <1>8, RecordedAfterAppend
<1>10. state.attempt = a
  BY <1>1, <1>4 DEF StateIsRow, AttemptsOf
<1>11. Applicable(e, state)
  BY <1>2, <1>4, <1>8, <1>10 DEF Applicable, Known, Terminal, StateIsRow
<1>12. PICK told : told = Applied(e, i, state)
  OBVIOUS
<1>13. told = [state EXCEPT !.outcome = i, !.eligible = None]
  BY <1>8, <1>12 DEF Applied
<1>14. told \in CommandStates
  BY <1>4, <1>9, <1>13 DEF CommandStates
<1>15. /\ commandRows[c] \in CommandRows
       /\ commandRows'[c] = [commandRows[c] EXCEPT !.outcome = i, !.eligible = None]
       /\ \A d \in Commands \ {c} : commandRows'[d] = commandRows[d]
  BY <1>0, <1>2, <1>6 DEF JournalTypeOK, Concluded
<1>16. \A b \in Positions : attemptRows'[b].command = attemptRows[b].command
  BY <1>0, <1>6 DEF JournalTypeOK, AttemptRows
<1>17. \A d \in Commands : AttemptsOf(d)' = AttemptsOf(d)
  BY <1>16 DEF AttemptsOf
<1>18. StateIsRow(told, commandRows'[c], AttemptsOf(c)')
  BY <1>2, <1>4, <1>13, <1>15, <1>17 DEF StateIsRow, CommandStates, CommandRows
<1>19. /\ c \in Commands /\ e \in Events /\ AppendEvent(e) /\ AboutCommand(e) /\ c = e.command
       /\ Applicable(e, Operational(log).commands[c])
       /\ told = Applied(e, NextPosition, Operational(log).commands[c])
  BY <1>2, <1>3, <1>5, <1>8, <1>11, <1>12
<1>20. \A d \in Commands \ {c} : commandRows'[d] = commandRows[d] /\ AttemptsOf(d)' = AttemptsOf(d)
  BY <1>15, <1>17
<1> QED
  BY <1>14, <1>18, <1>19, <1>20, CommandEventAgrees

\* Every transaction keeps the two in agreement.
LEMMA StatesStep ==
  ASSUME JournalInv, StatesAreRows, [JournalNext]_journalVars
  PROVE  StatesAreRows'
<1>0. JournalTypeOK /\ Bookkeeping
  BY DEF JournalInv
<1>1. CASE UNCHANGED <<log, commandRows>> /\ \A c \in Commands : AttemptsOf(c)' = AttemptsOf(c)
  BY <1>1 DEF StatesAreRows
<1>2. CASE \E d \in Facts : AcceptDelivery(d)
  <2>1. PICK d \in Facts : AcceptDelivery(d)
    BY <1>2
  <2>2. PICK e : e = [kind |-> "fact", delivery |-> d]
    OBVIOUS
  <2>3. /\ e \in Events /\ AppendEvent(e) /\ e.kind \in {"fact", "cancel", "stop"}
        /\ UNCHANGED <<commandRows, attemptRows>>
    BY <2>1, <2>2, EventsTyped DEF AcceptDelivery
  <2> QED
    BY <1>0, <2>3, OtherEventsAgree
<1>3. CASE \E t \in Positions : CancelDecision(t)
  <2>1. PICK t \in Positions : CancelDecision(t)
    BY <1>3
  <2>2. PICK e : e = [kind |-> "cancel", trigger |-> t]
    OBVIOUS
  <2>3. /\ e \in Events /\ AppendEvent(e) /\ e.kind \in {"fact", "cancel", "stop"}
        /\ UNCHANGED <<commandRows, attemptRows>>
    BY <2>1, <2>2, EventsTyped DEF CancelDecision
  <2> QED
    BY <1>0, <2>3, OtherEventsAgree
<1>4. CASE \E s \in Positions : CancelContinuation(s)
  <2>1. PICK s \in Positions : CancelContinuation(s)
    BY <1>4
  <2>2. PICK e : e = [kind |-> "stop", step |-> s]
    OBVIOUS
  <2>3. /\ e \in Events /\ AppendEvent(e) /\ e.kind \in {"fact", "cancel", "stop"}
        /\ UNCHANGED <<commandRows, attemptRows>>
    BY <2>1, <2>2, EventsTyped DEF CancelContinuation
  <2> QED
    BY <1>0, <2>3, OtherEventsAgree
<1>5. CASE \E n \in 1..Len(leases), cs \in SUBSET Commands : CommitStep(leases[n].lease, cs)
  <2>1. PICK n \in 1..Len(leases), cs \in SUBSET Commands : CommitStep(leases[n].lease, cs)
    BY <1>5
  <2>2. leases[n].lease \in Leases
    BY <1>0, HandedOutLeasesTyped DEF JournalTypeOK
  <2> QED
    BY <2>1, <2>2, CommitAgrees
<1>6. CASE ClaimAction
  BY <1>1, <1>6 DEF ClaimAction, AcquireStep, ReleaseStep, RenewStep, ExpireStep, AttemptsOf
<1>7. CASE \E a \in Positions : ReleaseAttempt(a)
  <2>1. PICK a \in Positions : ReleaseAttempt(a)
    BY <1>7
  <2>2. \A b \in Positions : attemptRows'[b].command = attemptRows[b].command
    BY <1>0, <2>1 DEF ReleaseAttempt, JournalTypeOK, AttemptRows
  <2>3. \A c \in Commands : AttemptsOf(c)' = AttemptsOf(c)
    BY <2>2 DEF AttemptsOf
  <2> QED
    BY <1>1, <2>1, <2>3 DEF ReleaseAttempt
<1>8. CASE UNCHANGED journalVars
  BY <1>1, <1>8 DEF journalVars, AttemptsOf
<1> QED
  BY <1>2, <1>3, <1>4, <1>5, <1>6, <1>7, <1>8, VerdictAgrees, StartAgrees, OutcomeAgrees
     DEF JournalNext, DecisionAction, CommandAction

\* What an event names precedes it: the transaction found it in the tables.
LEMMA TargetsStep ==
  ASSUME JournalInv, TargetsPrecede, [JournalNext]_journalVars
  PROVE  TargetsPrecede'
<1>0. JournalTypeOK /\ Bookkeeping
  BY DEF JournalInv
<1>1. CASE log' = log
  BY <1>1 DEF TargetsPrecede
<1>2. ASSUME NEW e \in Events, AppendEvent(e),
             e.kind = "step" => Recorded(e.request.trigger),
             e.kind = "cancel" => Recorded(e.trigger),
             e.kind = "stop" => Recorded(e.step) /\ log[e.step].kind = "step"
      PROVE  TargetsPrecede'
  <2>1. /\ \A i \in DOMAIN log' : i \in DOMAIN log \/ i = NextPosition
        /\ \A i \in DOMAIN log : log'[i] = log[i] /\ i < NextPosition
        /\ log'[NextPosition] = e
        /\ \A i : Recorded(i) => i \in DOMAIN log
    <3>1. log \in Seq(Events) /\ log' = Append(log, e) /\ Len(log) \in Nat
      BY <1>0, <1>2 DEF JournalTypeOK, AppendEvent
    <3> QED
      BY <3>1 DEF NextPosition, Recorded
  <2>2. \A s \in Of(log', "step") : log'[s].request.trigger < s
    BY <1>2, <2>1 DEF Of, TargetsPrecede
  <2>3. \A k \in Of(log', "cancel") : log'[k].trigger < k
    BY <1>2, <2>1 DEF Of, TargetsPrecede
  <2>4. ASSUME NEW k \in Of(log', "stop")
        PROVE  log'[k].step < k /\ log'[log'[k].step].kind = "step"
    <3>1. CASE k \in DOMAIN log
      <4>1. log'[k] = log[k] /\ log[k].step < k /\ log[log[k].step].kind = "step"
        BY <2>1, <3>1 DEF Of, TargetsPrecede
      <4>2. log[k] \in Events /\ log[k].kind = "stop" /\ DOMAIN log = 1..Len(log) /\ Len(log) \in Nat
        BY <1>0, <2>1, <3>1 DEF Of, JournalTypeOK
      <4>3. log[k].step \in Positions
        BY <4>2, EventFields
      <4>4. log[k].step \in DOMAIN log
        BY <3>1, <4>1, <4>2, <4>3 DEF Positions
      <4> QED
        BY <2>1, <4>1, <4>4
    <3>2. CASE k = NextPosition
      BY <1>2, <2>1, <3>2 DEF Of
    <3> QED
      BY <2>1, <3>1, <3>2 DEF Of
  <2> QED
    BY <2>2, <2>3, <2>4 DEF TargetsPrecede
<1>3. CASE \E n \in 1..Len(leases), cs \in SUBSET Commands : CommitStep(leases[n].lease, cs)
  <2>1. PICK n \in 1..Len(leases), cs \in SUBSET Commands : CommitStep(leases[n].lease, cs)
    BY <1>3
  <2>2. PICK l : l = leases[n].lease
    OBVIOUS
  <2>3. l \in Leases /\ l.request \in Requests
    BY <1>0, <2>2, HandedOutLeasesTyped DEF JournalTypeOK, Leases
  <2>4. Recorded(l.request.trigger)
    BY <1>0, <2>1, <2>2 DEF CommitStep, Holds, Bookkeeping, ClaimIsNewest
  <2>5. PICK e : e = [kind |-> "step", request |-> l.request, commands |-> cs]
    OBVIOUS
  <2>6. e \in Events /\ AppendEvent(e) /\ e.kind = "step" /\ e.request = l.request
    BY <2>1, <2>2, <2>3, <2>5, EventsTyped DEF CommitStep
  <2> QED
    BY <1>2, <2>4, <2>6
<1>4. CASE \E t \in Positions : CancelDecision(t)
  <2>1. PICK t \in Positions : CancelDecision(t)
    BY <1>4
  <2>2. PICK e : e = [kind |-> "cancel", trigger |-> t]
    OBVIOUS
  <2>3. e \in Events /\ AppendEvent(e) /\ e.kind = "cancel" /\ Recorded(e.trigger)
    BY <2>1, <2>2, EventsTyped DEF CancelDecision
  <2> QED
    BY <1>2, <2>3
<1>5. CASE \E s \in Positions : CancelContinuation(s)
  <2>1. PICK s \in Positions : CancelContinuation(s)
    BY <1>5
  <2>2. PICK e : e = [kind |-> "stop", step |-> s]
    OBVIOUS
  <2>3. /\ e \in Events /\ AppendEvent(e) /\ e.kind = "stop" /\ e.step = s
        /\ s \in DOMAIN log /\ log[s].kind = "step"
    BY <2>1, <2>2, EventsTyped DEF CancelContinuation, Of
  <2> QED
    BY <1>0, <1>2, <2>3, LogDomain
<1>6. CASE \E d \in Facts : AcceptDelivery(d)
  <2>1. PICK d \in Facts : AcceptDelivery(d)
    BY <1>6
  <2>2. PICK e : e = [kind |-> "fact", delivery |-> d]
    OBVIOUS
  <2>3. e \in Events /\ AppendEvent(e) /\ e.kind = "fact"
    BY <2>1, <2>2, EventsTyped DEF AcceptDelivery
  <2> QED
    BY <1>2, <2>3
<1>7. CASE \E c \in Commands : Grant(c) \/ Reject(c)
  <2>1. PICK c \in Commands : Grant(c) \/ Reject(c)
    BY <1>7
  <2>2. PICK kind \in {"grant", "reject"} :
          AppendEvent([kind |-> kind, command |-> c, cause |-> commandRows[c].issued])
    BY <2>1 DEF Grant, Reject
  <2>3. PICK e : e = [kind |-> kind, command |-> c, cause |-> commandRows[c].issued]
    OBVIOUS
  <2>4. commandRows[c].issued \in Positions
    BY <1>0, <2>1 DEF Grant, Reject, AwaitsVerdict, JournalTypeOK, CommandRows
  <2>5. e \in Events /\ AppendEvent(e) /\ e.kind \in {"grant", "reject"}
    BY <2>2, <2>3, <2>4, EventsTyped
  <2> QED
    BY <1>2, <2>5
<1>8. CASE \E c \in Commands, cause \in Positions, n \in 1..2 : StartAttempt(c, cause, n)
  <2>1. PICK c \in Commands, cause \in Positions, n \in 1..2 : StartAttempt(c, cause, n)
    BY <1>8
  <2>2. PICK e : e = [kind |-> "attempt", command |-> c, number |-> n, cause |-> cause]
    OBVIOUS
  <2>3. e \in Events /\ AppendEvent(e) /\ e.kind = "attempt"
    BY <2>1, <2>2, EventsTyped DEF StartAttempt
  <2> QED
    BY <1>2, <2>3
<1>9. CASE \E a \in Positions, result \in Results : RecordOutcome(a, result)
  <2>1. PICK a \in Positions, result \in Results : RecordOutcome(a, result)
    BY <1>9
  <2>2. PICK e : e = [kind |-> "outcome", command |-> attemptRows[a].command, attempt |-> a,
                      result |-> result]
    OBVIOUS
  <2>3. attemptRows[a].command \in Commands
    BY <1>0, <2>1, UnendedAttempt DEF RecordOutcome
  <2>4. e \in Events /\ AppendEvent(e) /\ e.kind = "outcome"
    BY <2>1, <2>2, <2>3, EventsTyped DEF RecordOutcome
  <2> QED
    BY <1>2, <2>4
<1>10. CASE ClaimAction \/ (\E a \in Positions : ReleaseAttempt(a)) \/ UNCHANGED journalVars
  BY <1>1, <1>10 DEF ClaimAction, AcquireStep, ReleaseStep, RenewStep, ExpireStep, ReleaseAttempt,
               journalVars
<1> QED
  BY <1>3, <1>4, <1>5, <1>6, <1>7, <1>8, <1>9, <1>10 DEF JournalNext, DecisionAction, CommandAction

\* A trigger is consumed once and a continuation stopped once, as the tables have it.
LEMMA IndexIsUnique ==
  ASSUME JournalInv, NEW i \in DOMAIN log
  PROVE  /\ Cardinality(StepsFor(log, i)) + Cardinality(CancelsFor(log, i)) <= 1
         /\ Cardinality(StopsFor(log, i)) <= 1
<1>1. JournalTypeOK /\ ConsumptionsMatchLog /\ StopsMatchLog
  BY DEF JournalInv, Bookkeeping
<1>2. /\ \A j \in DOMAIN log : j \in Positions /\ Recorded(j)
      /\ i \in Positions
  BY <1>1, LogDomain
<1>3. \A j \in StepsFor(log, i) \cup CancelsFor(log, i) : j = consumed[i]
  BY <1>1, <1>2 DEF StepsFor, CancelsFor, Of, ConsumptionsMatchLog, Consumes
<1>4. StepsFor(log, i) \cap CancelsFor(log, i) = {}
  BY DEF StepsFor, CancelsFor, Of
<1>5. \A j \in StopsFor(log, i) : j = stopped[i]
  BY <1>1, <1>2 DEF StopsFor, Of, StopsMatchLog
<1>6. ASSUME NEW S, NEW x, \A j \in S : j = x
      PROVE  \/ S = {} /\ Cardinality(S) = 0
             \/ S = {x} /\ Cardinality(S) = 1
  <2>1. S = {} \/ S = {x}
    BY <1>6
  <2> QED
    BY <2>1, FS_EmptySet, FS_Singleton
<1>7. \/ StepsFor(log, i) = {} /\ Cardinality(StepsFor(log, i)) = 0
      \/ StepsFor(log, i) = {consumed[i]} /\ Cardinality(StepsFor(log, i)) = 1
  BY <1>3, <1>6
<1>8. \/ CancelsFor(log, i) = {} /\ Cardinality(CancelsFor(log, i)) = 0
      \/ CancelsFor(log, i) = {consumed[i]} /\ Cardinality(CancelsFor(log, i)) = 1
  BY <1>3, <1>6
<1>9. Cardinality(StopsFor(log, i)) <= 1
  BY <1>5, <1>6
<1> QED
  BY <1>4, <1>7, <1>8, <1>9

\* The invariant behind that holds at first,
LEMMA AgreeInvInit == JournalInit => AgreeInv
<1> SUFFICES ASSUME JournalInit PROVE AgreeInv
  OBVIOUS
<1>1. JournalInv
  BY JournalInvInit
<1>2. log = << >> /\ log \in Seq(Events) /\ Len(log) = 0
  BY DEF JournalInit
<1>3. Operational(log) = EmptyView
  BY <1>2, OperationalIsChain
<1>4. EmptyView \in Views /\ ~EmptyView.raised /\
      \A c \in Commands : EmptyView.commands[c] = UnissuedCommand
  BY DEF EmptyView, Views, CommandStates, UnissuedCommand
<1>5. ASSUME NEW c \in Commands
      PROVE  StateIsRow(UnissuedCommand, commandRows[c], AttemptsOf(c))
  <2>1. AttemptsOf(c) = {} /\ commandRows[c] = NoCommandRow
    BY NoCommandAssumption DEF JournalInit, AttemptsOf, NoAttemptRow
  <2> QED
    BY <2>1 DEF StateIsRow, UnissuedCommand, NoCommandRow
<1>6. StatesAreRows
  BY <1>3, <1>4, <1>5 DEF StatesAreRows
<1>7. TargetsPrecede
  BY <1>2 DEF TargetsPrecede, Of
<1> QED
  BY <1>1, <1>6, <1>7 DEF AgreeInv

\* and every transaction keeps it.
LEMMA AgreeInvStep == AgreeInv /\ [JournalNext]_journalVars => AgreeInv'
BY JournalInvStep, StatesStep, TargetsStep DEF AgreeInv

\* The projection and the Journal's tables agree on every command, and every log
\* the Journal writes can be indexed, whoever calls it (state.py, project, against
\* sqlite.py, _index_event_tx).
THEOREM ProjectionIsJournal == JournalSpec => []ProjectionAgreesWithTables
<1>1. AgreeInv => ProjectionAgreesWithTables
  <2> SUFFICES ASSUME AgreeInv PROVE ProjectionAgreesWithTables
    OBVIOUS
  <2>1. Indexable(log)
    BY IndexIsUnique DEF AgreeInv, TargetsPrecede, Indexable
  <2>2. ~Operational(log).raised
    BY DEF AgreeInv, StatesAreRows
  <2>3. ASSUME NEW c \in Commands
        PROVE  StateIsRow(Operational(log).commands[c], commandRows[c], AttemptsOf(c))
    BY DEF AgreeInv, StatesAreRows
  <2> QED
    BY <2>1, <2>2, <2>3 DEF ProjectionAgreesWithTables, StateIsRow
<1> QED
  BY <1>1, AgreeInvInit, AgreeInvStep, PTL DEF JournalSpec

-------------------------------------------------------------------------------
\* No command that may run is left behind: advance and grant_command between them
\* read every one before they return.

\* The Journal would accept an attempt of c.
MayStart(c) ==
  /\ commandRows[c].issued # None
  /\ commandRows[c].eligible # None
  /\ commandRows[c].rejected = None

\* Somebody will read what may run and start it, or has read c and will start it.
LookedAt(c) ==
  \/ advancing.pc \in {"committed", "dispatching"}
  \/ grantOwes
  \/ \E caller \in Callers :
       [command |-> c, cause |-> commandRows[c].eligible] \in starting[caller]

\* Nothing has failed and nobody has cancelled anything.
Quiet == cancels = 0 /\ faults = 0

NobodyCancels == Quiet => cancelling.pc = "idle" /\ ~advancing.cancelRequested

StartsCovered ==
  Quiet /\ NeverRaised => \A c \in Commands : MayStart(c) => LookedAt(c)

\* The invariant.
StartInv == RuntimeInv /\ AgreeInv /\ NobodyCancels /\ StartsCovered

\* What may start has neither been attempted nor ended, so start_attempt accepts it.
LEMMA MayStartIsStartable ==
  ASSUME JournalInv, NEW c \in Commands, MayStart(c)
  PROVE  Startable(c, commandRows[c].eligible, 1) /\ AttemptsOf(c) = {}
<1>1. AttemptsOf(c) = {}
  BY EligibleIsUnattempted DEF JournalInv, MayStart
<1>2. commandRows[c].outcome = None
  <2> SUFFICES ASSUME commandRows[c].outcome # None PROVE FALSE
    OBVIOUS
  <2>1. PICK i \in Positions : commandRows[c].outcome = i
    BY DEF JournalInv, JournalTypeOK, CommandRows
  <2>2. Recorded(i) /\ log[i].kind = "outcome" /\ log[i].command = c
    BY <2>1 DEF JournalInv, Bookkeeping, CommandRowsMatchLog, IsAbout
  <2>3. log[i].attempt \in Positions
    BY <2>2, OutcomesTyped DEF JournalInv
  <2>4. attemptRows[log[i].attempt].command = c
    BY <2>2 DEF JournalInv, Bookkeeping, OutcomesEndAttempts
  <2> QED
    BY <1>1, <2>3, <2>4 DEF AttemptsOf
<1>3. Cardinality(AttemptsOf(c)) + 1 = 1
  BY <1>1, FS_EmptySet
<1> QED
  BY <1>1, <1>2, <1>3 DEF MayStart, Startable

\* A log with a projection at every length had one at every length before.
LEMMA NeverRaisedBefore ==
  ASSUME JournalInv, [JournalNext]_journalVars, NeverRaised'
  PROVE  NeverRaised /\ ~Projection(log).raised
<1>1. log \in Seq(Events) /\ Len(log) \in Nat /\ SubSeq(log, 1, Len(log)) = log
  BY DEF JournalInv, JournalTypeOK
<1>2. NeverRaised
  <2>1. CASE log' = log
    BY <2>1 DEF NeverRaised
  <2>2. CASE \E e \in Events : log' = Append(log, e)
    <3>1. PICK e \in Events : log' = Append(log, e)
      BY <2>2
    <3>2. ASSUME NEW n \in 0..Len(log)
          PROVE  n \in 0..Len(log') /\ SubSeq(log', 1, n) = SubSeq(log, 1, n)
      BY <1>1, <3>1
    <3> QED
      BY <3>2 DEF NeverRaised
  <2> QED
    BY <2>1, <2>2, StepsAreLeased DEF JournalInv, AppendEvent
<1>3. Len(log) \in 0..Len(log)
  BY <1>1
<1> QED
  BY <1>1, <1>2, <1>3 DEF NeverRaised

\* What the projection finds to start is what may start.
LEMMA PendingIsMayStart ==
  ASSUME RuntimeInv, AgreeInv
  PROVE  PendingStarts(Projection(log)) =
           {[command |-> c, cause |-> commandRows[c].eligible] : c \in {c \in Commands : MayStart(c)}}
<1>1. PICK p : p = Projection(log)
  OBVIOUS
<1>2. ASSUME NEW c \in Commands
      PROVE  StateIsRow(p.commands[c], commandRows[c], AttemptsOf(c))
  BY <1>1 DEF AgreeInv, StatesAreRows, Projection, Project, ProjectionOf
<1>3. ASSUME NEW c \in Commands, MayStart(c)
      PROVE  c \notin RunningCommands /\ Pending(p.commands[c])
  <2>1. AttemptsOf(c) = {}
    BY <1>3, MayStartIsStartable DEF RuntimeInv
  <2>2. c \notin RunningCommands
    BY <2>1 DEF RunningCommands, AttemptsOf, RuntimeInv, ProcessTypeOK
  <2> QED
    BY <1>2, <1>3, <2>1, <2>2 DEF StateIsRow, Pending, Known, MayStart
<1>4. ASSUME NEW c \in Commands
      PROVE  /\ c \notin RunningCommands
             /\ Pending(p.commands[c])
             /\ p.commands[c].eligible # None
             /\ p.commands[c].rejected = None
             <=> MayStart(c)
  BY <1>2, <1>3 DEF StateIsRow, Pending, Known, MayStart
<1>5. ASSUME NEW c \in Commands
      PROVE  p.commands[c].eligible = commandRows[c].eligible
  BY <1>2 DEF StateIsRow
<1> QED
  BY <1>1, <1>4, <1>5 DEF PendingStarts

\* Cancellations and faults are only counted up.
LEMMA CountersGrow ==
  ASSUME RuntimeInv, [RuntimeNext]_runtimeVars
  PROVE  /\ cancels \in Nat /\ faults \in Nat
         /\ cancels' \in {cancels, cancels + 1} /\ faults' \in {faults, faults + 1}
<1>1. cancels \in Nat /\ faults \in Nat
  BY RuntimeBoundAssumption DEF RuntimeInv, ProcessTypeOK
<1>2. CASE OutsideAction
  BY <1>1, <1>2 DEF OutsideAction, Receive, GrantCommand, RejectCommand, Restart
<1>3. CASE AdvanceAction
  BY <1>1, <1>3 DEF AdvanceAction, Freeze, Claim, ClaimRefused, Activate, Decide, LoseLease, MissCommit,
              Withdraw, FailDecision, FinishDecision, AdvanceReadsPending
<1>4. CASE DispatchAction
  BY <1>1, <1>4 DEF DispatchAction, GrantReadsPending, Start, StartRefused, FinishTask, FinishEndedTask,
              FailTask
<1>5. CASE CancelAction
  BY <1>1, <1>5 DEF CancelAction, BeginCancel, LookForActive, CancelActive, AwaitFinished, ReadForCancel,
              CancelFrame, CancelSteps, Interrupt, EndCancel
<1>6. CASE UNCHANGED runtimeVars
  BY <1>1, <1>6 DEF runtimeVars
<1> QED
  BY <1>1, <1>2, <1>3, <1>4, <1>5, <1>6 DEF RuntimeNext

\* While it stays quiet, these are the steps there are.
QuietStep ==
  \/ \E d \in Facts : Receive(d)
  \/ \E c \in Commands : GrantCommand(c)
  \/ \E c \in Commands : RejectCommand(c)
  \/ Freeze
  \/ Claim
  \/ ClaimRefused
  \/ Activate
  \/ \E cs \in SUBSET Commands : Decide(cs)
  \/ LoseLease
  \/ FinishDecision
  \/ AdvanceReadsPending
  \/ GrantReadsPending
  \/ \E caller \in Callers : \E item \in starting[caller] : Start(caller, item)
  \/ \E caller \in Callers : \E item \in starting[caller] : StartRefused(caller, item)
  \/ \E a \in running, result \in Results : FinishTask(a, result)
  \/ \E a \in running : FinishEndedTask(a)
  \/ UNCHANGED runtimeVars

\* and it has been quiet until then.
LEMMA QuietSteps ==
  ASSUME RuntimeInv, NobodyCancels, [RuntimeNext]_runtimeVars, Quiet'
  PROVE  Quiet /\ QuietStep
<1>1. Quiet /\ cancels' = cancels /\ faults' = faults /\ cancels \in Nat /\ faults \in Nat
  BY CountersGrow DEF Quiet
<1>2. ~Restart /\ ~MissCommit /\ ~FailDecision /\ ~(\E a \in running : FailTask(a)) /\ ~BeginCancel
  BY <1>1 DEF Restart, MissCommit, FailDecision, FailTask, BeginCancel
<1>3. ~Withdraw
  BY <1>1 DEF NobodyCancels, Withdraw
<1>4. ~CancelAction
  BY <1>1, <1>2 DEF NobodyCancels, CancelAction, LookForActive, CancelActive, AwaitFinished,
                    ReadForCancel, CancelFrame, CancelSteps, Interrupt, EndCancel
<1>5. CASE OutsideAction
  BY <1>1, <1>2, <1>5 DEF OutsideAction, QuietStep
<1>6. CASE AdvanceAction
  BY <1>1, <1>2, <1>3, <1>6 DEF AdvanceAction, QuietStep
<1>7. CASE DispatchAction
  BY <1>1, <1>2, <1>7 DEF DispatchAction, QuietStep
<1>8. CASE UNCHANGED runtimeVars
  BY <1>1, <1>8 DEF QuietStep
<1> QED
  BY <1>1, <1>4, <1>5, <1>6, <1>7, <1>8 DEF RuntimeNext

\* Nobody begins to cancel in them.
LEMMA NobodyCancelsStep ==
  ASSUME RuntimeInv, NobodyCancels, [RuntimeNext]_runtimeVars
  PROVE  NobodyCancels'
<1> SUFFICES ASSUME Quiet' PROVE cancelling'.pc = "idle" /\ ~advancing'.cancelRequested
  BY DEF NobodyCancels
<1>1. QuietStep /\ cancelling.pc = "idle" /\ ~advancing.cancelRequested
  BY QuietSteps DEF NobodyCancels
<1>2. advancing \in
       [pc : {"idle", "frozen", "claimed", "deciding", "committed", "dispatching"},
        request : Requests \cup {NoRequest}, lease : Nat, cancelRequested : BOOLEAN]
  BY DEF RuntimeInv, ProcessTypeOK
<1>3. ~IdleAdvance.cancelRequested /\ ~GoOnToDispatch.cancelRequested
  BY DEF IdleAdvance, GoOnToDispatch
<1>4. CASE Freeze
  <2>1. \/ advancing' = GoOnToDispatch
        \/ \E r : advancing' = [IdleAdvance EXCEPT !.pc = "frozen", !.request = r]
    BY <1>4 DEF Freeze
  <2> QED
    BY <1>1, <1>3, <1>4, <2>1 DEF Freeze, IdleAdvance
<1>5. CASE Claim \/ ClaimRefused \/ Activate \/ LoseLease \/ FinishDecision \/ AdvanceReadsPending
  BY <1>1, <1>2, <1>3, <1>5 DEF Claim, ClaimRefused, Activate, LoseLease, FinishDecision,
                                AdvanceReadsPending
<1>6. CASE \E cs \in SUBSET Commands : Decide(cs)
  BY <1>1, <1>2, <1>6 DEF Decide
<1>7. CASE UNCHANGED <<advancing, cancelling>>
  BY <1>1, <1>7
<1> QED
  BY <1>1, <1>4, <1>5, <1>6, <1>7
     DEF QuietStep, Receive, GrantCommand, RejectCommand, GrantReadsPending, Start, StartRefused,
         FinishTask, FinishEndedTask, processVars, runtimeVars

\* Reading leaves nothing out.
LEMMA ReadFindsAll ==
  ASSUME RuntimeInv, AgreeInv, ~Projection(log).raised, NEW caller \in Callers, ReadPending(caller),
         NEW c \in Commands, MayStart(c)
  PROVE  [command |-> c, cause |-> commandRows[c].eligible] \in starting'[caller]
<1>1. PICK item : item = [command |-> c, cause |-> commandRows[c].eligible]
  OBVIOUS
<1>2. item \in PendingStarts(Projection(log))
  BY <1>1, PendingIsMayStart
<1>3. starting'[caller] = PendingStarts(Projection(log))
  BY DEF ReadPending, RuntimeInv, ProcessTypeOK
<1> QED
  BY <1>1, <1>2, <1>3

\* What may start is not looked at any less when its row and what was read stay.
LEMMA StaysLookedAt ==
  ASSUME NEW c, LookedAt(c), commandRows'[c].eligible = commandRows[c].eligible,
         advancing.pc \in {"committed", "dispatching"} => advancing'.pc \in {"committed", "dispatching"},
         grantOwes => grantOwes',
         \A caller \in Callers :
           [command |-> c, cause |-> commandRows[c].eligible] \in starting[caller] =>
             [command |-> c, cause |-> commandRows[c].eligible] \in starting'[caller]
  PROVE  LookedAt(c)'
BY DEF LookedAt

\* Every step keeps it so that what may start is looked at.
LEMMA StartsStep ==
  ASSUME FrameData = Frames, StartInv, [RuntimeNext]_runtimeVars
  PROVE  StartsCovered'
<1> SUFFICES ASSUME Quiet', NeverRaised', NEW c \in Commands, MayStart(c)' PROVE LookedAt(c)'
  BY DEF StartsCovered
<1>1. Quiet /\ QuietStep
  BY QuietSteps DEF StartInv
<1>2. NeverRaised /\ ~Projection(log).raised
  BY NeverRaisedBefore, RuntimeStepIsJournalStep DEF StartInv, RuntimeInv
<1>3. MayStart(c) => LookedAt(c)
  BY <1>1, <1>2 DEF StartInv, StartsCovered
<1>4. /\ JournalInv /\ RuntimeInv /\ AgreeInv
      /\ commandRows \in [Commands -> CommandRows]
      /\ starting \in [Callers -> SUBSET Starts]
      /\ advancing \in
           [pc : {"idle", "frozen", "claimed", "deciding", "committed", "dispatching"},
            request : Requests \cup {NoRequest}, lease : Nat, cancelRequested : BOOLEAN]
  BY DEF StartInv, RuntimeInv, JournalInv, JournalTypeOK, ProcessTypeOK
<1>5. CASE UNCHANGED <<commandRows, advancing, grantOwes, starting>>
  BY <1>3, <1>5 DEF MayStart, LookedAt
<1>6. CASE \E d \in Commands : GrantCommand(d)
  BY <1>6 DEF GrantCommand, LookedAt
<1>7. CASE \E cs \in SUBSET Commands : Decide(cs)
  BY <1>4, <1>7 DEF Decide, LookedAt
<1>8. CASE \E d \in Commands : RejectCommand(d)
  <2>1. PICK d \in Commands : RejectCommand(d)
    BY <1>8
  <2>2. commandRows' = [commandRows EXCEPT ![d].rejected = NextPosition] /\ NextPosition # None
        /\ UNCHANGED <<advancing, grantOwes, starting>>
    <3>1. Len(log) \in Nat
      BY <1>4 DEF JournalInv, JournalTypeOK
    <3> QED
      BY <2>1, <3>1 DEF RejectCommand, Reject, processVars, NextPosition, None
  <2>3. c # d
    BY <1>4, <2>2 DEF MayStart, CommandRows
  <2> QED
    BY <1>3, <1>4, <2>2, <2>3 DEF MayStart, LookedAt
<1>9. CASE Freeze \/ Claim \/ ClaimRefused \/ Activate \/ LoseLease \/ FinishDecision
  <2>1. UNCHANGED <<commandRows, grantOwes, starting>>
    BY <1>9 DEF Freeze, Claim, ClaimRefused, Activate, LoseLease, FinishDecision, AcquireStep,
                ReleaseStep, journalVars
  <2>2. advancing.pc \in {"committed", "dispatching"} => advancing'.pc \in {"committed", "dispatching"}
    BY <1>9 DEF Freeze, Claim, ClaimRefused, Activate, LoseLease, FinishDecision, AdvanceIdle,
                GoOnToDispatch, IdleAdvance
  <2> QED
    BY <1>3, <2>1, <2>2 DEF MayStart, LookedAt
<1>10. CASE AdvanceReadsPending
  <2>1. ReadPending("advance") /\ "advance" \in Callers /\ UNCHANGED commandRows
    BY <1>10 DEF AdvanceReadsPending, Callers, journalVars
  <2>2. [command |-> c, cause |-> commandRows[c].eligible] \in starting'["advance"]
    BY <1>2, <1>4, <2>1, ReadFindsAll DEF MayStart
  <2> QED
    BY <2>1, <2>2 DEF LookedAt
<1>11. CASE GrantReadsPending
  <2>1. ReadPending("grant") /\ "grant" \in Callers /\ UNCHANGED commandRows
    BY <1>11 DEF GrantReadsPending, Callers, journalVars
  <2>2. [command |-> c, cause |-> commandRows[c].eligible] \in starting'["grant"]
    BY <1>2, <1>4, <2>1, ReadFindsAll DEF MayStart
  <2> QED
    BY <2>1, <2>2 DEF LookedAt
<1>12. CASE \E caller \in Callers : \E item \in starting[caller] : Start(caller, item)
  <2>0. PICK caller \in Callers : \E item \in starting[caller] : Start(caller, item)
    BY <1>12
  <2>1. PICK item \in starting[caller] : Start(caller, item)
    BY <2>0
  <2>2. item.command \in Commands
    BY <1>4 DEF Starts
  <2>3. /\ commandRows' = [commandRows EXCEPT ![item.command] = Started(@)]
        /\ starting' = [starting EXCEPT ![caller] = @ \ {item}]
        /\ UNCHANGED <<advancing, grantOwes>>
    BY <2>1 DEF Start, StartAttempt
  <2>4. c # item.command
    BY <1>4, <2>2, <2>3 DEF MayStart, Started, CommandRows
  <2>5. commandRows'[c] = commandRows[c]
    BY <1>4, <2>2, <2>3, <2>4
  <2>6. MayStart(c)
    BY <2>5 DEF MayStart
  <2>7. ASSUME NEW w \in Callers,
               [command |-> c, cause |-> commandRows[c].eligible] \in starting[w]
        PROVE  [command |-> c, cause |-> commandRows[c].eligible] \in starting'[w]
    BY <1>4, <2>3, <2>4, <2>7
  <2> QED
    BY <1>3, <2>3, <2>5, <2>6, <2>7, StaysLookedAt
<1>13. CASE \E caller \in Callers : \E item \in starting[caller] : StartRefused(caller, item)
  <2>0. PICK caller \in Callers : \E item \in starting[caller] : StartRefused(caller, item)
    BY <1>13
  <2>1. PICK item \in starting[caller] : StartRefused(caller, item)
    BY <2>0
  <2>2. /\ ~Startable(item.command, item.cause, 1)
        /\ starting' = [starting EXCEPT ![caller] = @ \ {item}]
        /\ UNCHANGED <<commandRows, advancing, grantOwes>>
    BY <2>1 DEF StartRefused, journalVars
  <2>3. MayStart(c)
    BY <2>2 DEF MayStart
  <2>4. Startable(c, commandRows[c].eligible, 1)
    BY <1>4, <2>3, MayStartIsStartable
  <2>5. item # [command |-> c, cause |-> commandRows[c].eligible]
    BY <2>2, <2>4
  <2>6. ASSUME NEW w \in Callers,
               [command |-> c, cause |-> commandRows[c].eligible] \in starting[w]
        PROVE  [command |-> c, cause |-> commandRows[c].eligible] \in starting'[w]
    BY <1>4, <2>2, <2>5, <2>6
  <2> QED
    BY <1>3, <2>2, <2>3, <2>6, StaysLookedAt
<1>14. CASE \E a \in running, result \in Results : FinishTask(a, result)
  <2>1. PICK a \in running, result \in Results : FinishTask(a, result)
    BY <1>14
  <2>2. PICK d \in Commands : d = attemptRows[a].command
    BY <1>4, <2>1, UnendedAttempt DEF FinishTask, RecordOutcome, RuntimeInv, ProcessTypeOK, JournalInv
  <2>3. commandRows' = [commandRows EXCEPT ![d] = Concluded(@, NextPosition)]
        /\ UNCHANGED <<advancing, grantOwes, starting>>
    BY <2>1, <2>2 DEF FinishTask, RecordOutcome
  <2>4. commandRows'[c] = IF c = d THEN Concluded(commandRows[c], NextPosition) ELSE commandRows[c]
    BY <1>4, <2>2, <2>3
  <2>5. Concluded(commandRows[c], NextPosition) = commandRows[c]
        \/ Concluded(commandRows[c], NextPosition).eligible = None
    BY <1>4 DEF Concluded, CommandRows
  <2>6. commandRows'[c] = commandRows[c]
    BY <2>4, <2>5 DEF MayStart
  <2> QED
    BY <1>3, <2>3, <2>6 DEF MayStart, LookedAt
<1>15. CASE \/ \E d \in Facts : Receive(d)
            \/ \E a \in running : FinishEndedTask(a)
            \/ UNCHANGED runtimeVars
  BY <1>5, <1>15 DEF Receive, AcceptDelivery, FinishEndedTask, ReleaseAttempt, processVars,
                     runtimeVars, journalVars
<1> QED
  BY <1>1, <1>6, <1>7, <1>8, <1>9, <1>10, <1>11, <1>12, <1>13, <1>14, <1>15 DEF QuietStep

\* It holds at first,
LEMMA StartInvInit == RuntimeInit => StartInv
<1> SUFFICES ASSUME RuntimeInit PROVE StartInv
  OBVIOUS
<1>1. RuntimeInv /\ AgreeInv
  BY RuntimeInvInit, AgreeInvInit DEF RuntimeInit
<1>2. NobodyCancels
  BY DEF RuntimeInit, NobodyCancels, IdleAdvance, IdleCancel
<1>3. \A c \in Commands : ~MayStart(c)
  BY DEF RuntimeInit, JournalInit, MayStart, NoCommandRow
<1> QED
  BY <1>1, <1>2, <1>3 DEF StartInv, StartsCovered

\* every step keeps it,
LEMMA StartInvStep ==
  ASSUME FrameData = Frames, StartInv, [RuntimeNext]_runtimeVars
  PROVE  StartInv'
<1>1. RuntimeInv' /\ [JournalNext]_journalVars
  BY RuntimeInvStep, RuntimeStepIsJournalStep DEF StartInv
<1>2. AgreeInv'
  BY <1>1, AgreeInvStep DEF StartInv
<1> QED
  BY <1>1, <1>2, NobodyCancelsStep, StartsStep DEF StartInv

\* and what may start is on its way, so that nothing is left when nobody is at it.
LEMMA StartInvCovers ==
  ASSUME StartInv
  PROVE  NothingForgotten
<1> SUFFICES ASSUME Quiet, AdvanceIdle, ~grantOwes, starting["grant"] = {}, NeverRaised
             PROVE  PendingStarts(Projection(log)) = {}
  BY DEF NothingForgotten, Quiet
<1>1. \A c \in Commands : ~LookedAt(c)
  BY DEF LookedAt, AdvanceIdle, Callers
<1>2. \A c \in Commands : ~MayStart(c)
  BY <1>1 DEF StartInv, StartsCovered
<1> QED
  BY <1>2, PendingIsMayStart DEF StartInv

\* Without a fault and without a cancellation every command that may run has been
\* started once advance and grant_command have returned (dispatcher.py,
\* start_pending; runtime.py, grant_command): whoever reads too early is followed
\* by somebody who reads what has been made eligible since.
THEOREM GrantedIsStarted ==
  ASSUME FrameData = Frames
  PROVE  RuntimeSpec => []NothingForgotten
<1>1. StartInv /\ [RuntimeNext]_runtimeVars => StartInv'
  BY StartInvStep
<1> QED
  BY <1>1, StartInvInit, StartInvCovers, PTL DEF RuntimeSpec

-------------------------------------------------------------------------------
\* Results that are left over when the Session is at rest.

\* No two steps of the log issue the same command.
LEMMA LogIssuesOnce ==
  ASSUME RuntimeInv
  PROVE  IssuedOnce(log)
<1> SUFFICES ASSUME NEW s \in Of(log, "step"), NEW t \in Of(log, "step"),
                    NEW c \in log[s].commands, c \in log[t].commands
             PROVE  s = t
  BY DEF IssuedOnce
<1>1. JournalTypeOK
  BY DEF RuntimeInv, JournalInv
<1>2. s \in DOMAIN log /\ t \in DOMAIN log /\ log[s].kind = "step" /\ log[t].kind = "step"
  BY DEF Of
<1>3. log[s] \in Events
  BY <1>1, <1>2 DEF JournalTypeOK
<1>4. c \in Commands
  BY <1>2, <1>3, EventFields
<1> QED
  BY <1>2, <1>4, OneEach

\* The operational view of the log, by its rows and by its events.
LEMMA OperationalOfLog ==
  ASSUME FrameData = Frames, RuntimeInv, AgreeInv, NEW c \in Commands
  PROVE  /\ ViewIsTrue(Operational(log), log)
         /\ \A i \in DOMAIN log : Shown(Operational(log), i)
         /\ Projection(log).commands = Operational(log).commands
         /\ StateIsTrue(Operational(log), log, c)
         /\ StateIsRow(Operational(log).commands[c], commandRows[c], AttemptsOf(c))
<1>1. IsLog(log)
  BY LogIsLog DEF RuntimeInv, JournalInv
<1>2. ViewIsTrue(Operational(log), log) /\ \A i \in DOMAIN log : Shown(Operational(log), i)
  BY <1>1, OperationalIsTrue DEF AgreeInv, StatesAreRows
<1> QED
  BY <1>2 DEF AgreeInv, StatesAreRows, ViewIsTrue, Projection, Project, ProjectionOf

\* Without a command that waits nothing is in flight, and each command that was
\* issued has ended or was rejected.
LEMMA NoneWaitsNoneFlies ==
  ASSUME FrameData = Frames, RuntimeInv, AgreeInv, WaitingCommands(Projection(log)) = {}
  PROVE  /\ \A m \in DOMAIN log : ~BlockedByInFlight(Operational(log), log, m)
         /\ \A s \in Steps : \A c \in log[s].commands :
              \/ \E r \in Of(log, "reject") : log[r].command = c
              \/ \E o \in Of(log, "outcome") : log[o].command = c
<1>1. PICK states : states = Operational(log).commands
  OBVIOUS
<1>2. ASSUME NEW c \in Commands, Known(states[c]), ~Terminal(states[c])
      PROVE  states[c].rejected # None
  BY <1>1, <1>2, OperationalOfLog DEF WaitingCommands
<1>3. ASSUME NEW c \in Commands, states[c].attempt # None
      PROVE  Terminal(states[c])
  <2> SUFFICES ASSUME ~Terminal(states[c]) PROVE FALSE
    OBVIOUS
  <2>1. Known(states[c])
    BY <1>1, <1>3, OperationalOfLog DEF StateIsTrue
  <2>2. commandRows[c].rejected # None /\ AttemptsOf(c) = {states[c].attempt} \ {None}
    BY <1>1, <1>2, <2>1, OperationalOfLog DEF StateIsRow
  <2>3. AttemptsOf(c) = {}
    BY <2>2 DEF RuntimeInv, JournalInv, Bookkeeping, RowsAgree, RejectionIsFinal
  <2> QED
    BY <1>3, <2>2, <2>3
<1>4. ASSUME NEW s \in Steps, NEW c \in log[s].commands
      PROVE  \/ \E r \in Of(log, "reject") : log[r].command = c
             \/ \E o \in Of(log, "outcome") : log[o].command = c
  <2>1. JournalTypeOK
    BY DEF RuntimeInv, JournalInv
  <2>2. s \in DOMAIN log /\ log[s].kind = "step" /\ log[s] \in Events
    BY <2>1 DEF Steps, Of, JournalTypeOK
  <2>3. c \in Commands /\ s \in Positions /\ s # None
    BY <2>1, <2>2, EventFields, LogDomain, BoundAssumption DEF Positions, None
  <2>4. Known(states[c])
    BY <1>1, <2>2, <2>3, OperationalOfLog DEF StateIsTrue, Known
  <2>5. CASE Terminal(states[c])
    <3>1. commandRows[c].outcome # None /\ commandRows[c].outcome = states[c].outcome
      BY <1>1, <2>3, <2>5, OperationalOfLog DEF StateIsRow, Terminal
    <3>2. PICK o \in Positions : commandRows[c].outcome = o
      BY <2>1, <2>3, <3>1 DEF JournalTypeOK, CommandRows
    <3>3. Recorded(o) /\ IsAbout(o, "outcome", c)
      BY <2>3, <3>2 DEF RuntimeInv, JournalInv, Bookkeeping, CommandRowsMatchLog
    <3> QED
      BY <2>1, <3>3, LogDomain DEF IsAbout, Of
  <2>6. CASE ~Terminal(states[c])
    <3>1. commandRows[c].rejected # None
      BY <1>1, <1>2, <2>3, <2>4, <2>6, OperationalOfLog DEF StateIsRow
    <3>2. PICK r \in Positions : commandRows[c].rejected = r
      BY <2>1, <2>3, <3>1 DEF JournalTypeOK, CommandRows
    <3>3. Recorded(r) /\ IsAbout(r, "reject", c)
      BY <2>3, <3>2 DEF RuntimeInv, JournalInv, Bookkeeping, CommandRowsMatchLog
    <3> QED
      BY <2>1, <3>3, LogDomain DEF IsAbout, Of
  <2> QED
    BY <2>5, <2>6
<1> QED
  BY <1>1, <1>3, <1>4 DEF BlockedByInFlight

\* An outcome names the attempt of its command, and no other outcome names it.
LEMMA OutcomeOfAttempt ==
  ASSUME FrameData = Frames, RuntimeInv, AgreeInv, NEW o \in Of(log, "outcome")
  PROVE  /\ log[o].attempt \in Of(log, "attempt")
         /\ log[log[o].attempt].command = log[o].command
         /\ \A r \in Of(log, "outcome") : log[r].attempt = log[o].attempt => r = o
<1>1. IsLog(log)
  BY LogIsLog DEF RuntimeInv, JournalInv
<1>2. PICK view : view = Operational(log)
  OBVIOUS
<1>3. ASSUME NEW i \in Of(log, "outcome")
      PROVE  /\ log[i].command \in Commands
             /\ view.commands[log[i].command].outcome = i
             /\ view.commands[log[i].command].attempt = log[i].attempt
             /\ log[i].attempt \in DOMAIN log
             /\ log[log[i].attempt].kind = "attempt"
             /\ log[log[i].attempt].command = log[i].command
  <2>1. i \in DOMAIN log /\ log[i].kind = "outcome" /\ log[i] \in Events /\ i # None
    BY <1>1, <1>3, EventTyped DEF Of
  <2>2. PICK c : c = log[i].command
    OBVIOUS
  <2>3. c \in Commands /\ log[i].attempt \in Positions
    BY <2>1, <2>2, EventFields DEF AboutCommand
  <2>4. /\ ViewIsTrue(view, log) /\ Shown(view, i) /\ StateIsTrue(view, log, c)
    BY <1>2, <2>1, <2>3, OperationalOfLog
  <2>5. view.commands[c].outcome = i
    BY <1>1, <2>1, <2>2, <2>4, ShownOutcome
  <2>6. view.commands[c].attempt = log[i].attempt
    BY <2>1, <2>4, <2>5 DEF StateIsTrue, Terminal
  <2>7. /\ Shown(view, log[i].attempt) /\ log[log[i].attempt].kind = "attempt"
        /\ log[log[i].attempt].command = c
    BY <2>3, <2>4, <2>6 DEF StateIsTrue
  <2>8. log[i].attempt \in DOMAIN log
    BY <2>4, <2>7 DEF ViewIsTrue
  <2> QED
    BY <2>2, <2>3, <2>5, <2>6, <2>7, <2>8
<1>4. ASSUME NEW r \in Of(log, "outcome"), log[r].attempt = log[o].attempt
      PROVE  r = o
  <2>1. log[r].command = log[o].command
    BY <1>3, <1>4
  <2>2. view.commands[log[o].command].outcome = r /\ view.commands[log[o].command].outcome = o
    BY <1>3, <2>1
  <2> QED
    BY <2>2
<1> QED
  BY <1>3, <1>4 DEF Of

\* An external fact has come that takes result o over: the fact's step shows o, unless
\* it looked before o's command was attempted or was cancelled.
LEMMA TakenOverIsShown ==
  ASSUME FrameData = Frames, RuntimeInv, AgreeInv, NEW o \in Of(log, "outcome"),
         NEW s \in Steps, log[o].command \in log[s].commands,
         NEW m \in DOMAIN log, m > ObservedBy(log, s), IsExternalDecisionFact(log, m),
         Answered(log, m)
  PROVE  \/ DecisionCancelled(o)
         \/ DecidedWithoutIt(o)
         \/ \E t \in Steps : o \in BasisOf(t)
<1>1. IsLog(log)
  BY LogIsLog DEF RuntimeInv, JournalInv
<1>2. m \in Nat /\ ObservedBy(log, s) \in Nat /\ ObservedBy(log, s) < m
  BY <1>1, EventTyped DEF IsLog, Steps
<1>3. TakenOver(o, m)
  BY <1>2 DEF TakenOver
<1>4. CASE CancelsFor(log, m) # {}
  <2>1. PICK k \in CancelsFor(log, m) : TRUE
    BY <1>4
  <2>2. k \in Of(log, "cancel") /\ log[k].trigger = m
    BY DEF CancelsFor
  <2> QED
    BY <1>3, <2>2 DEF DecisionCancelled
<1>5. CASE StepsFor(log, m) # {}
  <2>1. PICK t \in StepsFor(log, m) : TRUE
    BY <1>5
  <2>2. t \in Steps /\ log[t].request.trigger = m
    BY DEF StepsFor, Steps
  <2>3. PICK a : a = log[o].attempt
    OBVIOUS
  <2>4. a \in Of(log, "attempt") /\ log[a].command \in log[s].commands
    BY <2>3, OutcomeOfAttempt
  <2>5. a \in Nat /\ ObservedBy(log, t) \in Nat
    BY <1>1, <2>2, <2>4, EventTyped DEF IsLog, Steps, Of
  <2>6. CASE ObservedBy(log, t) < a
    BY <1>3, <2>2, <2>3, <2>6 DEF DecidedWithoutIt
  <2>7. CASE a <= ObservedBy(log, t)
    <3>1. PICK r \in BasisOf(t) :
            r \in DOMAIN log /\ log[r].kind = "outcome" /\ log[r].attempt = a
      BY <1>2, <2>2, <2>4, <2>7, AwaitedResult
    <3>2. r = o
      BY <2>3, <3>1, OutcomeOfAttempt DEF Of
    <3> QED
      BY <2>2, <3>1, <3>2
  <2> QED
    BY <2>5, <2>6, <2>7
<1>6. ~ShownAhead(log, m - 1, m)
  BY DEF ShownAhead, ShownWithGroup, IsExternalDecisionFact
<1> QED
  BY <1>4, <1>5, <1>6 DEF Answered

\* The last outcome g of the group of step s has been decided on: the step shows the
\* outcomes of the whole group.
LEMMA GroupIsShown ==
  ASSUME FrameData = Frames, RuntimeInv, NEW s \in Steps,
         NEW o \in Of(log, "outcome"), log[o].command \in log[s].commands \ NoDecision,
         NEW g \in Of(log, "outcome"), log[g].command \in log[s].commands \ NoDecision,
         o <= g, Answered(log, g)
  PROVE  \/ DecisionCancelled(o)
         \/ \E t \in Steps : o \in BasisOf(t)
<1>1. IsLog(log)
  BY LogIsLog DEF RuntimeInv, JournalInv
<1>2. /\ o \in DOMAIN log /\ log[o].kind = "outcome" /\ o \in Nat
      /\ g \in DOMAIN log /\ log[g].kind = "outcome" /\ g \in Nat
      /\ log[o].command \in Commands
  <2>1. o \in DOMAIN log /\ log[o].kind = "outcome" /\ g \in DOMAIN log /\ log[g].kind = "outcome"
    BY DEF Of
  <2> QED
    BY <1>1, <2>1, EventTyped, EventFields DEF AboutCommand
<1>3. CASE CancelsFor(log, g) # {}
  <2>1. PICK k \in CancelsFor(log, g) : TRUE
    BY <1>3
  <2>2. k \in Of(log, "cancel") /\ log[k].trigger = g
    BY DEF CancelsFor
  <2> QED
    BY <1>2, <2>2 DEF DecisionCancelled, IsOutcomeOf
<1>4. CASE StepsFor(log, g) # {}
  <2>1. PICK t \in StepsFor(log, g) : TRUE
    BY <1>4
  <2>2. t \in Steps /\ t \in Continuations(s)
    BY <1>2 DEF StepsFor, Steps, Continuations, IsOutcomeOf
  <2>3. PICK r \in BasisOf(t) :
          r \in DOMAIN log /\ log[r].kind = "outcome" /\ log[r].command = log[o].command
    BY <2>2, ContinuationFrame
  <2>4. r = o
    BY <1>2, <2>3, OneEach
  <2> QED
    BY <2>2, <2>3, <2>4
<1>5. CASE ShownAhead(log, g - 1, g)
  <2>1. PICK t \in Of(log, "step") : ShownWithGroup(log, t, g)
    BY <1>5 DEF ShownAhead
  <2>2. SameGroup(log, g, o)
    BY DEF SameGroup, Steps
  <2>3. ShownTo(log, t, o)
    <3>1. CASE o = g
      BY <2>1, <3>1 DEF ShownWithGroup
    <3>2. CASE o < g
      BY <1>2, <2>1, <2>2, <3>2 DEF ShownWithGroup
    <3> QED
      BY <1>2, <3>1, <3>2
  <2>4. o \in BasisOf(t)
    BY <2>3 DEF ShownTo, BasisOf
  <2> QED
    BY <2>1, <2>4 DEF Steps
<1> QED
  BY <1>3, <1>4, <1>5 DEF Answered

\* Nobody has taken the decision on the results of step s over, and each of its
\* commands has ended: the last outcome of its group wants a decision.
LEMMA LastOfGroupWants ==
  ASSUME FrameData = Frames, RuntimeInv, NEW s \in Steps, StopsFor(log, s) = {},
         ~Superseded(log, ObservedBy(log, s)),
         \A d \in log[s].commands \ NoDecision : \E i \in Of(log, "outcome") : log[i].command = d,
         NEW o \in Of(log, "outcome"), log[o].command \in log[s].commands \ NoDecision
  PROVE  \E g \in Of(log, "outcome") :
           log[g].command \in log[s].commands \ NoDecision /\ o <= g /\ Wants(log, g)
<1> DEFINE group == {i \in Of(log, "outcome") : log[i].command \in log[s].commands \ NoDecision}
<1>1. IsLog(log) /\ Len(log) \in Nat /\ DOMAIN log = 1..Len(log)
  BY LogIsLog DEF RuntimeInv, JournalInv, JournalTypeOK
<1>2. group \in SUBSET (1..Len(log)) /\ o \in group
  BY <1>1 DEF Of
<1> HIDE DEF group
<1>3. PICK g \in group : \A i \in group : i <= g
  BY <1>1, <1>2, Ops!GreatestPosition
<1>4. /\ g \in Of(log, "outcome") /\ g \in DOMAIN log /\ log[g].kind = "outcome"
      /\ log[g].command \in log[s].commands \ NoDecision
  BY DEF group, Of
<1>5. GroupEndsBy(log, s, g)
  <2> SUFFICES ASSUME NEW d \in log[s].commands \ NoDecision
               PROVE  \E i \in DOMAIN log : i <= g /\ log[i].kind = "outcome" /\ log[i].command = d
    BY DEF GroupEndsBy
  <2>1. PICK i \in Of(log, "outcome") : log[i].command = d
    OBVIOUS
  <2>2. i \in group
    BY <2>1 DEF group
  <2> QED
    BY <1>3, <2>1, <2>2 DEF Of
<1>6. ContinuesStep(log, s, g)
  BY <1>4, <1>5 DEF ContinuesStep
<1>7. Wants(log, g)
  BY <1>4, <1>6 DEF Wants, Steps
<1> QED
  BY <1>2, <1>3, <1>4, <1>7

\* The known strandings are all there are: a result the model was to see that no step
\* was shown, with no cancellation to blame, belongs to a group that a rejection keeps
\* open or was attempted only after the decision that took it over had looked
\* (state.py, _parallel_decision_group_closed and _include_waited_follow_up_events).
THEOREM ResultsAreShown ==
  ASSUME FrameData = Frames
  PROVE  RuntimeSpec => []OnlyKnownStrandings
<1>1. ASSUME RuntimeInv, AgreeInv, AtRest, NEW o \in Stranded
      PROVE  GroupCannotClose(o) \/ DecidedWithoutIt(o)
  <2>1. /\ o \in Of(log, "outcome") /\ log[o].command \notin NoDecision
        /\ \A s \in Steps : log[o].command \in log[s].commands => StopsFor(log, s) = {}
        /\ ~DecisionCancelled(o)
        /\ \A s \in Steps : o \notin BasisOf(s)
    BY <1>1 DEF Stranded
  <2>2. /\ ~Projection(log).raised /\ Projection(log).next = None
        /\ WaitingCommands(Projection(log)) = {}
    BY <1>1 DEF AtRest, WaitsForFactOnly
  <2>3. IsLog(log) /\ IssuedOnce(log)
    BY <1>1, LogIsLog, LogIssuesOnce DEF RuntimeInv, JournalInv
  <2>4. PICK s \in Steps : log[o].command \in log[s].commands
    BY <2>1, <2>2, <2>3, IssuerIsInLog DEF Steps, Of
  <2>5. ASSUME NEW i \in DOMAIN log, Wants(log, i)
        PROVE  Answered(log, i)
    BY <1>1, <2>2, <2>3, <2>5, NoneWaitsNoneFlies, NothingIsLeft
  <2>6. CASE Superseded(log, ObservedBy(log, s))
    <3>1. PICK m \in DOMAIN log : m > ObservedBy(log, s) /\ IsExternalDecisionFact(log, m)
      BY <2>6 DEF Superseded
    <3>2. Answered(log, m)
      BY <2>5, <3>1 DEF Wants
    <3> QED
      BY <1>1, <2>1, <2>4, <3>1, <3>2, TakenOverIsShown
  <2>7. CASE /\ ~Superseded(log, ObservedBy(log, s))
             /\ \E d \in log[s].commands \ NoDecision, r \in Of(log, "reject") : log[r].command = d
    BY <2>4, <2>7 DEF GroupCannotClose
  <2>8. CASE /\ ~Superseded(log, ObservedBy(log, s))
             /\ ~\E d \in log[s].commands \ NoDecision, r \in Of(log, "reject") : log[r].command = d
    <3>1. \A d \in log[s].commands \ NoDecision : \E i \in Of(log, "outcome") : log[i].command = d
      BY <1>1, <2>2, <2>4, <2>8, NoneWaitsNoneFlies
    <3>2. PICK g \in Of(log, "outcome") :
            log[g].command \in log[s].commands \ NoDecision /\ o <= g /\ Wants(log, g)
      BY <1>1, <2>1, <2>4, <2>8, <3>1, LastOfGroupWants
    <3>3. Answered(log, g)
      BY <2>5, <3>2 DEF Of
    <3> QED
      BY <1>1, <2>1, <2>4, <3>2, <3>3, GroupIsShown
  <2> QED
    BY <2>6, <2>7, <2>8
<1>2. RuntimeInv /\ AgreeInv => OnlyKnownStrandings
  BY <1>1 DEF OnlyKnownStrandings
<1>3. RuntimeInit => AgreeInv
  BY AgreeInvInit DEF RuntimeInit
<1>4. RuntimeInv /\ AgreeInv /\ [RuntimeNext]_runtimeVars => AgreeInv'
  BY RuntimeStepIsJournalStep, AgreeInvStep
<1>5. RuntimeSpec => []RuntimeInv
  BY RuntimeInvHolds
<1> QED
  BY <1>2, <1>3, <1>4, <1>5, PTL DEF RuntimeSpec

-------------------------------------------------------------------------------
\* The Scheduler.

\* It does nothing to the Runtime but what RuntimeNext allows.
LEMMA SchedulerStepIsRuntimeStep ==
  ASSUME [SchedulerNext]_schedulerVars
  PROVE  [RuntimeNext]_runtimeVars
<1>1. CASE \E d \in Facts : Deliver(d)
  BY <1>1 DEF Deliver, RuntimeNext, OutsideAction
<1>2. CASE \E c \in Commands : Answer(c)
  BY <1>2 DEF Answer, RuntimeNext, OutsideAction
<1>3. CASE InsideAdvance
  <2>1. CASE Claim \/ Activate \/ (\E cs \in SUBSET Commands : Decide(cs)) \/ FinishDecision
    BY <2>1 DEF RuntimeNext, AdvanceAction
  <2>2. CASE \E item \in starting["advance"] :
               Start("advance", item) \/ StartRefused("advance", item)
    BY <2>2 DEF RuntimeNext, DispatchAction, Callers
  <2> QED
    BY <1>3, <2>1, <2>2 DEF InsideAdvance
<1>4. CASE \E c \in Commands : GrantOne(c)
  BY <1>4 DEF GrantOne, RuntimeNext, OutsideAction
<1>5. CASE CallAdvance \/ RefusedByClaim \/ GiveUpDecision \/ StartPending \/ FailAdvance
  BY <1>5 DEF CallAdvance, RefusedByClaim, GiveUpDecision, StartPending, FailAdvance, RuntimeNext,
              AdvanceAction
<1>6. CASE \/ ReadPosition \/ CallTooLate \/ CallRaises \/ ReadStatus \/ EndAdvance \/ Quiesce
           \/ EndGranting \/ TaskDone \/ Wake
  BY <1>6 DEF ReadPosition, CallTooLate, CallRaises, ReadStatus, EndAdvance, Quiesce, EndGranting,
              TaskDone, Wake
<1>7. CASE \E a \in running : EndCommand(a) \/ FailCommand(a)
  BY <1>7 DEF EndCommand, FailCommand, RuntimeNext, DispatchAction
<1>8. CASE ReadGranted \/ StartGranted
  BY <1>8 DEF ReadGranted, StartGranted, RuntimeNext, DispatchAction, Callers
<1>9. CASE CancelTurn
  BY <1>9 DEF CancelTurn, RuntimeNext
<1>10. CASE UNCHANGED schedulerVars
  BY <1>10 DEF schedulerVars
<1> QED
  BY <1>1, <1>2, <1>3, <1>4, <1>5, <1>6, <1>7, <1>8, <1>9, <1>10 DEF SchedulerNext, TaskAction

\* The task slot and the Runtime's advance go together.
TaskPcs == {"none", "begin", "call", "advance", "starting", "status", "quiesce", "granting", "done",
            "raised"}

Slots ==
  [pc : TaskPcs, position : 0..MaxEvents, runnable : BOOLEAN, granting : SUBSET Commands]

SlotInv ==
  /\ task \in Slots
  /\ pendingWake \in BOOLEAN
  /\ wakers \in Nat
  /\ failed \in BOOLEAN
  /\ pendingWake => task.pc # "none"
  /\ task.pc = "advance" <=> advancing.pc # "idle"
  /\ starting["advance"] # {} => task.pc = "starting"

\* A slot with the pc and the flag that it is set to.
IsSlot(slot, at, runnable) == slot \in Slots /\ slot.pc = at /\ slot.runnable = runnable

\* What the task sets its slot to.
LEMMA SlotsTyped ==
  /\ IsSlot(EmptySlot, "none", FALSE)
  /\ \A at \in TaskPcs : IsSlot(TaskAt(at), at, FALSE)
  /\ \A runnable \in BOOLEAN :
       IsSlot(Returned(runnable), IF runnable THEN "done" ELSE "quiesce", runnable)
  /\ \A runnable \in BOOLEAN : IsSlot(Starting(runnable), "starting", runnable)
<1>1. IsSlot(EmptySlot, "none", FALSE)
  <2>1. 0 \in 0..MaxEvents
    BY BoundAssumption
  <2> QED
    BY <2>1 DEF EmptySlot, Slots, TaskPcs, IsSlot
<1>2. ASSUME NEW at \in TaskPcs
      PROVE  IsSlot(TaskAt(at), at, FALSE)
  BY <1>1 DEF TaskAt, Slots, IsSlot
<1>3. ASSUME NEW runnable \in BOOLEAN
      PROVE  IsSlot(Returned(runnable), IF runnable THEN "done" ELSE "quiesce", runnable)
  <2>1. "done" \in TaskPcs /\ "quiesce" \in TaskPcs
    BY DEF TaskPcs
  <2>2. CASE runnable
    BY <1>1, <2>1, <2>2 DEF Returned, Slots, IsSlot
  <2>3. CASE ~runnable
    BY <1>2, <2>1, <2>3 DEF Returned
  <2> QED
    BY <2>2, <2>3
<1>4. ASSUME NEW runnable \in BOOLEAN
      PROVE  IsSlot(Starting(runnable), "starting", runnable)
  <2>1. PICK slot : slot = TaskAt("starting")
    OBVIOUS
  <2>2. IsSlot(slot, "starting", FALSE)
    BY <1>2, <2>1 DEF TaskPcs
  <2>3. Starting(runnable) = [slot EXCEPT !.runnable = runnable]
    BY <2>1 DEF Starting
  <2> QED
    BY <2>2, <2>3 DEF Slots, IsSlot
<1> QED
  BY <1>1, <1>2, <1>3, <1>4

\* A step of the task that is not advance's own leaves the Runtime as it is.
LEMMA SlotStep ==
  ASSUME FrameData = Frames, RuntimeInv, SlotInv, [SchedulerNext]_schedulerVars
  PROVE  SlotInv'
<1>1. /\ advancing \in
           [pc : {"idle", "frozen", "claimed", "deciding", "committed", "dispatching"},
            request : Requests \cup {NoRequest}, lease : Nat, cancelRequested : BOOLEAN]
      /\ starting \in [Callers -> SUBSET Starts]
      /\ Callers = {"advance", "grant"}
  BY DEF RuntimeInv, ProcessTypeOK, Callers
<1>2. /\ task \in Slots /\ task.pc \in TaskPcs /\ task.runnable \in BOOLEAN
      /\ pendingWake \in BOOLEAN /\ wakers \in Nat /\ failed \in BOOLEAN
      /\ pendingWake => task.pc # "none"
      /\ task.pc = "advance" <=> advancing.pc # "idle"
      /\ starting["advance"] # {} => task.pc = "starting"
  BY DEF SlotInv, Slots
<1>3. IdleAdvance.pc = "idle" /\ GoOnToDispatch.pc = "dispatching"
  BY DEF IdleAdvance, GoOnToDispatch
<1>4. CASE \/ \E d \in Facts : Deliver(d)
           \/ \E c \in Commands : Answer(c)
           \/ \E a \in running : EndCommand(a)
           \/ \E a \in running : FailCommand(a)
  <2>1. UNCHANGED <<advancing, starting, task, pendingWake>>
    BY <1>4 DEF Deliver, Answer, EndCommand, FailCommand, Receive, GrantCommand, RejectCommand,
                FinishTask, FinishEndedTask, FailTask, processVars
  <2>2. \/ wakers' = wakers + 1 /\ UNCHANGED failed
        \/ UNCHANGED wakers /\ failed' = TRUE
    BY <1>4 DEF Deliver, Answer, EndCommand, FailCommand
  <2>3. CASE wakers' = wakers + 1 /\ UNCHANGED failed
    BY <2>1, <2>3 DEF SlotInv
  <2>4. CASE UNCHANGED wakers /\ failed' = TRUE
    BY <2>1, <2>4 DEF SlotInv
  <2> QED
    BY <2>2, <2>3, <2>4
<1>5. CASE Wake
  <2>1. UNCHANGED <<advancing, starting, failed>> /\ wakers' \in Nat
    BY <1>2, <1>5 DEF Wake, runtimeVars, processVars
  <2>2. \/ UNCHANGED <<task, pendingWake>>
        \/ UNCHANGED task /\ pendingWake' = TRUE /\ task.pc # "none"
        \/ task.pc = "none" /\ task' = TaskAt("begin") /\ UNCHANGED pendingWake
    BY <1>5 DEF Wake, RememberWake
  <2>3. task' = TaskAt("begin") => IsSlot(task', "begin", FALSE)
    BY SlotsTyped DEF TaskPcs
  <2>4. CASE UNCHANGED <<task, pendingWake>>
    BY <2>1, <2>4 DEF SlotInv
  <2>6. CASE UNCHANGED task /\ pendingWake' = TRUE /\ task.pc # "none"
    BY <2>1, <2>6 DEF SlotInv
  <2>5. CASE task.pc = "none" /\ task' = TaskAt("begin") /\ UNCHANGED pendingWake
    <3>1. task' \in Slots /\ task'.pc = "begin"
      BY <2>3, <2>5 DEF IsSlot
    <3> QED
      BY <1>2, <2>1, <2>5, <3>1 DEF SlotInv
  <2> QED
    BY <2>2, <2>4, <2>5, <2>6
<1>6. CASE ReadPosition
  <2>1. PICK slot : slot = TaskAt("call")
    OBVIOUS
  <2>2. IsSlot(slot, "call", FALSE)
    BY <2>1, SlotsTyped DEF TaskPcs
  <2>3. Len(log) \in 0..MaxEvents
    BY BoundAssumption DEF RuntimeInv, JournalInv, JournalTypeOK
  <2>4. task' = [slot EXCEPT !.position = Len(log)]
    BY <1>6, <2>1 DEF ReadPosition
  <2>5. task' \in Slots /\ task'.pc = "call"
    BY <2>2, <2>3, <2>4 DEF IsSlot, Slots
  <2>6. task.pc = "begin" /\ UNCHANGED <<advancing, starting, pendingWake, wakers, failed>>
    BY <1>6 DEF ReadPosition, runtimeVars, processVars
  <2> QED
    BY <1>2, <2>5, <2>6 DEF SlotInv
<1>7. CASE \/ CallTooLate \/ CallRaises \/ ReadStatus \/ EndAdvance \/ Quiesce \/ EndGranting
           \/ TaskDone
  <2>1. UNCHANGED <<advancing, starting>> /\ wakers' \in Nat /\ failed' \in BOOLEAN
        /\ pendingWake' \in BOOLEAN
    BY <1>2, <1>7 DEF CallTooLate, CallRaises, ReadStatus, EndAdvance, Quiesce, EndGranting, TaskDone,
                      ForgetWake, runtimeVars, processVars
  <2>2. task.pc # "advance" /\ starting["advance"] = {}
    BY <1>2, <1>7 DEF CallTooLate, CallRaises, ReadStatus, EndAdvance, Quiesce, EndGranting, TaskDone
  <2>3. /\ task' \in Slots
        /\ task'.pc \in {"none", "begin", "done", "raised", "quiesce", "granting"}
        /\ task'.pc = "none" => ~pendingWake'
    <3>1. CASE CallTooLate
      BY <1>2, <3>1, SlotsTyped DEF CallTooLate, IsSlot
    <3>2. CASE CallRaises
      BY <1>2, <3>2, SlotsTyped DEF CallRaises, IsSlot, TaskPcs
    <3>3. CASE ReadStatus
      <4>1. \/ task' = TaskAt("raised")
            \/ task' = Returned(Projection(log).next # None)
        BY <3>3 DEF ReadStatus, ByStatus
      <4> QED
        BY <1>2, <4>1, SlotsTyped DEF IsSlot, TaskPcs
    <3>4. CASE EndAdvance
      BY <1>2, <3>4, SlotsTyped DEF EndAdvance, IsSlot
    <3>5. CASE Quiesce
      <4>1. PICK p : p = Projection(log)
        OBVIOUS
      <4>2. \/ task' \in {TaskAt("raised"), TaskAt("done")}
            \/ task' = [TaskAt("granting") EXCEPT !.granting = AwaitingVerdict(p)]
        BY <3>5, <4>1 DEF Quiesce
      <4>3. PICK slot : slot = TaskAt("granting")
        OBVIOUS
      <4>4. IsSlot(slot, "granting", FALSE)
        BY <4>3, SlotsTyped DEF TaskPcs
      <4>5. AwaitingVerdict(p) \in SUBSET Commands
        BY DEF AwaitingVerdict
      <4>6. [slot EXCEPT !.granting = AwaitingVerdict(p)] \in Slots
            /\ [slot EXCEPT !.granting = AwaitingVerdict(p)].pc = "granting"
        BY <4>4, <4>5 DEF IsSlot, Slots
      <4> QED
        BY <4>2, <4>3, <4>6, SlotsTyped DEF IsSlot, TaskPcs
    <3>6. CASE EndGranting
      BY <3>6, SlotsTyped DEF EndGranting, IsSlot, TaskPcs
    <3>7. CASE TaskDone
      BY <3>7, SlotsTyped DEF TaskDone, ForgetWake, IsSlot, TaskPcs
    <3> QED
      BY <1>7, <3>1, <3>2, <3>3, <3>4, <3>5, <3>6, <3>7
  <2> QED
    BY <1>2, <2>1, <2>2, <2>3 DEF SlotInv
<1>8. CASE CallAdvance
  <2>1. /\ UNCHANGED <<starting, pendingWake, wakers, failed>> /\ task' = TaskAt("advance")
        /\ starting["advance"] = {}
    BY <1>8 DEF CallAdvance, Freeze, AdvanceIdle
  <2>2. advancing'.pc \in {"dispatching", "frozen"}
    <3>1. \/ advancing' = GoOnToDispatch
          \/ \E r : advancing' = [IdleAdvance EXCEPT !.pc = "frozen", !.request = r]
      BY <1>8 DEF CallAdvance, Freeze
    <3> QED
      BY <1>3, <3>1 DEF IdleAdvance
  <2> QED
    BY <1>2, <2>1, <2>2, SlotsTyped DEF SlotInv, IsSlot, TaskPcs
<1>9. CASE InsideAdvance
  <2>1. UNCHANGED <<task, pendingWake, wakers, failed>>
    BY <1>9 DEF InsideAdvance, slotVars
  <2>2. CASE Claim \/ Activate \/ (\E cs \in SUBSET Commands : Decide(cs)) \/ FinishDecision
    <3>1. advancing.pc # "idle" /\ UNCHANGED starting
      BY <2>2 DEF Claim, Activate, Decide, FinishDecision
    <3>2. advancing'.pc # "idle"
      BY <1>1, <1>3, <2>2 DEF Claim, Activate, Decide, FinishDecision
    <3> QED
      BY <1>2, <2>1, <3>1, <3>2 DEF SlotInv
  <2>3. CASE \E item \in starting["advance"] :
               Start("advance", item) \/ StartRefused("advance", item)
    <3>1. UNCHANGED advancing /\ starting["advance"] # {}
      BY <2>3 DEF Start, StartRefused
    <3> QED
      BY <1>2, <2>1, <3>1 DEF SlotInv
  <2> QED
    BY <1>9, <2>2, <2>3 DEF InsideAdvance
<1>10. CASE RefusedByClaim \/ GiveUpDecision \/ FailAdvance
  <2>1. /\ advancing' = IdleAdvance /\ UNCHANGED <<starting, pendingWake, wakers, failed>>
        /\ advancing.pc # "idle"
    BY <1>10 DEF RefusedByClaim, GiveUpDecision, FailAdvance, ClaimRefused, LoseLease, MissCommit,
                 Withdraw, FailDecision
  <2>2. task' \in {Returned(TRUE), TaskAt("status"), TaskAt("done"), TaskAt("raised")}
    BY <1>10 DEF RefusedByClaim, GiveUpDecision, FailAdvance
  <2>3. task' \in Slots /\ task'.pc \in {"done", "status", "raised"}
    BY <2>2, SlotsTyped DEF IsSlot, TaskPcs
  <2>4. advancing'.pc = "idle" /\ starting'["advance"] = {}
    BY <1>2, <1>3, <2>1
  <2>5. UNCHANGED <<pendingWake, wakers, failed>>
    BY <2>1
  <2> QED
    BY <2>3, <2>4, <2>5 DEF SlotInv
<1>11. CASE StartPending
  <2>1. /\ advancing' = IdleAdvance /\ UNCHANGED <<pendingWake, wakers, failed>>
        /\ advancing.pc # "idle"
    BY <1>11 DEF StartPending, AdvanceReadsPending
  <2>2. \/ task' = TaskAt("raised") /\ starting'["advance"] = {}
        \/ task' = Starting(Projection(log).next # None)
    BY <1>1, <1>11 DEF StartPending, AdvanceReadsPending, ReadPending, ByStatus
  <2>3. task' \in Slots /\ task'.pc \in {"starting", "raised"}
        /\ (starting'["advance"] # {} => task'.pc = "starting")
    BY <2>2, SlotsTyped DEF IsSlot, TaskPcs
  <2>4. advancing'.pc = "idle" /\ UNCHANGED <<pendingWake, wakers, failed>>
    BY <1>3, <2>1
  <2> QED
    BY <1>2, <2>3, <2>4 DEF SlotInv
<1>12. CASE \E c \in Commands : GrantOne(c)
  <2>1. UNCHANGED <<advancing, starting, pendingWake, wakers, failed>> /\ task.pc = "granting"
    BY <1>12 DEF GrantOne, GrantCommand, runtimeVars, processVars
  <2>2. PICK c \in Commands : task' = [task EXCEPT !.granting = @ \ {c}]
    BY <1>12 DEF GrantOne
  <2>3. task' \in Slots /\ task'.pc = "granting"
    BY <1>2, <2>1, <2>2 DEF Slots
  <2> QED
    BY <1>2, <2>1, <2>3 DEF SlotInv
<1>13. CASE ReadGranted
  <2>1. UNCHANGED <<advancing, pendingWake, wakers>> /\ starting'["advance"] = starting["advance"]
    BY <1>1, <1>13 DEF ReadGranted, GrantReadsPending, ReadPending
  <2>2. \/ UNCHANGED task /\ failed' \in BOOLEAN
        \/ task.pc = "granting" /\ task' = TaskAt("raised") /\ UNCHANGED failed
    BY <1>2, <1>13 DEF ReadGranted
  <2> QED
    BY <1>2, <2>1, <2>2, SlotsTyped DEF SlotInv, IsSlot, TaskPcs
<1>14. CASE StartGranted
  <2>1. UNCHANGED <<advancing, task, pendingWake, wakers, failed>>
    BY <1>14 DEF StartGranted, Start, StartRefused, slotVars
  <2>2. starting'["advance"] = starting["advance"]
    BY <1>1, <1>14 DEF StartGranted, Start, StartRefused
  <2> QED
    BY <1>2, <2>1, <2>2 DEF SlotInv
<1>15. CASE CancelTurn
  <2>1. UNCHANGED <<task, pendingWake, wakers, failed, starting>> /\ advancing'.pc = advancing.pc
    BY <1>1, <1>15 DEF CancelTurn, slotVars, CancelAction, BeginCancel, LookForActive, CancelActive,
                       Signalled, AwaitFinished, ReadForCancel, CancelFrame, CancelSteps, Interrupt,
                       EndCancel, processVars
  <2> QED
    BY <1>2, <2>1 DEF SlotInv
<1>16. CASE UNCHANGED schedulerVars
  BY <1>2, <1>16 DEF schedulerVars, runtimeVars, processVars, slotVars, SlotInv
<1> QED
  BY <1>4, <1>5, <1>6, <1>7, <1>8, <1>9, <1>10, <1>11, <1>12, <1>13, <1>14, <1>15, <1>16
     DEF SchedulerNext, TaskAction

\* At first the slot is empty.
LEMMA SlotInit == SchedulerInit => SlotInv
<1> SUFFICES ASSUME SchedulerInit PROVE SlotInv
  OBVIOUS
<1>1. IsSlot(task, "none", FALSE)
  BY SlotsTyped DEF SchedulerInit
<1>2. advancing.pc = "idle" /\ starting["advance"] = {}
  BY DEF SchedulerInit, RuntimeInit, IdleAdvance, Callers
<1> QED
  BY <1>1, <1>2 DEF SchedulerInit, SlotInv, IsSlot

\* The Scheduler's state is of its type: its slot is taken by an advance exactly while
\* the Runtime's advance is under way (runner.py, _advance_once and _task_done).
THEOREM SchedulerTypeCorrect ==
  ASSUME FrameData = Frames
  PROVE  SchedulerSpec => []SchedulerTypeOK
<1>1. SchedulerInit => RuntimeInv /\ SlotInv
  BY RuntimeInvInit, SlotInit DEF SchedulerInit
<1>2. RuntimeInv /\ SlotInv /\ [SchedulerNext]_schedulerVars => RuntimeInv' /\ SlotInv'
  BY SchedulerStepIsRuntimeStep, RuntimeInvStep, SlotStep
<1>3. RuntimeInv /\ SlotInv => SchedulerTypeOK
  BY DEF RuntimeInv, JournalInv, ProcessTypeOK, RuntimeTypeOK, SlotInv, Slots, TaskPcs, SchedulerTypeOK
<1> QED
  BY <1>1, <1>2, <1>3, PTL DEF SchedulerSpec

-------------------------------------------------------------------------------
\* No wake is lost.

\* Without a fault, a task is at work on every Attempt that has not ended.
FlightInv ==
  faults = 0 =>
    \A a \in Positions : attemptRows[a].command # NoCommand /\ Unended(a) => a \in running

\* Only a fault takes the task from an Attempt that has not ended.
LEMMA FlightStep ==
  ASSUME FrameData = Frames, RuntimeInv, FlightInv, [RuntimeNext]_runtimeVars
  PROVE  FlightInv'
<1> SUFFICES ASSUME faults' = 0, NEW a \in Positions,
                    attemptRows'[a].command # NoCommand, attemptRows'[a].terminal = None
             PROVE  a \in running'
  BY DEF FlightInv, Unended
<1>1. faults = 0 /\ faults' = faults
  BY CountersGrow
<1>2. attemptRows[a].command # NoCommand /\ attemptRows[a].terminal = None => a \in running
  BY <1>1 DEF FlightInv, Unended
<1>3. attemptRows \in [Positions -> AttemptRows] /\ running \subseteq Positions
      /\ NextPosition # None
  <2>1. Len(log) \in Nat
    BY DEF RuntimeInv, JournalInv, JournalTypeOK
  <2> QED
    BY <2>1 DEF RuntimeInv, JournalInv, JournalTypeOK, ProcessTypeOK, NextPosition, None
<1>4. CASE UNCHANGED <<attemptRows, running>>
  BY <1>2, <1>4
<1>5. CASE \E caller \in Callers : \E item \in starting[caller] : Start(caller, item)
  <2>1. PICK caller \in Callers, item \in Starts : Start(caller, item)
    BY <1>5 DEF RuntimeInv, ProcessTypeOK
  <2>2. /\ running' = running \cup {NextPosition}
        /\ attemptRows' = [attemptRows EXCEPT ![NextPosition] =
              [command |-> item.command, number |-> 1, held |-> TRUE, terminal |-> None]]
    BY <2>1 DEF Start, StartAttempt
  <2>3. CASE a = NextPosition
    BY <2>2, <2>3
  <2>4. CASE a # NextPosition
    BY <1>2, <1>3, <2>2, <2>4
  <2> QED
    BY <2>3, <2>4
<1>6. ASSUME NEW b \in running, NEW result \in Results, RecordOutcome(b, result),
             running' = running \/ running' = running \ {b}
      PROVE  a \in running'
  <2>1. attemptRows' = [attemptRows EXCEPT ![b].terminal = NextPosition, ![b].held = FALSE]
    BY <1>6 DEF RecordOutcome
  <2>2. b \in Positions /\ attemptRows'[b].terminal = NextPosition
    BY <1>3, <2>1 DEF AttemptRows
  <2>3. a # b
    BY <1>3, <2>2
  <2>4. attemptRows'[a] = attemptRows[a]
    BY <1>3, <2>1, <2>3
  <2> QED
    BY <1>2, <1>6, <2>3, <2>4
<1>7. CASE \E b \in running : FinishEndedTask(b)
  <2>1. PICK b \in running : FinishEndedTask(b)
    BY <1>7
  <2>2. /\ attemptRows' = [attemptRows EXCEPT ![b].held = FALSE]
        /\ running' = running \ {b} /\ ~Unended(b)
    BY <2>1 DEF FinishEndedTask, ReleaseAttempt
  <2>3. attemptRows'[a].command = attemptRows[a].command
        /\ attemptRows'[a].terminal = attemptRows[a].terminal
    BY <1>3, <2>2 DEF AttemptRows
  <2>4. a # b
    BY <2>2, <2>3 DEF Unended
  <2> QED
    BY <1>2, <2>2, <2>3, <2>4
<1>8. CASE OutsideAction
  <2>1. ~Restart
    BY <1>1 DEF Restart
  <2> QED
    BY <1>4, <1>8, <2>1 DEF OutsideAction, Receive, GrantCommand, RejectCommand, AcceptDelivery, Grant,
                            Reject, processVars
<1>9. CASE AdvanceAction
  BY <1>4, <1>9 DEF AdvanceAction, Freeze, Claim, ClaimRefused, Activate, Decide, LoseLease, MissCommit,
                    Withdraw, FailDecision, FinishDecision, AdvanceReadsPending, AcquireStep,
                    CommitStep, ReleaseStep, journalVars
<1>10. CASE DispatchAction
  <2>1. ~(\E b \in running : FailTask(b))
    BY <1>1 DEF FailTask
  <2>2. CASE \E b \in running, result \in Results : FinishTask(b, result)
    BY <1>6, <2>2 DEF FinishTask
  <2>3. CASE GrantReadsPending \/
             \E caller \in Callers : \E item \in starting[caller] : StartRefused(caller, item)
    BY <1>4, <2>3 DEF GrantReadsPending, StartRefused, journalVars
  <2> QED
    BY <1>5, <1>7, <1>10, <2>1, <2>2, <2>3 DEF DispatchAction
<1>11. CASE CancelAction
  <2>1. CASE \E b \in running, result \in Results : Interrupt(b, result)
    BY <1>6, <2>1 DEF Interrupt, processVars
  <2>2. CASE ~(\E b \in running, result \in Results : Interrupt(b, result))
    BY <1>4, <1>11, <2>2 DEF CancelAction, BeginCancel, LookForActive, CancelActive, AwaitFinished,
                    ReadForCancel, CancelFrame, CancelSteps, EndCancel, CancelDecision,
                    CancelContinuation, journalVars
  <2> QED
    BY <2>1, <2>2
<1>12. CASE UNCHANGED runtimeVars
  BY <1>4, <1>12 DEF runtimeVars, journalVars, processVars
<1> QED
  BY <1>8, <1>9, <1>10, <1>11, <1>12 DEF RuntimeNext

\* Without a task at work, nothing is in flight.
LEMMA NothingRunsNothingFlies ==
  ASSUME FrameData = Frames, RuntimeInv, AgreeInv, FlightInv, faults = 0, running = {},
         NEW m \in DOMAIN log
  PROVE  ~BlockedByInFlight(Operational(log), log, m)
<1> SUFFICES ASSUME NEW c \in Commands,
                    Operational(log).commands[c].attempt # None,
                    ~Terminal(Operational(log).commands[c])
             PROVE  FALSE
  BY DEF BlockedByInFlight
<1>1. PICK a : a = Operational(log).commands[c].attempt
  OBVIOUS
<1>2. AttemptsOf(c) = {a} \ {None} /\ commandRows[c].outcome = None
  BY <1>1, OperationalOfLog DEF StateIsRow, Terminal
<1>3. a \in Positions /\ attemptRows[a].command = c
  BY <1>1, <1>2 DEF AttemptsOf
<1>4. Recorded(a) /\ log[a].kind = "attempt" /\ log[a].command = c
  BY <1>3 DEF RuntimeInv, JournalInv, Bookkeeping, AttemptRowsMatchLog, IsAbout
<1>5. c # NoCommand
  BY NoCommandAssumption
<1>6. ~Unended(a)
  BY <1>3, <1>5 DEF FlightInv
<1>7. attemptRows[a].terminal \in Positions
  BY <1>3, <1>6 DEF Unended, RuntimeInv, JournalInv, JournalTypeOK, AttemptRows
<1>8. PICK o \in Positions : attemptRows[a].terminal = o
  BY <1>7
<1>9. Recorded(o) /\ log[o].kind = "outcome" /\ log[o].attempt = a
  BY <1>3, <1>8 DEF RuntimeInv, JournalInv, Bookkeeping, AttemptRowsMatchLog, Ends
<1>10. log[o].command = c
  BY <1>3, <1>9 DEF RuntimeInv, JournalInv, Bookkeeping, OutcomesEndAttempts
<1>11. commandRows[c].outcome = o
  BY <1>9, <1>10 DEF RuntimeInv, JournalInv, Bookkeeping, CommandRowsMatchLog, IsAbout
<1> QED
  BY <1>2, <1>8, <1>11, BoundAssumption DEF Positions, None

-------------------------------------------------------------------------------
\* Who still is to look.

\* The Runtime of a Scheduler that has had no fault and has never raised looks at the
\* log again: after a change to it nobody has seen, whoever made it still is to wake
\* the Scheduler, which remembers it, or its task is before the look.
Attended ==
  \/ wakers > 0
  \/ pendingWake
  \/ running # {}
  \/ failed
  \/ task.pc \in {"begin", "call", "advance", "status", "granting", "raised"}
  \/ task.pc \in {"starting", "done"} /\ task.runnable

\* Who attends to nothing has found nothing to decide.
DecidedInv == faults = 0 /\ NeverRaised /\ ~Attended => Projection(log).next = None

\* nor, after the last look, a command to grant.
VerdictsInv ==
  Quiet /\ NeverRaised /\ AutoAuthorize /\ ~Attended /\ task.pc \notin {"starting", "quiesce"} =>
    \A c \in Commands : ~AwaitsVerdict(c)

\* The look that found nothing to decide.
LooksInVain ==
  /\ UNCHANGED log
  /\ Projection(log).next = None
  /\ task'.pc \in {"starting", "quiesce"}

\* A step of a Scheduler that attends to nothing, which changes nothing in the log.
GoesOnUnattended ==
  /\ ~Attended
  /\ UNCHANGED <<log, commandRows, attemptRows>>
  /\ task.pc \in {"starting", "quiesce"} => task'.pc \in {"starting", "quiesce"}

\* _quiesced, when it grants nothing.
QuiescesInVain ==
  /\ ~Attended
  /\ Quiesce
  /\ ~(AutoAuthorize /\ Projection(log).next = None /\ AwaitingVerdict(Projection(log)) # {})

\* What leaves a Scheduler that attends to nothing.
LEMMA UnattendedStep ==
  ASSUME FrameData = Frames, RuntimeInv, SlotInv, [SchedulerNext]_schedulerVars,
         faults' = 0, ~Projection(log).raised, ~Attended'
  PROVE  \/ LooksInVain
         \/ GoesOnUnattended
         \/ QuiescesInVain
         \/ ~Attended /\ CancelTurn
<1>1. faults = 0 /\ faults' = faults
  BY SchedulerStepIsRuntimeStep, CountersGrow
<1>2. /\ task \in Slots /\ task.pc \in TaskPcs /\ task.runnable \in BOOLEAN
      /\ pendingWake \in BOOLEAN /\ wakers \in Nat /\ failed \in BOOLEAN
      /\ pendingWake => task.pc # "none"
      /\ task.pc = "advance" <=> advancing.pc # "idle"
      /\ starting["advance"] # {} => task.pc = "starting"
  BY DEF SlotInv, Slots
<1>3. /\ ~(wakers' > 0) /\ ~pendingWake' /\ running' = {} /\ ~failed'
      /\ task'.pc \notin {"begin", "call", "advance", "status", "granting", "raised"}
      /\ ~(task'.pc \in {"starting", "done"} /\ task'.runnable)
  BY DEF Attended
<1>4. CASE \/ \E d \in Facts : Deliver(d)
           \/ \E c \in Commands : Answer(c)
           \/ \E a \in running : EndCommand(a)
           \/ \E a \in running : FailCommand(a)
  <2>1. wakers' = wakers + 1 \/ failed' = TRUE
    BY <1>4 DEF Deliver, Answer, EndCommand, FailCommand
  <2> QED
    BY <1>2, <1>3, <2>1
<1>5. CASE Wake
  <2>1. \/ failed /\ UNCHANGED failed
        \/ pendingWake' = TRUE
        \/ task' = TaskAt("begin")
    BY <1>5 DEF Wake, RememberWake
  <2>2. task' = TaskAt("begin") => task'.pc = "begin"
    BY SlotsTyped DEF IsSlot, TaskPcs
  <2> QED
    BY <1>3, <2>1, <2>2
<1>6. CASE ReadPosition \/ CallAdvance \/ CallRaises \/ GiveUpDecision
  <2>1. PICK slot : slot = TaskAt("call")
    OBVIOUS
  <2>2. slot \in Slots /\ slot.pc = "call"
    BY <2>1, SlotsTyped DEF IsSlot, TaskPcs
  <2>3. \/ task' = [slot EXCEPT !.position = Len(log)]
        \/ task' \in {TaskAt("advance"), TaskAt("raised"), TaskAt("status")}
    BY <1>6, <2>1 DEF ReadPosition, CallAdvance, CallRaises, GiveUpDecision
  <2>4. task'.pc \in {"call", "advance", "raised", "status"}
    BY <2>2, <2>3, SlotsTyped DEF IsSlot, TaskPcs, Slots
  <2> QED
    BY <1>3, <2>4
<1>7. CASE CallTooLate \/ RefusedByClaim
  <2>1. task' = Returned(TRUE)
    BY <1>7 DEF CallTooLate, RefusedByClaim
  <2> QED
    BY <1>3, <2>1, SlotsTyped DEF IsSlot
<1>8. CASE InsideAdvance
  <2>1. UNCHANGED <<task, pendingWake, wakers, failed>>
    BY <1>8 DEF InsideAdvance, slotVars
  <2>2. task.pc = "starting" /\ advancing.pc = "idle"
    BY <1>2, <1>3, <1>8, <2>1 DEF InsideAdvance
  <2>3. PICK item \in starting["advance"] : Start("advance", item) \/ StartRefused("advance", item)
    BY <1>8, <2>2 DEF InsideAdvance, Claim, Activate, Decide, FinishDecision
  <2>4. ~Start("advance", item)
    BY <1>3 DEF Start
  <2>5. UNCHANGED <<log, commandRows, attemptRows, running>>
    BY <2>3, <2>4 DEF StartRefused, journalVars
  <2> QED
    BY <1>3, <2>1, <2>5 DEF GoesOnUnattended, Attended
<1>9. CASE ReadStatus
  <2>1. PICK p : p = Projection(log)
    OBVIOUS
  <2>2. task' = Returned(p.next # None) /\ UNCHANGED log
    BY <1>9, <2>1 DEF ReadStatus, ByStatus, runtimeVars, journalVars
  <2>3. CASE p.next # None
    <3>1. task' = Returned(TRUE)
      BY <2>2, <2>3
    <3> QED
      BY <1>3, <3>1, SlotsTyped DEF IsSlot
  <2>4. CASE p.next = None
    <3>1. task' = Returned(FALSE)
      BY <2>2, <2>4
    <3>2. task'.pc = "quiesce"
      BY <3>1, SlotsTyped DEF IsSlot
    <3> QED
      BY <2>1, <2>2, <2>4, <3>2 DEF LooksInVain
  <2> QED
    BY <2>3, <2>4
<1>10. CASE StartPending
  <2>1. PICK p : p = Projection(log)
    OBVIOUS
  <2>2. task' = Starting(p.next # None) /\ UNCHANGED log
    BY <1>10, <2>1 DEF StartPending, AdvanceReadsPending, ByStatus, journalVars
  <2>3. CASE p.next # None
    <3>1. task' = Starting(TRUE)
      BY <2>2, <2>3
    <3> QED
      BY <1>3, <3>1, SlotsTyped DEF IsSlot
  <2>4. CASE p.next = None
    <3>1. task' = Starting(FALSE)
      BY <2>2, <2>4
    <3>2. task'.pc = "starting"
      BY <3>1, SlotsTyped DEF IsSlot
    <3> QED
      BY <2>1, <2>2, <2>4, <3>2 DEF LooksInVain
  <2> QED
    BY <2>3, <2>4
<1>11. CASE EndAdvance
  <2>1. /\ task.pc = "starting" /\ task' = Returned(task.runnable)
        /\ UNCHANGED <<log, commandRows, attemptRows, running, pendingWake, wakers, failed>>
    BY <1>11 DEF EndAdvance, runtimeVars, journalVars, processVars
  <2>2. task.runnable = FALSE /\ task'.pc = "quiesce"
    <3>1. CASE task.runnable = TRUE
      BY <1>3, <2>1, <3>1, SlotsTyped DEF IsSlot
    <3>2. CASE task.runnable = FALSE
      BY <2>1, <3>2, SlotsTyped DEF IsSlot
    <3> QED
      BY <1>2, <3>1, <3>2
  <2> QED
    BY <1>3, <2>1, <2>2 DEF GoesOnUnattended, Attended
<1>12. CASE FailAdvance
  BY <1>1, <1>12 DEF FailAdvance, FailDecision
<1>13. CASE Quiesce
  <2>1. UNCHANGED <<running, pendingWake, wakers, failed>> /\ task.pc = "quiesce"
    BY <1>13 DEF Quiesce, runtimeVars, processVars
  <2>2. ~Attended
    BY <1>3, <2>1 DEF Attended
  <2>3. ASSUME AutoAuthorize, Projection(log).next = None, AwaitingVerdict(Projection(log)) # {}
        PROVE  FALSE
    <3>1. PICK slot, p : slot = TaskAt("granting") /\ p = Projection(log)
      OBVIOUS
    <3>2. slot \in Slots /\ slot.pc = "granting"
      BY <3>1, SlotsTyped DEF IsSlot, TaskPcs
    <3>3. task' = [slot EXCEPT !.granting = AwaitingVerdict(p)]
      BY <1>13, <2>3, <3>1 DEF Quiesce
    <3>4. task'.pc = "granting"
      BY <3>2, <3>3 DEF Slots
    <3> QED
      BY <1>3, <3>4
  <2> QED
    BY <1>13, <2>2, <2>3 DEF QuiescesInVain
<1>14. CASE \E c \in Commands : GrantOne(c)
  <2>1. PICK c \in Commands : task.pc = "granting" /\ task' = [task EXCEPT !.granting = @ \ {c}]
    BY <1>14 DEF GrantOne
  <2>2. task'.pc = "granting"
    BY <1>2, <2>1 DEF Slots
  <2> QED
    BY <1>3, <2>2
<1>15. CASE EndGranting
  BY <1>3, <1>15 DEF EndGranting
<1>16. CASE TaskDone
  <2>1. /\ task.pc \in {"done", "raised"}
        /\ failed' = (failed \/ task.pc = "raised")
        /\ task' = IF ~failed' /\ RunsAgain THEN TaskAt("begin") ELSE EmptySlot
        /\ UNCHANGED <<log, commandRows, attemptRows, running, wakers>>
    BY <1>16 DEF TaskDone, runtimeVars, journalVars, processVars
  <2>2. task.pc = "done" /\ ~failed
    BY <1>3, <2>1
  <2>3. ~RunsAgain
    <3> SUFFICES ASSUME RunsAgain PROVE FALSE
      OBVIOUS
    <3>1. task' = TaskAt("begin")
      BY <1>3, <2>1
    <3> QED
      BY <1>3, <3>1, SlotsTyped DEF IsSlot, TaskPcs
  <2> QED
    BY <1>3, <2>1, <2>2, <2>3 DEF GoesOnUnattended, Attended, RunsAgain
<1>17. CASE ReadGranted
  <2>1. /\ UNCHANGED <<task, failed, pendingWake, wakers, log, commandRows, attemptRows, running>>
    BY <1>17 DEF ReadGranted, GrantReadsPending, journalVars
  <2> QED
    BY <1>3, <2>1 DEF GoesOnUnattended, Attended
<1>18. CASE StartGranted
  <2>1. PICK item \in starting["grant"] : Start("grant", item) \/ StartRefused("grant", item)
    BY <1>18 DEF StartGranted
  <2>2. ~Start("grant", item)
    BY <1>3 DEF Start
  <2>3. UNCHANGED <<log, commandRows, attemptRows, running, task, pendingWake, wakers, failed>>
    BY <1>18, <2>1, <2>2 DEF StartGranted, StartRefused, journalVars, slotVars
  <2> QED
    BY <1>3, <2>3 DEF GoesOnUnattended, Attended
<1>19. CASE CancelTurn
  <2>1. UNCHANGED <<task, pendingWake, wakers, failed, running>>
    BY <1>19 DEF CancelTurn, slotVars, CancelAction, BeginCancel, LookForActive, CancelActive,
                 AwaitFinished, ReadForCancel, CancelFrame, CancelSteps, Interrupt, EndCancel,
                 processVars
  <2> QED
    BY <1>3, <1>19, <2>1 DEF Attended
<1>20. CASE UNCHANGED schedulerVars
  <2>1. UNCHANGED <<log, commandRows, attemptRows, running, task, pendingWake, wakers, failed>>
    BY <1>20 DEF schedulerVars, runtimeVars, journalVars, processVars, slotVars
  <2> QED
    BY <1>3, <2>1 DEF GoesOnUnattended, Attended
<1> QED
  BY <1>4, <1>5, <1>6, <1>7, <1>8, <1>9, <1>10, <1>11, <1>12, <1>13, <1>14, <1>15, <1>16, <1>17,
     <1>18, <1>19, <1>20 DEF SchedulerNext, TaskAction

\* What _quiesced grants is what the Journal would accept a verdict for.
LEMMA AwaitingIsAwaited ==
  ASSUME FrameData = Frames, RuntimeInv, AgreeInv
  PROVE  AwaitingVerdict(Projection(log)) = {c \in Commands : AwaitsVerdict(c)}
<1>1. PICK p : p = Projection(log)
  OBVIOUS
<1>2. ASSUME NEW c \in Commands
      PROVE  Unverdicted(p.commands[c]) <=> AwaitsVerdict(c)
  <2>1. StateIsRow(p.commands[c], commandRows[c], AttemptsOf(c))
    BY <1>1, OperationalOfLog
  <2>2. StateIsTrue(Operational(log), log, c) /\ p.commands[c] = Operational(log).commands[c]
    BY <1>1, OperationalOfLog
  <2>3. p.commands[c].attempt # None <=> AttemptsOf(c) # {}
    BY <2>1 DEF StateIsRow
  <2>4. p.commands[c].outcome # None => p.commands[c].attempt # None
    BY <2>2 DEF StateIsTrue, Terminal
  <2> QED
    BY <2>1, <2>3, <2>4 DEF StateIsRow, Unverdicted, Pending, Known, AwaitsVerdict
<1> QED
  BY <1>1, <1>2 DEF AwaitingVerdict

\* While no tool runs, cancel_turn leaves the log as it is or writes a cancellation.
LEMMA CancelWrites ==
  ASSUME RuntimeInv, CancelAction, running = {}
  PROVE  \/ UNCHANGED log
         \/ \E e \in Events : e.kind \in {"cancel", "stop"} /\ log' = Append(log, e)
<1>1. CASE CancelActive \/ CancelFrame
  <2>1. PICK t : t = cancelling.trigger
    OBVIOUS
  <2>2. UNCHANGED log \/ CancelDecision(t)
    BY <1>1, <2>1 DEF CancelActive, CancelFrame, journalVars
  <2>3. ASSUME CancelDecision(t)
        PROVE  \E e \in Events : e.kind \in {"cancel", "stop"} /\ log' = Append(log, e)
    <3>1. PICK e : e = [kind |-> "cancel", trigger |-> t]
      OBVIOUS
    <3>2. t \in Positions
      <4>1. Recorded(t) /\ Len(log) \in Nat /\ Len(log) <= MaxEvents
        BY <2>3 DEF CancelDecision, RuntimeInv, JournalInv, JournalTypeOK
      <4> QED
        BY <4>1, BoundAssumption DEF Recorded, Positions
    <3>3. e \in Events /\ e.kind = "cancel"
      BY <3>1, <3>2 DEF Events, CancelEvents
    <3>4. log' = Append(log, e)
      BY <2>3, <3>1 DEF CancelDecision, AppendEvent
    <3> QED
      BY <3>3, <3>4
  <2> QED
    BY <2>2, <2>3
<1>2. CASE \E s \in Positions : CancelSteps(s)
  <2>1. PICK s \in Positions : CancelContinuation(s)
    BY <1>2 DEF CancelSteps
  <2>2. PICK e : e = [kind |-> "stop", step |-> s]
    OBVIOUS
  <2>3. e \in Events /\ e.kind = "stop"
    BY <2>1, <2>2 DEF Events, StopEvents
  <2>4. log' = Append(log, e)
    BY <2>1, <2>2 DEF CancelContinuation, AppendEvent
  <2> QED
    BY <2>3, <2>4
<1>3. CASE BeginCancel \/ LookForActive \/ AwaitFinished \/ ReadForCancel \/ EndCancel
  BY <1>3 DEF BeginCancel, LookForActive, AwaitFinished, ReadForCancel, EndCancel, journalVars
<1> QED
  BY <1>1, <1>2, <1>3 DEF CancelAction

\* Of the Runtime: nothing is forgotten and nothing in flight is on its own.
WatchInv == StartInv /\ FlightInv

\* and of the Scheduler: it does not sleep on a decision or on a verdict.
WakeInv == WatchInv /\ SlotInv /\ DecidedInv /\ VerdictsInv

\* Every step keeps what the Runtime promises.
LEMMA WatchStep ==
  ASSUME FrameData = Frames, WatchInv, [SchedulerNext]_schedulerVars
  PROVE  /\ WatchInv' /\ RuntimeInv' /\ AgreeInv'
         /\ [RuntimeNext]_runtimeVars /\ [JournalNext]_journalVars
<1>1. [RuntimeNext]_runtimeVars
  BY SchedulerStepIsRuntimeStep
<1>2. StartInv' /\ FlightInv'
  BY <1>1, StartInvStep, FlightStep DEF WatchInv, StartInv
<1>3. [JournalNext]_journalVars
  BY <1>1, RuntimeStepIsJournalStep DEF WatchInv, StartInv
<1> QED
  BY <1>1, <1>2, <1>3 DEF WatchInv, StartInv

\* A Scheduler that attends to nothing has nothing to decide, after any step.
LEMMA DecidedStep ==
  ASSUME FrameData = Frames, WakeInv, [SchedulerNext]_schedulerVars
  PROVE  DecidedInv'
<1> SUFFICES ASSUME faults' = 0, NeverRaised', ~Attended' PROVE Projection(log').next = None
  BY DEF DecidedInv
<1>1. /\ WatchInv' /\ RuntimeInv' /\ AgreeInv'
      /\ [RuntimeNext]_runtimeVars /\ [JournalNext]_journalVars
  BY WatchStep DEF WakeInv
<1>2. RuntimeInv /\ AgreeInv /\ FlightInv /\ SlotInv /\ JournalInv
  BY DEF WakeInv, WatchInv, StartInv, RuntimeInv
<1>3. NeverRaised /\ ~Projection(log).raised
  BY <1>1, <1>2, NeverRaisedBefore
<1>4. faults = 0
  BY <1>1, <1>2, CountersGrow
<1>5. ~Attended => Projection(log).next = None
  BY <1>3, <1>4 DEF WakeInv, DecidedInv
<1>6. CASE UNCHANGED log /\ Projection(log).next = None
  BY <1>6
<1>7. CASE ~Attended /\ CancelTurn
  <2>1. running = {} /\ CancelAction
    BY <1>7 DEF Attended, CancelTurn
  <2>2. CASE UNCHANGED log
    BY <1>5, <1>7, <2>2
  <2>3. CASE \E e \in Events : e.kind \in {"cancel", "stop"} /\ log' = Append(log, e)
    <3>1. PICK e \in Events : e.kind \in {"cancel", "stop"} /\ log' = Append(log, e)
      BY <2>3
    <3>2. IsLog(log) /\ IssuedOnce(log)
      BY <1>2, LogIsLog, LogIssuesOnce DEF JournalInv
    <3>3. PICK after : after = log'
      OBVIOUS
    <3>4. IsLog(after) /\ IssuedOnce(after) /\ ~Projection(after).raised
      <4>1. after \in Seq(Events) /\ Len(after) <= MaxEvents
        BY <1>1, <3>3 DEF RuntimeInv, JournalInv, JournalTypeOK
      <4>2. IsLog(after) /\ IssuedOnce(after)
        BY <3>1, <3>2, <3>3, <4>1, AppendedCancel
      <4>3. Len(after) \in 0..Len(after) /\ SubSeq(after, 1, Len(after)) = after
        BY <4>1
      <4>4. ~Projection(SubSeq(after, 1, Len(after))).raised
        BY <3>3, <4>3 DEF NeverRaised
      <4> QED
        BY <4>2, <4>3, <4>4
    <3>5. \A m \in DOMAIN log : ~BlockedByInFlight(Operational(log), log, m)
      BY <1>2, <1>4, <2>1, NothingRunsNothingFlies
    <3>6. Projection(log).next = None
      BY <1>5, <1>7
    <3>7. after = Append(log, e)
      BY <3>1, <3>3
    <3>8. Projection(after).next = None
      BY <1>3, <3>1, <3>2, <3>4, <3>5, <3>6, <3>7, CancelDecidesNothing
    <3> QED
      BY <3>3, <3>8
  <2> QED
    BY <1>2, <2>1, <2>2, <2>3, CancelWrites
<1>8. CASE QuiescesInVain
  BY <1>5, <1>8 DEF QuiescesInVain, Quiesce, runtimeVars, journalVars
<1>9. CASE GoesOnUnattended
  BY <1>5, <1>9 DEF GoesOnUnattended
<1> QED
  BY <1>2, <1>3, <1>6, <1>7, <1>8, <1>9, UnattendedStep DEF LooksInVain

\* nor a command that waits for a verdict, once _quiesced has looked.
LEMMA VerdictsStep ==
  ASSUME FrameData = Frames, WakeInv, [SchedulerNext]_schedulerVars
  PROVE  VerdictsInv'
<1> SUFFICES ASSUME Quiet', NeverRaised', AutoAuthorize, ~Attended',
                    task'.pc \notin {"starting", "quiesce"},
                    NEW c \in Commands, AwaitsVerdict(c)'
             PROVE  FALSE
  BY DEF VerdictsInv
<1>1. /\ [RuntimeNext]_runtimeVars /\ [JournalNext]_journalVars
  BY WatchStep DEF WakeInv
<1>2. RuntimeInv /\ AgreeInv /\ SlotInv /\ JournalInv /\ NobodyCancels
  BY DEF WakeInv, WatchInv, StartInv, RuntimeInv
<1>3. NeverRaised /\ ~Projection(log).raised
  BY <1>1, <1>2, NeverRaisedBefore
<1>4. Quiet /\ QuietStep
  BY <1>1, <1>2, QuietSteps
<1>5. faults = 0 /\ faults' = 0
  BY <1>4 DEF Quiet
<1>6. CASE LooksInVain
  BY <1>6 DEF LooksInVain
<1>7. CASE GoesOnUnattended
  <2>1. AwaitsVerdict(c)
    BY <1>7 DEF GoesOnUnattended, AwaitsVerdict, AttemptsOf
  <2>2. task.pc \notin {"starting", "quiesce"} /\ ~Attended
    BY <1>7 DEF GoesOnUnattended
  <2> QED
    BY <1>3, <1>4, <2>1, <2>2 DEF WakeInv, VerdictsInv
<1>8. CASE QuiescesInVain
  <2>1. Projection(log).next = None
    BY <1>3, <1>5, <1>8 DEF QuiescesInVain, WakeInv, DecidedInv
  <2>2. AwaitingVerdict(Projection(log)) = {}
    BY <1>8, <2>1 DEF QuiescesInVain
  <2>3. AwaitsVerdict(c)
    BY <1>8 DEF QuiescesInVain, Quiesce, runtimeVars, journalVars, AwaitsVerdict, AttemptsOf
  <2> QED
    BY <1>2, <2>2, <2>3, AwaitingIsAwaited
<1>9. CASE CancelTurn
  <2>1. cancels' = cancels /\ cancels = 0
    BY <1>4 DEF Quiet
  <2> QED
    BY <1>2, <1>4, <1>9, <2>1 DEF NobodyCancels, CancelTurn, CancelAction, BeginCancel, LookForActive,
       CancelActive, AwaitFinished, ReadForCancel, CancelFrame, CancelSteps, Interrupt, EndCancel
<1> QED
  BY <1>2, <1>3, <1>5, <1>6, <1>7, <1>8, <1>9, UnattendedStep

\* No wake is lost (runner.py: wake, _advance_once, _quiesced, _task_done): when the
\* task slot is empty and everybody who recorded something has called wake, every
\* decision has been taken, every command that may run was started and, with
\* auto_authorize, every verdict was given, whatever came in between which of the
\* Scheduler's awaits, unless something failed or a call saw a log without a projection.
THEOREM NoWakeIsLost ==
  ASSUME FrameData = Frames
  PROVE  SchedulerSpec => [](NeverRaised => IdleMeansDone)
<1>1. SchedulerInit => WakeInv
  <2> SUFFICES ASSUME SchedulerInit PROVE WakeInv
    OBVIOUS
  <2>1. StartInv /\ SlotInv
    BY StartInvInit, SlotInit DEF SchedulerInit
  <2>2. FlightInv
    BY DEF SchedulerInit, RuntimeInit, JournalInit, NoAttemptRow, FlightInv
  <2>3. DecidedInv
    <3> SUFFICES ASSUME NeverRaised, NEW t, t = Projection(log).next, t # None PROVE FALSE
      BY DEF DecidedInv
    <3>1. PICK past : past = log
      OBVIOUS
    <3>2. past = <<>>
      BY <3>1 DEF SchedulerInit, RuntimeInit, JournalInit
    <3>3. IsLog(past) /\ IssuedOnce(past)
      BY <2>1, <3>1, LogIsLog, LogIssuesOnce DEF StartInv, RuntimeInv, JournalInv
    <3>4. 0 \in 0..Len(past) /\ SubSeq(past, 1, 0) = past /\ DOMAIN past = {}
      BY <3>2
    <3>5. ~Projection(past).raised
      <4>1. ~Projection(SubSeq(past, 1, 0)).raised
        BY <3>1, <3>4 DEF NeverRaised
      <4> QED
        BY <3>4, <4>1
    <3>6. t \in DOMAIN past
      BY <3>1, <3>3, <3>5, NextIsWanted
    <3> QED
      BY <3>4, <3>6
  <2>4. \A c \in Commands : ~AwaitsVerdict(c)
    BY DEF SchedulerInit, RuntimeInit, JournalInit, NoCommandRow, AwaitsVerdict
  <2> QED
    BY <2>1, <2>2, <2>3, <2>4 DEF WakeInv, WatchInv, VerdictsInv
<1>2. WakeInv /\ [SchedulerNext]_schedulerVars => WakeInv'
  <2> SUFFICES ASSUME WakeInv, [SchedulerNext]_schedulerVars PROVE WakeInv'
    OBVIOUS
  <2>1. WatchInv'
    BY WatchStep DEF WakeInv
  <2>2. SlotInv'
    BY SlotStep DEF WakeInv, WatchInv, StartInv
  <2> QED
    BY <2>1, <2>2, DecidedStep, VerdictsStep DEF WakeInv
<1>3. WakeInv => (NeverRaised => IdleMeansDone)
  <2> SUFFICES ASSUME WakeInv, NeverRaised, Idle
               PROVE  /\ Projection(log).next = None
                      /\ cancels = 0 => /\ PendingStarts(Projection(log)) = {}
                                        /\ AutoAuthorize => AwaitingVerdict(Projection(log)) = {}
    BY DEF IdleMeansDone, IdleMeansDecided, IdleMeansStarted
  <2>1. RuntimeInv /\ AgreeInv /\ StartInv /\ SlotInv
    BY DEF WakeInv, WatchInv, StartInv
  <2>2. ~Attended /\ faults = 0 /\ task.pc = "none"
    BY <2>1 DEF Idle, Attended, SlotInv
  <2>3. Projection(log).next = None
    BY <2>2 DEF WakeInv, DecidedInv
  <2>4. ASSUME cancels = 0
        PROVE  PendingStarts(Projection(log)) = {}
    <3>1. AdvanceIdle /\ ~grantOwes /\ starting["grant"] = {}
      BY <2>1, <2>2 DEF Idle, GrantsSettled, AdvanceIdle, SlotInv
    <3> QED
      BY <2>1, <2>2, <2>4, <3>1, StartInvCovers DEF NothingForgotten
  <2>5. ASSUME cancels = 0, AutoAuthorize
        PROVE  AwaitingVerdict(Projection(log)) = {}
    <3>1. \A c \in Commands : ~AwaitsVerdict(c)
      BY <2>2, <2>5 DEF WakeInv, VerdictsInv, Quiet
    <3> QED
      BY <2>1, <3>1, AwaitingIsAwaited
  <2> QED
    BY <2>3, <2>4, <2>5
<1> QED
  BY <1>1, <1>2, <1>3, PTL DEF SchedulerSpec

-------------------------------------------------------------------------------
\* What the Journal and the Runtime see to, whatever happens: their log is as LogReplays
\* asks.

\* EventLog writes only events the log justifies.
LEMMA PromiseJustifies ==
  ASSUME log \in Seq(Events), [Promise!LogNext]_log
  PROVE  \/ log' = log
         \/ \E e \in Events : Justifies(log, e) /\ log' = Append(log, e)
<1> Promise!Positions = Positions /\ Promise!Requests = Requests
  BY DEF Positions, Requests, Promise!Positions, Promise!Requests
<1>1. ASSUME NEW d \in Facts, Promise!Arrive(d)
      PROVE  \E e \in Events : Justifies(log, e) /\ log' = Append(log, e)
  <2>1. PICK e : e = [kind |-> "fact", delivery |-> d]
    OBVIOUS
  <2>2. e \in Events /\ e.kind = "fact" /\ log' = Append(log, e)
    BY <1>1, <2>1, EventsTyped DEF Promise!Arrive, Promise!Record
  <2> QED
    BY <2>2 DEF Justifies
<1>2. ASSUME NEW r \in Requests, NEW cs \in SUBSET Commands, Promise!Commit(r, cs)
      PROVE  \E e \in Events : Justifies(log, e) /\ log' = Append(log, e)
  <2>1. PICK e : e = [kind |-> "step", request |-> r, commands |-> cs]
    OBVIOUS
  <2>2. e \in Events /\ e.kind = "step" /\ e.commands = cs /\ log' = Append(log, e)
    BY <1>2, <2>1, EventsTyped DEF Promise!Commit, Promise!Record
  <2>3. \A s \in Of(log, "step") : \A c \in cs : c \notin log[s].commands
    BY <1>2 DEF Promise!Commit, Promise!IssuesCommand, Of
  <2> QED
    BY <2>2, <2>3 DEF Justifies
<1>3. ASSUME NEW t \in Positions, Promise!Cancel(t)
      PROVE  \E e \in Events : Justifies(log, e) /\ log' = Append(log, e)
  <2>1. PICK e : e = [kind |-> "cancel", trigger |-> t]
    OBVIOUS
  <2>2. e \in Events /\ e.kind = "cancel" /\ log' = Append(log, e)
    BY <1>3, <2>1, EventsTyped DEF Promise!Cancel, Promise!Record
  <2> QED
    BY <2>2 DEF Justifies
<1>4. ASSUME NEW s \in Positions, Promise!Stop(s)
      PROVE  \E e \in Events : Justifies(log, e) /\ log' = Append(log, e)
  <2>1. PICK e : e = [kind |-> "stop", step |-> s]
    OBVIOUS
  <2>2. e \in Events /\ e.kind = "stop" /\ log' = Append(log, e)
    BY <1>4, <2>1, EventsTyped DEF Promise!Stop, Promise!Record
  <2> QED
    BY <2>2 DEF Justifies
<1>5. ASSUME NEW kind \in {"grant", "reject"}, NEW s \in Positions, NEW c \in Commands,
             Promise!Verdict(kind, s, c)
      PROVE  \E e \in Events : Justifies(log, e) /\ log' = Append(log, e)
  <2>1. PICK e : e = [kind |-> kind, command |-> c, cause |-> s]
    OBVIOUS
  <2>2. /\ e \in Events /\ e.kind \in {"grant", "reject"} /\ e.command = c /\ e.cause = s
        /\ log' = Append(log, e)
    BY <1>5, <2>1, EventsTyped DEF Promise!Verdict, Promise!Record
  <2>3. s \in Of(log, "step") /\ c \in log[s].commands \cap NeedsAuthorization
    BY <1>5 DEF Promise!Verdict, Promise!IssuesCommand, Of
  <2>4. \A g \in DOMAIN log : log[g].kind \in {"grant", "reject"} => log[g].command # c
    BY <1>5 DEF Promise!Verdict, Promise!IsVerdict
  <2> QED
    BY <2>2, <2>3, <2>4 DEF Justifies
<1>6. ASSUME NEW i \in Positions, NEW c \in Commands, Promise!Attempt(i, c)
      PROVE  \E e \in Events : Justifies(log, e) /\ log' = Append(log, e)
  <2>1. PICK e : e = [kind |-> "attempt", command |-> c, number |-> 1, cause |-> i]
    OBVIOUS
  <2>2. /\ e \in Events /\ e.kind = "attempt" /\ e.command = c /\ e.cause = i /\ e.number = 1
        /\ log' = Append(log, e)
    BY <1>6, <2>1, EventsTyped DEF Promise!Attempt, Promise!Record
  <2>3. i \in DOMAIN log /\ EligibleBy(log, i, c)
    BY <1>6 DEF Promise!Attempt, Promise!MakesEligible, Promise!IssuesCommand, EligibleBy
  <2>4. \A a \in Of(log, "attempt") : log[a].command # c
    BY <1>6 DEF Promise!Attempt, Promise!IsAttempt, Of
  <2> QED
    BY <2>2, <2>3, <2>4 DEF Justifies
<1>7. ASSUME NEW a \in Positions, NEW result \in Results, Promise!End(a, result)
      PROVE  \E e \in Events : Justifies(log, e) /\ log' = Append(log, e)
  <2>1. a \in Of(log, "attempt") /\ \A o \in Of(log, "outcome") : log[o].attempt # a
    BY <1>7 DEF Promise!End, Of
  <2>2. log[a] \in Events /\ log[a].kind = "attempt"
    BY <2>1 DEF Of
  <2>3. log[a].command \in Commands
    BY <2>2, EventFields DEF AboutCommand
  <2>4. PICK e : e = [kind |-> "outcome", command |-> log[a].command, attempt |-> a,
                      result |-> result]
    OBVIOUS
  <2>5. /\ e \in Events /\ e.kind = "outcome" /\ e.command = log[a].command /\ e.attempt = a
        /\ log' = Append(log, e)
    BY <1>7, <2>3, <2>4, EventsTyped DEF Promise!End, Promise!Record
  <2> QED
    BY <2>1, <2>5 DEF Justifies
<1> QED
  BY <1>1, <1>2, <1>3, <1>4, <1>5, <1>6, <1>7 DEF Promise!LogNext

\* Whoever calls the Journal, its log is grounded.
LEMMA LogIsGrounded == JournalSpec => []Grounded(log)
<1>1. Promise!LogInit => Grounded(log)
  BY DEF Promise!LogInit, Grounded, IssuedOnce, VerdictsGrounded, AttemptsGrounded, OutcomesGrounded, Of
<1>2. JournalInv /\ Grounded(log) /\ [Promise!LogNext]_log => Grounded(log)'
  <2> SUFFICES ASSUME JournalInv, Grounded(log), [Promise!LogNext]_log PROVE Grounded(log)'
    OBVIOUS
  <2>1. log \in Seq(Events)
    BY DEF JournalInv, JournalTypeOK
  <2>2. CASE log' = log
    BY <2>2 DEF Grounded, IssuedOnce, VerdictsGrounded, AttemptsGrounded, OutcomesGrounded, Of, EligibleBy
  <2>3. ASSUME NEW e \in Events, Justifies(log, e), log' = Append(log, e)
        PROVE  Grounded(log')
    BY <2>1, <2>3, GroundedAppend
  <2> QED
    BY <2>1, <2>2, <2>3, PromiseJustifies
<1>3. JournalSpec => []JournalInv
  BY JournalInvHolds
<1>4. JournalSpec => Promise!LogSpec
  BY JournalKeepsPromise DEF ImplementsEventLog
<1> QED
  BY <1>1, <1>2, <1>3, <1>4, PTL DEF Promise!LogSpec

\* A trigger is consumed by the event its row names.
LEMMA LogConsumesOnce ==
  ASSUME JournalInv
  PROVE  ConsumedOnce(log)
<1> SUFFICES ASSUME NEW i \in DOMAIN log, NEW j \in DOMAIN log, NEW t \in Positions,
                    i \in StepsFor(log, t) \cup CancelsFor(log, t),
                    j \in StepsFor(log, t) \cup CancelsFor(log, t)
             PROVE  i = j
  BY DEF ConsumedOnce
<1>1. JournalTypeOK /\ ConsumptionsMatchLog
  BY DEF JournalInv, Bookkeeping
<1>2. \A k \in DOMAIN log : k \in Positions /\ Recorded(k)
  BY <1>1, LogDomain
<1>3. \A k \in StepsFor(log, t) \cup CancelsFor(log, t) : k = consumed[t]
  BY <1>1, <1>2 DEF StepsFor, CancelsFor, Of, ConsumptionsMatchLog, Consumes
<1> QED
  BY <1>3

\* What a step of the Runtime writes: a decision's step, a cancellation, or neither.
LEMMA RuntimeWrites ==
  ASSUME [RuntimeNext]_runtimeVars
  PROVE  \/ log' = log
         \/ \E cs \in SUBSET Commands : Decide(cs)
         \/ cancelling.pc \in {"active", "frame"} /\ CancelDecision(cancelling.trigger)
         \/ \E e : AppendEvent(e) /\ e.kind \notin {"step", "cancel"}
<1> DEFINE WritesOther == \E e : AppendEvent(e) /\ e.kind \notin {"step", "cancel"}
<1>1. \A d : AcceptDelivery(d) => WritesOther
  <2> SUFFICES ASSUME NEW d, AcceptDelivery(d) PROVE WritesOther
    OBVIOUS
  <2>1. PICK e : e = [kind |-> "fact", delivery |-> d]
    OBVIOUS
  <2> QED
    BY <2>1 DEF AcceptDelivery
<1>2. \A c : Grant(c) \/ Reject(c) => WritesOther
  <2> SUFFICES ASSUME NEW c, Grant(c) \/ Reject(c) PROVE WritesOther
    OBVIOUS
  <2>1. PICK kind \in {"grant", "reject"} :
          AppendEvent([kind |-> kind, command |-> c, cause |-> commandRows[c].issued])
    BY DEF Grant, Reject
  <2>2. PICK e : e = [kind |-> kind, command |-> c, cause |-> commandRows[c].issued]
    OBVIOUS
  <2>3. AppendEvent(e) /\ e.kind = kind
    BY <2>1, <2>2
  <2> QED
    BY <2>3
<1>3. \A c, cause : StartAttempt(c, cause, 1) => WritesOther
  <2> SUFFICES ASSUME NEW c, NEW cause, StartAttempt(c, cause, 1) PROVE WritesOther
    OBVIOUS
  <2>1. PICK e : e = [kind |-> "attempt", command |-> c, number |-> 1, cause |-> cause]
    OBVIOUS
  <2> QED
    BY <2>1 DEF StartAttempt
<1>4. \A a, result : RecordOutcome(a, result) => WritesOther
  <2> SUFFICES ASSUME NEW a, NEW result, RecordOutcome(a, result) PROVE WritesOther
    OBVIOUS
  <2>1. PICK e : e = [kind |-> "outcome", command |-> attemptRows[a].command, attempt |-> a,
                      result |-> result]
    OBVIOUS
  <2>2. AppendEvent(e) /\ e.kind = "outcome"
    BY <2>1 DEF RecordOutcome
  <2> QED
    BY <2>2
<1>5. \A s : CancelContinuation(s) => WritesOther
  <2> SUFFICES ASSUME NEW s, CancelContinuation(s) PROVE WritesOther
    OBVIOUS
  <2>1. PICK e : e = [kind |-> "stop", step |-> s]
    OBVIOUS
  <2> QED
    BY <2>1 DEF CancelContinuation
<1> HIDE DEF WritesOther
<1>6. CASE OutsideAction
  BY <1>1, <1>2, <1>6 DEF OutsideAction, Receive, GrantCommand, RejectCommand, Restart, ExpireStep, WritesOther
<1>7. CASE AdvanceAction
  BY <1>7 DEF AdvanceAction, Freeze, Claim, ClaimRefused, Activate, LoseLease, MissCommit, Withdraw,
              FailDecision, FinishDecision, AdvanceReadsPending, AcquireStep, ReleaseStep, journalVars
<1>8. CASE DispatchAction
  BY <1>3, <1>4, <1>8 DEF DispatchAction, GrantReadsPending, Start, StartRefused, FinishTask, FinishEndedTask,
                          FailTask, ReleaseAttempt, journalVars, WritesOther
<1>9. CASE CancelAction
  BY <1>4, <1>5, <1>9 DEF CancelAction, BeginCancel, LookForActive, CancelActive, AwaitFinished,
              ReadForCancel, CancelFrame, CancelSteps, Interrupt, EndCancel, journalVars, WritesOther
<1>10. CASE UNCHANGED runtimeVars
  BY <1>10 DEF runtimeVars, journalVars
<1> QED
  BY <1>6, <1>7, <1>8, <1>9, <1>10 DEF RuntimeNext

\* Nobody decides without having seen the steps before: neither the steps in the log,
\* nor the advance that holds the lock.
StepsInOrder ==
  /\ \A s, t \in Steps : s < t => s <= ObservedBy(log, t)
  /\ advancing.pc \in {"frozen", "claimed", "deciding"} =>
       \A s \in Steps : s <= advancing.request.frame.observed
  /\ advancing.pc \in {"claimed", "deciding"} => MyLease.request = advancing.request

\* A step of the Runtime that adds a step to the log is Decide.
LEMMA StepsAreDecided ==
  ASSUME RuntimeInv, [RuntimeNext]_runtimeVars
  PROVE  \/ /\ Steps' = Steps
            /\ \A s \in Steps : log'[s] = log[s]
         \/ /\ advancing.pc = "deciding" /\ advancing'.pc = "committed"
            /\ \E e : /\ log' = Append(log, e)
                      /\ e.kind = "step" /\ e.request = MyLease.request
<1>1. log \in Seq(Events) /\ Len(log) \in Nat
  BY DEF RuntimeInv, JournalInv, JournalTypeOK
<1>2. CASE log' = log
  BY <1>2 DEF Steps
<1>3. ASSUME NEW e, AppendEvent(e), e.kind # "step"
      PROVE  Steps' = Steps /\ \A s \in Steps : log'[s] = log[s]
  <2>1. /\ DOMAIN log' = DOMAIN log \cup {Len(log) + 1}
        /\ \A i \in DOMAIN log : log'[i] = log[i]
        /\ log'[Len(log) + 1] = e
    BY <1>1, <1>3 DEF AppendEvent
  <2> QED
    BY <1>3, <2>1 DEF Steps, Of
<1>4. CASE CancelDecision(cancelling.trigger)
  <2>1. PICK e : e = [kind |-> "cancel", trigger |-> cancelling.trigger]
    OBVIOUS
  <2>2. AppendEvent(e) /\ e.kind # "step"
    BY <1>4, <2>1 DEF CancelDecision
  <2> QED
    BY <1>3, <2>2
<1>5. ASSUME NEW cs \in SUBSET Commands, Decide(cs)
      PROVE  /\ advancing.pc = "deciding" /\ advancing'.pc = "committed"
             /\ \E e : log' = Append(log, e) /\ e.kind = "step" /\ e.request = MyLease.request
  <2>1. PICK e : e = [kind |-> "step", request |-> MyLease.request, commands |-> cs]
    OBVIOUS
  <2>2. log' = Append(log, e) /\ e.kind = "step" /\ e.request = MyLease.request
    BY <1>5, <2>1 DEF Decide, CommitStep, AppendEvent
  <2>3. advancing.pc = "deciding" /\ advancing'.pc = "committed"
    BY <1>5 DEF Decide, RuntimeInv, ProcessTypeOK
  <2> QED
    BY <2>2, <2>3
<1> QED
  BY <1>2, <1>3, <1>4, <1>5, RuntimeWrites

\* A lease that was handed out stays as it is.
LEMMA LeasesStay ==
  ASSUME RuntimeInv, [RuntimeNext]_runtimeVars, NEW n \in DOMAIN leases
  PROVE  leases'[n] = leases[n]
<1>1. leases \in Seq(HandedOut)
  BY DEF RuntimeInv, JournalInv, JournalTypeOK
<1>2. leases' = leases \/ \E h : leases' = Append(leases, h)
  BY RuntimeStepIsJournalStep DEF AcquireStep
<1> QED
  BY <1>1, <1>2

\* That order is kept.
LEMMA StepsInOrderStep ==
  ASSUME FrameData = Frames, RuntimeInv, StepsInOrder, [RuntimeNext]_runtimeVars
  PROVE  StepsInOrder'
<1>1. ProcessTypeOK /\ JournalTypeOK /\ log \in Seq(Events) /\ Len(log) \in Nat
  BY DEF RuntimeInv, JournalInv, JournalTypeOK
<1>2. \A s \in Steps : s \in DOMAIN log /\ s \in 1..Len(log)
  BY <1>1 DEF Steps, Of
<1>3. ASSUME Steps' = Steps, \A s \in Steps : log'[s] = log[s],
             NEW s \in Steps', NEW t \in Steps', s < t
      PROVE  s <= ObservedBy(log', t)
  BY <1>3 DEF StepsInOrder, ObservedBy
<1>4. ASSUME advancing.pc = "deciding", NEW e, log' = Append(log, e), e.kind = "step",
             e.request = MyLease.request,
             NEW s \in Steps', NEW t \in Steps', s < t
      PROVE  s <= ObservedBy(log', t)
  <2>1. PICK new : new = Len(log) + 1
    OBVIOUS
  <2>2. /\ \A i \in DOMAIN log' : (i \in DOMAIN log /\ i < new /\ log'[i] = log[i]) \/ i = new
        /\ log'[new] = e
    BY <1>1, <1>4, <2>1
  <2>3. s \in DOMAIN log' /\ t \in DOMAIN log' /\ log'[s].kind = "step" /\ log'[t].kind = "step"
    BY DEF Steps, Of
  <2>4. t \in DOMAIN log => t < new
    BY <1>1, <2>1
  <2>5. s \in DOMAIN log /\ log'[s] = log[s] /\ s \in Steps
    BY <1>4, <2>1, <2>2, <2>3, <2>4 DEF Steps, Of
  <2>6. CASE t = new
    BY <1>4, <2>2, <2>5, <2>6 DEF StepsInOrder, ObservedBy
  <2>7. CASE t \in DOMAIN log /\ log'[t] = log[t]
    <3>1. t \in Steps
      BY <2>3, <2>7 DEF Steps, Of
    <3> QED
      BY <1>4, <2>5, <2>7, <3>1 DEF StepsInOrder, ObservedBy
  <2> QED
    BY <2>2, <2>3, <2>6, <2>7
<1>5. \A s, t \in Steps' : s < t => s <= ObservedBy(log', t)
  BY <1>3, <1>4, StepsAreDecided
<1>6. ASSUME NEW q, q = advancing'.pc, q \in {"frozen", "claimed", "deciding"}, NEW s \in Steps'
      PROVE  s <= advancing'.request.frame.observed
  <2>1. Steps' = Steps
    BY <1>6, StepsAreDecided
  <2>2. CASE Freeze
    <3>1. PICK p : p = Projection(log)
      OBVIOUS
    <3>2. p.next # None
      BY <1>6, <2>2, <3>1 DEF Freeze, GoOnToDispatch, IdleAdvance
    <3>3. advancing'.request = [trigger |-> p.next, frame |-> p.frame]
      BY <2>2, <3>1, <3>2 DEF Freeze, IdleAdvance
    <3>4. p.frame.observed = Len(log)
      BY <1>1, <3>1, ProjectionTyped
    <3> QED
      BY <1>2, <2>1, <3>3, <3>4
  <2>3. CASE Claim
    <3>1. advancing.pc = "frozen" /\ advancing'.request = advancing.request
      BY <1>1, <2>3 DEF Claim, ProcessTypeOK
    <3> QED
      BY <2>1, <3>1 DEF StepsInOrder
  <2>4. CASE /\ advancing'.request = advancing.request
             /\ \/ advancing'.pc = advancing.pc
                \/ advancing.pc \in {"claimed", "deciding"}
    BY <1>6, <2>1, <2>4 DEF StepsInOrder
  <2> QED
    BY <1>1, <1>6, <2>2, <2>3, <2>4, RequestsAreFrozen
<1>7. ASSUME NEW q, q = advancing'.pc, q \in {"claimed", "deciding"}
      PROVE  leases'[advancing'.lease].lease.request = advancing'.request
  <2>1. CASE Freeze
    BY <1>7, <2>1 DEF Freeze, GoOnToDispatch, IdleAdvance
  <2>2. CASE Claim
    <3>1. PICK k, w : AcquireStep(advancing.request, k, w)
      BY <2>2 DEF Claim
    <3>2. PICK h : leases' = Append(leases, h) /\ h.lease.request = advancing.request
      BY <3>1 DEF AcquireStep
    <3>3. leases'[Len(leases')] = h
      BY <1>1, <3>2 DEF JournalTypeOK
    <3>4. advancing'.lease = Len(leases') /\ advancing'.request = advancing.request
      BY <1>1, <2>2 DEF Claim, ProcessTypeOK
    <3> QED
      BY <3>2, <3>3, <3>4
  <2>3. CASE /\ advancing'.request = advancing.request /\ advancing'.lease = advancing.lease
             /\ \/ advancing'.pc = advancing.pc
                \/ advancing.pc \in {"claimed", "deciding"}
    <3>1. advancing.pc \in {"claimed", "deciding"} /\ advancing.lease \in DOMAIN leases
      BY <1>7, <2>3 DEF RuntimeInv, DecidedFromCuts
    <3>2. leases'[advancing.lease] = leases[advancing.lease]
      BY <3>1, LeasesStay
    <3> QED
      BY <2>3, <3>1, <3>2 DEF StepsInOrder, MyLease
  <2> QED
    BY <1>1, <1>7, <2>1, <2>2, <2>3, RequestsAreFrozen
<1>8. advancing'.pc \in {"frozen", "claimed", "deciding"} =>
        \A s \in Steps' : s <= advancing'.request.frame.observed
  BY <1>6
<1>9. advancing'.pc \in {"claimed", "deciding"} => MyLease'.request = advancing'.request
  BY <1>7 DEF MyLease
<1> QED
  BY <1>5, <1>8, <1>9 DEF StepsInOrder

\* What was cancelled, and what is about to be, was next.
CancelsFromCuts ==
  /\ \A k \in Of(log, "cancel") : \E n : WasNext(log, n, log[k].trigger)
  /\ cancelling.pc \in {"active", "frame"} => \E n : WasNext(log, n, cancelling.trigger)

\* cancel_turn goes for the decision that is active, or for the next.
LEMMA CancellingFromCut ==
  ASSUME FrameData = Frames, RuntimeInv, CancelsFromCuts, [RuntimeNext]_runtimeVars,
         NEW q, q = cancelling'.pc, q \in {"active", "frame"}
  PROVE  \E n : WasNext(log, n, cancelling'.trigger)
<1>1. ProcessTypeOK /\ JournalTypeOK /\ log \in Seq(Events) /\ Len(log) \in Nat
  BY DEF RuntimeInv, JournalInv, JournalTypeOK
<1>2. IdleCancel.pc = "idle" /\ \A pc : CancelAt(pc).pc = pc
  BY DEF IdleCancel, CancelAt
<1>3. CASE LookForActive
  <2>1. Active /\ cancelling'.trigger = advancing.request.trigger
    BY <1>2, <1>3 DEF LookForActive, CancelAt, IdleCancel
  <2>2. PICK r : r = advancing.request
    OBVIOUS
  <2>3. IsFromCut(log, r)
    BY <2>1, <2>2 DEF Active, RuntimeInv, DecidedFromCuts
  <2>4. PICK n : n = r.frame.observed
    OBVIOUS
  <2>5. PICK p : p = Projection(SubSeq(log, 1, n))
    OBVIOUS
  <2>6. n \in 0..Len(log) /\ ~p.raised /\ r = [trigger |-> p.next, frame |-> p.frame] /\ r.trigger # None
    BY <2>3, <2>4, <2>5 DEF IsFromCut
  <2>7. r.trigger = p.next
    BY <2>6
  <2>8. WasNext(log, n, r.trigger)
    BY <2>5, <2>6, <2>7 DEF WasNext
  <2> QED
    BY <2>1, <2>2, <2>8
<1>4. CASE ReadForCancel
  <2>1. PICK p : p = Projection(log)
    OBVIOUS
  <2>2. PICK open : open = {s \in ContinuableSteps(p) : StopsFor(log, s) = {}}
    OBVIOUS
  <2>3. \/ ~p.raised /\ p.next # None /\ cancelling' = [CancelAt("frame") EXCEPT !.trigger = p.next]
        \/ cancelling' \in {IdleCancel, [CancelAt("steps") EXCEPT !.steps = open], CancelAt("interrupt")}
    BY <1>4, <2>1, <2>2 DEF ReadForCancel
  <2>4. ~p.raised /\ p.next # None /\ cancelling'.trigger = p.next
    BY <1>2, <2>3 DEF CancelAt, IdleCancel
  <2>5. SubSeq(log, 1, Len(log)) = log /\ Len(log) \in 0..Len(log)
    BY <1>1
  <2> QED
    BY <2>1, <2>4, <2>5 DEF WasNext
<1>5. CASE CancelActive
  BY <1>1, <1>5 DEF CancelActive, ProcessTypeOK
<1>6. CASE \E s \in Positions : CancelSteps(s)
  <2>1. PICK s : CancelSteps(s)
    BY <1>6
  <2>2. cancelling.pc = "steps"
    BY <2>1 DEF CancelSteps
  <2>3. cancelling' = CancelAt("look") \/ cancelling' = [cancelling EXCEPT !.steps = @ \ {s}]
    BY <2>1 DEF CancelSteps
  <2>4. cancelling'.pc \in {"look", "steps"}
    BY <1>1, <1>2, <2>2, <2>3 DEF ProcessTypeOK
  <2> QED
    BY <2>4
<1>7. CASE BeginCancel \/ AwaitFinished \/ CancelFrame \/ EndCancel
  BY <1>2, <1>7 DEF BeginCancel, AwaitFinished, CancelFrame, EndCancel
<1>8. CASE cancelling' \in {IdleCancel, cancelling}
  BY <1>2, <1>8 DEF CancelsFromCuts
<1>9. OutsideAction => cancelling' \in {IdleCancel, cancelling}
  BY DEF OutsideAction, Receive, GrantCommand, RejectCommand, Restart, processVars
<1>10. AdvanceAction => cancelling' = cancelling
  BY DEF AdvanceAction, Freeze, Claim, ClaimRefused, Activate, Decide, LoseLease, MissCommit,
         Withdraw, FailDecision, FinishDecision, AdvanceReadsPending
<1>11. DispatchAction => cancelling' = cancelling
  BY DEF DispatchAction, GrantReadsPending, Start, StartRefused, FinishTask, FinishEndedTask, FailTask
<1>12. (\E a \in running, result \in Results : Interrupt(a, result)) => cancelling' = cancelling
  BY DEF Interrupt, processVars
<1>13. UNCHANGED runtimeVars => cancelling' = cancelling
  BY DEF runtimeVars, processVars
<1> QED
  BY <1>3, <1>4, <1>5, <1>6, <1>7, <1>8, <1>9, <1>10, <1>11, <1>12, <1>13
     DEF RuntimeNext, CancelAction

\* CancelsFromCuts is kept.
LEMMA CancelsStep ==
  ASSUME FrameData = Frames, RuntimeInv, CancelsFromCuts, [RuntimeNext]_runtimeVars
  PROVE  CancelsFromCuts'
<1>1. JournalTypeOK /\ Bookkeeping /\ [JournalNext]_journalVars /\ log \in Seq(Events) /\ Len(log) \in Nat
  BY RuntimeStepIsJournalStep DEF RuntimeInv, JournalInv, JournalTypeOK
<1>2. log' = log \/ \E e \in Events : log' = Append(log, e)
  BY <1>1, StepsAreLeased DEF AppendEvent
<1>3. \A n, t : WasNext(log, n, t) => WasNext(log', n, t)
  BY <1>1, <1>2, WasNextStays
<1>4. ASSUME NEW k \in Of(log', "cancel")
      PROVE  \E n : WasNext(log, n, log'[k].trigger)
  <2>1. k \in DOMAIN log' /\ log'[k].kind = "cancel"
    BY DEF Of
  <2>2. CASE k \in DOMAIN log
    <3>1. log'[k] = log[k]
      BY <1>1, <1>2, <2>2
    <3>2. k \in Of(log, "cancel")
      BY <2>1, <2>2, <3>1 DEF Of
    <3> QED
      BY <3>1, <3>2 DEF CancelsFromCuts
  <2>3. CASE k \notin DOMAIN log
    <3>1. ASSUME NEW e, AppendEvent(e)
          PROVE  log'[k] = e
      <4>1. PICK new : new = Len(log) + 1
        OBVIOUS
      <4>2. DOMAIN log' = DOMAIN log \cup {new} /\ log'[new] = e
        BY <1>1, <3>1, <4>1 DEF AppendEvent
      <4> QED
        BY <2>1, <2>3, <4>2
    <3>2. CASE log' = log
      BY <2>1, <2>3, <3>2
    <3>3. CASE \E cs \in SUBSET Commands : Decide(cs)
      <4>1. PICK cs \in SUBSET Commands : Decide(cs)
        BY <3>3
      <4>2. PICK e : e = [kind |-> "step", request |-> MyLease.request, commands |-> cs]
        OBVIOUS
      <4>3. AppendEvent(e) /\ e.kind = "step"
        BY <4>1, <4>2 DEF Decide, CommitStep
      <4> QED
        BY <2>1, <3>1, <4>3
    <3>4. CASE \E e : AppendEvent(e) /\ e.kind \notin {"step", "cancel"}
      BY <2>1, <3>1, <3>4
    <3>5. CASE cancelling.pc \in {"active", "frame"} /\ CancelDecision(cancelling.trigger)
      <4>1. PICK t : t = cancelling.trigger
        OBVIOUS
      <4>2. PICK e : e = [kind |-> "cancel", trigger |-> t]
        OBVIOUS
      <4>3. AppendEvent(e) /\ e.trigger = t
        BY <3>5, <4>1, <4>2 DEF CancelDecision
      <4>4. log'[k] = e
        BY <3>1, <4>3
      <4> QED
        BY <3>5, <4>1, <4>3, <4>4 DEF CancelsFromCuts
    <3> QED
      BY <3>2, <3>3, <3>4, <3>5, RuntimeWrites
  <2> QED
    BY <2>2, <2>3
<1>5. \A k \in Of(log', "cancel") : \E n : WasNext(log', n, log'[k].trigger)
  BY <1>3, <1>4
<1>6. cancelling'.pc \in {"active", "frame"} => \E n : WasNext(log', n, cancelling'.trigger)
  BY <1>3, CancellingFromCut
<1> QED
  BY <1>5, <1>6 DEF CancelsFromCuts

\* The log of a Runtime is a sourced one,
LEMMA LogIsSourced ==
  ASSUME FrameData = Frames, RuntimeInv, CancelsFromCuts, Grounded(log)
  PROVE  Sourced(log)
<1>1. IsLog(log) /\ ConsumedOnce(log)
  BY LogIsLog, LogConsumesOnce DEF RuntimeInv, JournalInv
<1>2. ASSUME NEW k \in Of(log, "cancel")
      PROVE  \E cut : WasNextIn(cut, log, log[k].trigger)
  <2>1. PICK n : WasNext(log, n, log[k].trigger)
    BY DEF CancelsFromCuts
  <2> QED
    BY <1>1, <2>1, CutsBegin
<1> QED
  BY <1>1, <1>2 DEF Sourced

\* and its steps were decided in order.
LEMMA LogIsInOrder ==
  ASSUME FrameData = Frames, RuntimeInv, StepsInOrder
  PROVE  DecidedInOrder(log)
<1>1. IsLog(log) /\ log \in Seq(Events) /\ Len(log) \in Nat
  BY LogIsLog DEF RuntimeInv, JournalInv, IsLog
<1>2. ASSUME NEW s \in Steps
      PROVE  \E cut : IsCutOf(cut, log, s)
  <2>1. PICK cut : cut = CutOf(s)
    OBVIOUS
  <2>2. /\ IsLog(cut) /\ ~Projection(cut).raised
        /\ Projection(cut).next = log[s].request.trigger
        /\ Projection(cut).next # None
        /\ Projection(cut).frame = log[s].request.frame
        /\ \A i \in DOMAIN cut : cut[i] = log[i]
    BY <2>1, CutIsLog
  <2>3. IsFromCut(log, log[s].request) /\ ObservedBy(log, s) < s
    BY DEF RuntimeInv, DecidedFromCuts
  <2>4. ObservedBy(log, s) \in 0..Len(log)
    BY <2>3 DEF IsFromCut, ObservedBy
  <2>5. Len(cut) = ObservedBy(log, s)
    BY <1>1, <2>1, <2>4 DEF CutOf
  <2>6. Begins(cut, log)
    <3>1. cut \in Seq(Events) /\ DOMAIN cut = 1..Len(cut) /\ Len(cut) <= Len(log)
      BY <1>1, <2>2, <2>4, <2>5 DEF IsLog
    <3> QED
      BY <2>2, <3>1 DEF Begins
  <2> QED
    BY <2>2, <2>3, <2>5, <2>6 DEF IsCutOf, WasNextIn
<1>3. \A s, t \in Of(log, "step") : s < t => s <= ObservedBy(log, t)
  BY DEF StepsInOrder, Steps
<1> QED
  BY <1>2, <1>3 DEF DecidedInOrder, Steps

\* The invariant behind: what the Runtime sees to while it writes the log.
ReplayInv == RuntimeInv /\ AgreeInv /\ StepsInOrder /\ CancelsFromCuts

\* A log the Runtime wrote has a projection, apart from the two.
LEMMA ReplayInvReplays ==
  ASSUME FrameData = Frames, ReplayInv, Grounded(log)
  PROVE  OnlyKnownReplayGaps
<1> SUFFICES ASSUME ~LateGrant, ~StaleCancel PROVE ~Projection(log).raised
  BY DEF OnlyKnownReplayGaps, Replayable
<1>1. RuntimeInv /\ AgreeInv
  BY DEF ReplayInv
<1>2. Sourced(log) /\ DecidedInOrder(log)
  BY LogIsSourced, LogIsInOrder DEF ReplayInv
<1>3. Indexable(log) /\ ~Operational(log).raised
  BY <1>1, IndexIsUnique DEF AgreeInv, StatesAreRows, TargetsPrecede, Indexable
<1>4. ~LateGrantIn(log) /\ ~StaleCancelIn(log)
  BY DEF LateGrant, LateGrantIn, StaleCancel, StaleCancelIn, Steps
<1> QED
  BY <1>2, <1>3, <1>4, LogReplays

\* Every log the Runtime writes has a projection, whatever the interleaving of facts,
\* decisions, verdicts, attempts, outcomes, cancellations and restarts, apart from a late
\* grant and a stale cancellation (runtime.py and dispatcher.py against state.py, project,
\* which raises when what it is to show does not fit what it has shown).
THEOREM OnlyTwoReplayGaps ==
  ASSUME FrameData = Frames
  PROVE  RuntimeSpec => []OnlyKnownReplayGaps
<1>1. RuntimeInit => AgreeInv /\ StepsInOrder /\ CancelsFromCuts
  <2> SUFFICES ASSUME RuntimeInit PROVE AgreeInv /\ StepsInOrder /\ CancelsFromCuts
    OBVIOUS
  <2>1. AgreeInv
    BY AgreeInvInit DEF RuntimeInit
  <2>2. log = << >> /\ advancing.pc = "idle" /\ cancelling.pc = "idle"
    BY DEF RuntimeInit, JournalInit, IdleAdvance, IdleCancel
  <2>3. \A kind : Of(log, kind) = {}
    BY <2>2 DEF Of
  <2> QED
    BY <2>1, <2>2, <2>3 DEF StepsInOrder, CancelsFromCuts, Steps
<1>2. ASSUME FrameData = Frames, RuntimeInv, AgreeInv, StepsInOrder, CancelsFromCuts,
             [RuntimeNext]_runtimeVars
      PROVE  AgreeInv' /\ StepsInOrder' /\ CancelsFromCuts'
  BY <1>2, RuntimeStepIsJournalStep, AgreeInvStep, StepsInOrderStep, CancelsStep
<1>3. RuntimeInv /\ AgreeInv /\ StepsInOrder /\ CancelsFromCuts /\ Grounded(log) => OnlyKnownReplayGaps
  BY ReplayInvReplays DEF ReplayInv
<1>4. RuntimeInv /\ AgreeInv /\ StepsInOrder /\ CancelsFromCuts /\ [RuntimeNext]_runtimeVars =>
        AgreeInv' /\ StepsInOrder' /\ CancelsFromCuts'
  BY <1>2
<1>5. RuntimeSpec => []RuntimeInv
  BY RuntimeInvHolds
<1>6. RuntimeSpec => []Grounded(log)
  BY RuntimeUsesJournal, LogIsGrounded, PTL
<1> QED
  BY <1>1, <1>3, <1>4, <1>5, <1>6, PTL DEF RuntimeSpec

===============================================================================
