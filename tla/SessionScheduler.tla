--------------------------- MODULE SessionScheduler ---------------------------
(***************************************************************************)
(* redpanda/assistant/runner.py: the SessionScheduler of one Worker, with  *)
(* the whole AgentRuntime under it.  It owns one task slot; wake starts the*)
(* task or remembers that it is to run again, and the task's completion    *)
(* callback, an action of its own, decides which.  Whoever records a fact, *)
(* a verdict or an outcome calls wake in a later step.  Not in here:       *)
(* before_advance refusing (a compact publication), control facts, and a   *)
(* restart of the process, which the Host answers.                         *)
(***************************************************************************)
EXTENDS AgentRuntime

CONSTANT AutoAuthorize \* auto_authorize of the Session: it grants without asking

ASSUME AutoAuthorizeAssumption == AutoAuthorize \in BOOLEAN

VARIABLES
  task,        \* _task: where _advance_once is and what it carries over an await
  pendingWake, \* _pending_wake
  wakers,      \* calls that have recorded something and have not called wake yet
  failed       \* _failure is set: wake raises, and the Worker is about to end

slotVars == <<task, pendingWake, wakers, failed>>

schedulerVars == <<runtimeVars, slotVars>>

\* position: of the snapshot taken before advance; runnable: what the task returns;
\* granting: what _quiesced has still to grant.
EmptySlot == [pc |-> "none", position |-> 0, runnable |-> FALSE, granting |-> {}]

TaskAt(pc) == [EmptySlot EXCEPT !.pc = pc]

SchedulerTypeOK ==
  /\ RuntimeTypeOK
  /\ task \in [pc : {"none", "begin", "call", "advance", "starting", "status",
                     "quiesce", "granting", "done", "raised"},
               position : 0..MaxEvents, runnable : BOOLEAN, granting : SUBSET Commands]
  /\ pendingWake \in BOOLEAN
  /\ wakers \in Nat
  /\ failed \in BOOLEAN
  /\ pendingWake => task.pc # "none"
  /\ task.pc = "advance" <=> advancing.pc # "idle"
  /\ starting["advance"] # {} => task.pc = "starting"

SchedulerInit ==
  /\ RuntimeInit
  /\ task = EmptySlot
  /\ pendingWake = FALSE
  /\ wakers = 0
  /\ failed = FALSE

-------------------------------------------------------------------------------
\* Callers: record first, wake later.

\* SessionHandle.receive_user_message, and a Worker's "fact"
Deliver(d) ==
  /\ Receive(d)
  /\ wakers' = wakers + 1
  /\ UNCHANGED <<task, pendingWake, failed>>

\* resolve_authorization; its wake may come before the granted command is started,
\* one order more than the code has.
Answer(c) ==
  /\ GrantCommand(c) \/ RejectCommand(c)
  /\ wakers' = wakers + 1
  /\ UNCHANGED <<task, pendingWake, failed>>

\* Mutant: a wake during a run is dropped.
DroppedWake == UNCHANGED <<task, pendingWake>>

\* wake, while the slot is taken
RememberWake == pendingWake' = TRUE /\ UNCHANGED task

Wake ==
  /\ wakers > 0
  /\ wakers' = wakers - 1
  /\ \/ failed /\ UNCHANGED <<task, pendingWake>>
     \/ ~failed /\ task.pc # "none" /\ RememberWake
     \/ ~failed /\ task.pc = "none" /\ task' = TaskAt("begin") /\ UNCHANGED pendingWake
  /\ UNCHANGED <<runtimeVars, failed>>

-------------------------------------------------------------------------------
\* _advance_once

\* What advance's return leads to: run again, or _quiesced.
Returned(runnable) ==
  IF runnable THEN [EmptySlot EXCEPT !.pc = "done", !.runnable = TRUE] ELSE TaskAt("quiesce")

ReadPosition ==
  /\ task.pc = "begin"
  /\ task' = [TaskAt("call") EXCEPT !.position = Len(log)]
  /\ UNCHANGED <<runtimeVars, pendingWake, wakers, failed>>

\* advance finds that the log has moved on: run again.
CallTooLate ==
  /\ task.pc = "call"
  /\ task.position # Len(log)
  /\ task' = Returned(TRUE)
  /\ UNCHANGED <<runtimeVars, pendingWake, wakers, failed>>

CallAdvance ==
  /\ task.pc = "call"
  /\ task.position = Len(log)
  /\ Freeze
  /\ task' = TaskAt("advance")
  /\ UNCHANGED <<pendingWake, wakers, failed>>

\* The log has no projection: ValueError.
CallRaises ==
  /\ task.pc = "call"
  /\ task.position = Len(log)
  /\ Projection(log).raised
  /\ task' = TaskAt("raised")
  /\ UNCHANGED <<runtimeVars, pendingWake, wakers, failed>>

InsideAdvance ==
  /\ task.pc \in {"advance", "starting"}
  /\ \/ Claim
     \/ Activate
     \/ \E cs \in SUBSET Commands : Decide(cs)
     \/ FinishDecision
     \/ \E item \in starting["advance"] : Start("advance", item)
     \/ \E item \in starting["advance"] : StartRefused("advance", item)
  /\ UNCHANGED slotVars

RefusedByClaim ==
  /\ ClaimRefused
  /\ task' = Returned(TRUE)
  /\ UNCHANGED <<pendingWake, wakers, failed>>

\* advance gives up; the status it returns is read in a step of its own.
GiveUpDecision ==
  /\ LoseLease \/ MissCommit \/ Withdraw
  /\ task' = TaskAt("status")
  /\ UNCHANGED <<pendingWake, wakers, failed>>

\* What the projection says of going on; without one, the call raises.
ByStatus(p, slot(_)) ==
  IF p.raised THEN TaskAt("raised") ELSE slot(p.next # None)

ReadStatus ==
  /\ task.pc = "status"
  /\ task' = ByStatus(Projection(log), Returned)
  /\ UNCHANGED <<runtimeVars, pendingWake, wakers, failed>>

\* start_pending's one snapshot gives both what to start and the status.
Starting(runnable) == [TaskAt("starting") EXCEPT !.runnable = runnable]

StartPending ==
  /\ AdvanceReadsPending
  /\ task' = ByStatus(Projection(log), Starting)
  /\ UNCHANGED <<pendingWake, wakers, failed>>

EndAdvance ==
  /\ task.pc = "starting"
  /\ starting["advance"] = {}
  /\ task' = Returned(task.runnable)
  /\ UNCHANGED <<runtimeVars, pendingWake, wakers, failed>>

\* decide failed: a known model failure ends this run, any other the Session.
FailAdvance ==
  /\ FailDecision
  /\ task' \in {TaskAt("done"), TaskAt("raised")}
  /\ UNCHANGED <<pendingWake, wakers, failed>>

AwaitingVerdict(p) == {c \in Commands : Unverdicted(p.commands[c])}

\* _quiesced: grants what waits for a verdict when the Session says so.
Quiesce ==
  /\ task.pc = "quiesce"
  /\ \E p \in {Projection(log)} :
       task' = CASE p.raised -> TaskAt("raised")
                 [] /\ ~p.raised /\ AutoAuthorize /\ p.next = None
                    /\ AwaitingVerdict(p) # {} ->
                      [TaskAt("granting") EXCEPT !.granting = AwaitingVerdict(p)]
                 [] OTHER -> TaskAt("done")
  /\ UNCHANGED <<runtimeVars, pendingWake, wakers, failed>>

GrantsSettled == ~grantOwes /\ starting["grant"] = {}

\* One grant_command, which starts what it can before the next.
GrantOne(c) ==
  /\ task.pc = "granting"
  /\ c \in task.granting
  /\ GrantsSettled
  /\ \/ GrantCommand(c)
     \/ ~AwaitsVerdict(c) /\ UNCHANGED runtimeVars
  /\ task' = [task EXCEPT !.granting = @ \ {c}]
  /\ UNCHANGED <<pendingWake, wakers, failed>>

\* _quiesced wakes its own Session: the slot is taken, so it is remembered.
EndGranting ==
  /\ task.pc = "granting"
  /\ task.granting = {}
  /\ GrantsSettled
  /\ task' = TaskAt("done")
  /\ pendingWake' = TRUE
  /\ UNCHANGED <<runtimeVars, wakers, failed>>

RunsAgain == task.runnable \/ pendingWake

ForgetWake == pendingWake' = FALSE

\* _task_done
TaskDone ==
  /\ task.pc \in {"done", "raised"}
  /\ failed' = (failed \/ task.pc = "raised")
  /\ task' = IF ~failed' /\ RunsAgain THEN TaskAt("begin") ELSE EmptySlot
  /\ ForgetWake
  /\ UNCHANGED <<runtimeVars, wakers>>

-------------------------------------------------------------------------------
\* Tools and cancel_turn.

\* _run ends with _session_changed, which is wake.
EndCommand(a) ==
  /\ (\E result \in Results : FinishTask(a, result)) \/ FinishEndedTask(a)
  /\ wakers' = wakers + 1
  /\ UNCHANGED <<task, pendingWake, failed>>

FailCommand(a) ==
  /\ FailTask(a)
  /\ failed' = TRUE
  /\ UNCHANGED <<task, pendingWake, wakers>>

\* start_pending raises when the log has no projection: the call of the Host that
\* granted ends the Worker, _quiesced ends its task.
ReadGranted ==
  /\ GrantReadsPending
  /\ IF Projection(log).raised
     THEN \/ failed' = TRUE /\ UNCHANGED task
          \/ task.pc = "granting" /\ task' = TaskAt("raised") /\ UNCHANGED failed
     ELSE UNCHANGED <<task, failed>>
  /\ UNCHANGED <<pendingWake, wakers>>

StartGranted ==
  /\ \/ \E item \in starting["grant"] : Start("grant", item)
     \/ \E item \in starting["grant"] : StartRefused("grant", item)
  /\ UNCHANGED slotVars

CancelTurn == CancelAction /\ UNCHANGED slotVars

TaskAction ==
  \/ ReadPosition
  \/ CallTooLate
  \/ CallAdvance
  \/ CallRaises
  \/ InsideAdvance
  \/ RefusedByClaim
  \/ GiveUpDecision
  \/ ReadStatus
  \/ StartPending
  \/ EndAdvance
  \/ Quiesce
  \/ \E c \in Commands : GrantOne(c)
  \/ EndGranting
  \/ TaskDone

SchedulerNext ==
  \/ \E d \in Facts : Deliver(d)
  \/ \E c \in Commands : Answer(c)
  \/ Wake
  \/ TaskAction
  \/ FailAdvance
  \/ \E a \in running : EndCommand(a)
  \/ \E a \in running : FailCommand(a)
  \/ ReadGranted
  \/ StartGranted
  \/ CancelTurn

SchedulerSpec == SchedulerInit /\ [][SchedulerNext]_schedulerVars

-------------------------------------------------------------------------------
\* Properties.

\* Nobody is doing anything about the Session and nobody is about to.
Idle ==
  /\ task.pc = "none"
  /\ wakers = 0
  /\ running = {}
  /\ GrantsSettled
  /\ cancelling.pc = "idle"
  /\ ~failed
  /\ faults = 0

\* No wake is lost: when the task slot is empty and every caller has woken the
\* scheduler, there is no decision to take, whatever arrived, ended or was
\* cancelled between the task's last look at the log and the callback that
\* emptied the slot.
IdleMeansDecided ==
  Idle /\ Replayable => Projection(log).next = None

\* Nor is there a command left that may run or, with auto_authorize, one that
\* waits for a verdict.  A cancellation may leave one.
IdleMeansStarted ==
  Idle /\ Replayable /\ cancels = 0 =>
    \E p \in {Projection(log)} :
      /\ PendingStarts(p) = {}
      /\ AutoAuthorize => AwaitingVerdict(p) = {}

\* An idle scheduler has done everything there is to do.
IdleMeansDone == IdleMeansDecided /\ IdleMeansStarted

===============================================================================
