------------------------------ MODULE Delegation ------------------------------
(***************************************************************************)
(* Delegation to sub agents: redpanda/assistant/subagent, the parts of the *)
(* Host and the Worker it goes through, and the frozen files of            *)
(* sandbox/files/children.py.  One parent Session delegates tasks; each    *)
(* child is a Session with a Journal, a Worker and a scheduler of its own. *)
(* Parent and child Workers and the Host may die at any step; a Host that  *)
(* died leaves the Journals and the frozen files.                          *)
(***************************************************************************)
EXTENDS Naturals, FiniteSets, Faults

CONSTANTS
  Children,     \* delegate commands; the command determines its child Session
  MaxTools      \* bound: tool calls of one child

ASSUME DelegationAssumption ==
  MaxTools \in Nat

\* What a return says of the child's end
Ends == {"done", "failed", "crashed", "interrupted", "cancelled"}

VARIABLES
  parent,    \* the parent's Worker: up or not, and what its rehydrate still has to do
  command,   \* phase of each delegate command in the parent's Journal
  reclaim,   \* where the parent's reclaim of each child is
  report,    \* the report of each child in the parent's Journal
  task,      \* children whose Journal exists, with the task it was created with
  open,      \* children whose Journal asks for a decision
  lost,      \* children whose Journal has a started tool call without outcome, and no Worker
  return,    \* the return of each child in its own Journal
  child,     \* the Worker of each child: life, turn of its scheduler, pending wake, tool
  calls,     \* requests to the child the Host has to hand to its Worker
  handoff,   \* children whose dead Worker left its return with the Host
  edits,     \* what each child has done to its files
  frozen,    \* result.json: the edits the parent may accept
  delegationFaults

parentVars == <<parent, command, reclaim, report>>

journals == <<task, open, lost, return>>

files == <<edits, frozen>>

delegationVars ==
  <<parentVars, journals, child, calls, handoff, files, delegationFaults>>

Resting == [life |-> "down", turn |-> "idle", again |-> FALSE, tool |-> FALSE]

Delegated(c) == command[c] \in {"started", "unknown", "done"}

\* project_pending
Awaited(c) == Delegated(c) /\ report[c] = None

DelegationInit ==
  /\ parent = [up |-> TRUE, plan |-> [c \in Children |-> "none"]]
  /\ command = [c \in Children |-> "none"]
  /\ reclaim = [c \in Children |-> "none"]
  /\ report = [c \in Children |-> None]
  /\ task = {}
  /\ open = {}
  /\ lost = {}
  /\ return = [c \in Children |-> None]
  /\ child = [c \in Children |-> Resting]
  /\ calls = [c \in Children |-> {}]
  /\ handoff = {}
  /\ edits = [c \in Children |-> 0]
  /\ frozen = [c \in Children |-> None]
  /\ delegationFaults = 0

-------------------------------------------------------------------------------
\* Writes that several handlers share

\* Mutant: the last writer's return stands.
LastReturn(c, end) == [return EXCEPT ![c] = end]

\* persist_return: the first durable return wins.
PersistReturn(c, end) == IF return[c] = None THEN [return EXCEPT ![c] = end] ELSE return

\* Host.request of a report: the child's files are frozen once, and the parent's Journal
\* accepts one report of the child.
Reported(c) ==
  /\ return[c] # None
  /\ frozen' = IF frozen[c] = None THEN [frozen EXCEPT ![c] = edits[c]] ELSE frozen
  /\ report' = IF report[c] = None THEN [report EXCEPT ![c] = return[c]] ELSE report

\* SessionScheduler.wake
Woken(c) ==
  child' = IF child[c].turn = "idle" THEN [child EXCEPT ![c].turn = "advance"]
           ELSE [child EXCEPT ![c].again = TRUE]

\* The request a Worker that is gone was serving fails in its caller.
Gone(c) == [calls EXCEPT ![c] = {}]

\* A resume of the child that fails is a routing failure of the parent's Worker, and the
\* Host terminates it.  Its requests on the Host are cancelled: reclaims stop where they are.
ParentAfter(fails) == IF fails THEN [parent EXCEPT !.up = FALSE, !.plan = [c \in Children |-> "none"]]
                      ELSE parent

CommandsAfter(fails) ==
  [c \in Children |-> IF fails /\ command[c] = "started" THEN "unknown" ELSE command[c]]

Reclaiming(c) == reclaim[c] \in {"stop", "persist", "send"}

ReclaimsAfter(fails) ==
  [c \in Children |-> IF fails /\ Reclaiming(c) THEN "unknown" ELSE reclaim[c]]

-------------------------------------------------------------------------------
\* The parent: delegate, and what the Host does for it

\* The Step with the command is committed and its attempt starts.
Delegate(c) ==
  /\ parent.up
  /\ command[c] = "none"
  /\ command' = [command EXCEPT ![c] = "started"]
  /\ UNCHANGED <<parent, reclaim, report, journals, child, calls, handoff, files, delegationFaults>>

\* create_child: baseline, work tree and Journal with its task; a Journal that is there must
\* hold the same task.
CreateChild(c) ==
  /\ parent.up
  /\ command[c] = "started"
  /\ c \notin task
  /\ task' = task \cup {c}
  /\ open' = open \cup {c}
  /\ UNCHANGED <<parentVars, lost, return, child, calls, handoff, files, delegationFaults>>

\* The activation is a task of the Host, and DELEGATED is the outcome.
Acknowledge(c) ==
  /\ parent.up
  /\ command[c] = "started"
  /\ c \in task
  /\ calls' = [calls EXCEPT ![c] = @ \cup {"fact"}]
  /\ command' = [command EXCEPT ![c] = "done"]
  /\ UNCHANGED <<parent, reclaim, report, journals, child, handoff, files, delegationFaults>>

-------------------------------------------------------------------------------
\* The parent: explicit resume

\* resume: rehydrate reads the Journal once, and works on what it read.
OpenParent ==
  /\ parent.plan = [c \in Children |-> "none"]
  /\ parent' = [up |-> TRUE, plan |-> [c \in Children |->
       CASE command[c] = "unknown" -> "create"
         [] command[c] = "done" /\ report[c] = None -> "resume"
         [] OTHER -> "none"]]
  /\ UNCHANGED <<command, reclaim, report, journals, child, calls, handoff, files, delegationFaults>>

\* One request after the other
Turn(c, plan) ==
  /\ parent.up
  /\ parent.plan[c] = plan
  /\ \A d \in Children \ {c} : parent.plan[d] \notin {"record", "wait"}

RecreateChild(c) ==
  /\ Turn(c, "create")
  /\ task' = task \cup {c}
  /\ open' = IF c \in task THEN open ELSE open \cup {c}
  /\ calls' = [calls EXCEPT ![c] = @ \cup {"fact"}]
  /\ parent' = [parent EXCEPT !.plan[c] = "record"]
  /\ UNCHANGED <<command, reclaim, report, lost, return, child, handoff, files, delegationFaults>>

\* The unknown attempt gets its outcome.  The phase rehydrate goes by is the one it read, so
\* this child is not resumed.
RecordDelegated(c) ==
  /\ Turn(c, "record")
  /\ command' = [command EXCEPT ![c] = "done"]
  /\ parent' = [parent EXCEPT !.plan[c] = "none"]
  /\ UNCHANGED <<reclaim, report, journals, child, calls, handoff, files, delegationFaults>>

ResumeChild(c) ==
  /\ Turn(c, "resume")
  /\ calls' = [calls EXCEPT ![c] = @ \cup {"resume"}]
  /\ parent' = [parent EXCEPT !.plan[c] = "wait"]
  /\ UNCHANGED <<command, reclaim, report, journals, child, handoff, files, delegationFaults>>

-------------------------------------------------------------------------------
\* The parent: reclaim

\* The command finds the child among its delegations and no report of it.
\* Bound: one reclaim of each child.
Reclaim(c) ==
  /\ parent.up
  /\ command[c] = "done"
  /\ Awaited(c)
  /\ reclaim[c] = "none"
  /\ reclaim' = [reclaim EXCEPT ![c] = "stop"]
  /\ UNCHANGED <<parent, command, report, journals, child, calls, handoff, files, delegationFaults>>

\* _reclaim_child stops the Worker under the Session's lock.
StopForReclaim(c) ==
  LET fails == calls[c] \cap {"resume", "resend"} # {} /\ child[c].life # "down" IN
  /\ reclaim[c] = "stop"
  /\ child' = [child EXCEPT ![c] = Resting]
  /\ lost' = IF child[c].tool THEN lost \cup {c} ELSE lost
  /\ calls' = IF child[c].life = "down" THEN calls ELSE Gone(c)
  /\ parent' = ParentAfter(fails)
  /\ command' = CommandsAfter(fails)
  /\ reclaim' = IF fails THEN ReclaimsAfter(fails) ELSE [reclaim EXCEPT ![c] = "persist"]
  /\ UNCHANGED <<report, task, open, return, handoff, files, delegationFaults>>

PersistCancelled(c) ==
  /\ reclaim[c] = "persist"
  /\ return' = PersistReturn(c, "cancelled")
  /\ reclaim' = [reclaim EXCEPT ![c] = "send"]
  /\ UNCHANGED <<parent, command, report, task, open, lost, child, calls, handoff, files, delegationFaults>>

ReportReclaimed(c) ==
  /\ reclaim[c] = "send"
  /\ Reported(c)
  /\ reclaim' = [reclaim EXCEPT ![c] = "done"]
  /\ UNCHANGED <<parent, command, journals, child, calls, handoff, edits, delegationFaults>>

-------------------------------------------------------------------------------
\* The child's Worker

Locked(c) == reclaim[c] = "persist"

StartChild(c) ==
  /\ calls[c] # {}
  /\ child[c].life = "down"
  /\ ~Locked(c)
  /\ child' = [child EXCEPT ![c].life = "starting"]
  /\ UNCHANGED <<parentVars, journals, calls, handoff, files, delegationFaults>>

\* record_interrupted_return, before anything else can run
RecordInterrupted(c) ==
  /\ child[c].life = "starting"
  /\ return' = IF c \in lost THEN PersistReturn(c, "interrupted") ELSE return
  /\ child' = [child EXCEPT ![c].life = "up"]
  /\ UNCHANGED <<parentVars, task, open, lost, calls, handoff, files, delegationFaults>>

\* note_returned
MayWake(c) == return[c] = None

\* The task fact arrives, again or for the first time; the Journal takes it once.
HandleFact(c) ==
  /\ child[c].life = "up"
  /\ "fact" \in calls[c]
  /\ calls' = [calls EXCEPT ![c] = @ \ {"fact"}]
  /\ IF MayWake(c) THEN Woken(c) ELSE UNCHANGED child
  /\ UNCHANGED <<parentVars, journals, handoff, files, delegationFaults>>

Answered(c) ==
  /\ calls' = [calls EXCEPT ![c] = @ \ {"resume", "resend"}]
  /\ parent' = IF parent.plan[c] = "wait" THEN [parent EXCEPT !.plan[c] = "none"] ELSE parent

\* Mutant: a child that has returned is taken for settled.
AnswersOnly(c) ==
  /\ child[c].life = "up"
  /\ "resume" \in calls[c]
  /\ IF return[c] = None /\ c \in open THEN Woken(c) ELSE UNCHANGED child
  /\ Answered(c)
  /\ UNCHANGED <<command, reclaim, report, journals, handoff, files, delegationFaults>>

\* sessions.resume of the child: a return is reported again; a child with something to decide
\* is woken; one that is at rest without a return gives it now.
HandleResume(c) ==
  /\ child[c].life = "up"
  /\ "resume" \in calls[c]
  /\ IF return[c] = None /\ (c \in open \/ child[c].tool)
     THEN /\ IF c \in open THEN Woken(c) ELSE UNCHANGED child
          /\ Answered(c)
          /\ UNCHANGED return
     ELSE /\ return' = PersistReturn(c, "done")
          /\ calls' = [calls EXCEPT ![c] = (@ \ {"resume"}) \cup {"resend"}]
          /\ UNCHANGED <<child, parent>>
  /\ UNCHANGED <<command, reclaim, report, task, open, lost, handoff, files, delegationFaults>>

Resend(c) ==
  /\ child[c].life = "up"
  /\ "resend" \in calls[c]
  /\ Reported(c)
  /\ Answered(c)
  /\ UNCHANGED <<command, reclaim, journals, child, handoff, edits, delegationFaults>>

-------------------------------------------------------------------------------
\* The child's scheduler

\* before_advance stops a child that has returned; runtime.advance asks the model when the
\* Journal asks for a decision.
NextTurn(c) ==
  CASE return[c] # None -> "ended"
    [] return[c] = None /\ c \in open -> "think"
    [] OTHER -> "quiesced"

Advance(c) ==
  /\ child[c].turn = "advance"
  /\ child' = [child EXCEPT ![c].turn = NextTurn(c)]
  /\ UNCHANGED <<parentVars, journals, calls, handoff, files, delegationFaults>>

\* The Step is a final answer, ...
FinalStep(c) ==
  /\ child[c].turn = "think"
  /\ open' = open \ {c}
  /\ child' = [child EXCEPT ![c].turn = "quiesced"]
  /\ UNCHANGED <<parentVars, task, lost, return, calls, handoff, files, delegationFaults>>

\* ... or a tool call ...
ToolStep(c) ==
  /\ child[c].turn = "think"
  /\ edits[c] < MaxTools
  /\ open' = open \ {c}
  /\ child' = [child EXCEPT ![c].turn = "quiesced", ![c].tool = TRUE]
  /\ edits' = [edits EXCEPT ![c] = @ + 1]
  /\ UNCHANGED <<parentVars, task, lost, return, calls, handoff, frozen, delegationFaults>>

\* ... or the model fails in a way the scheduler knows, and the Journal still asks.
KnownFailure(c) ==
  /\ child[c].turn = "think"
  /\ child' = [child EXCEPT ![c].turn = "failing"]
  /\ UNCHANGED <<parentVars, journals, calls, handoff, files, delegationFaults>>

ToolDone(c) ==
  /\ child[c].life = "up"
  /\ child[c].tool
  /\ open' = open \cup {c}
  /\ child' = IF child[c].turn = "idle"
              THEN [child EXCEPT ![c].tool = FALSE, ![c].turn = "advance"]
              ELSE [child EXCEPT ![c].tool = FALSE, ![c].again = TRUE]
  /\ UNCHANGED <<parentVars, task, lost, return, calls, handoff, files, delegationFaults>>

\* on_quiesced and on_failed; a child that waits for a command has not ended.
Return(c) ==
  /\ \/ /\ child[c].turn = "quiesced"
        /\ IF child[c].tool \/ c \in open
           THEN child' = [child EXCEPT ![c].turn = "ended"] /\ UNCHANGED return
           ELSE child' = [child EXCEPT ![c].turn = "report"] /\ return' = PersistReturn(c, "done")
     \/ /\ child[c].turn = "failing"
        /\ child' = [child EXCEPT ![c].turn = "report"]
        /\ return' = PersistReturn(c, "failed")
  /\ UNCHANGED <<parentVars, task, open, lost, calls, handoff, files, delegationFaults>>

ReportReturn(c) ==
  /\ child[c].turn = "report"
  /\ Reported(c)
  /\ child' = [child EXCEPT ![c].turn = "ended"]
  /\ UNCHANGED <<parent, command, reclaim, journals, calls, handoff, edits, delegationFaults>>

\* _task_done: a wake that came meanwhile starts another advance.
TaskDone(c) ==
  /\ child[c].turn = "ended"
  /\ child' = [child EXCEPT ![c].turn = IF child[c].again THEN "advance" ELSE "idle",
                            ![c].again = FALSE]
  /\ UNCHANGED <<parentVars, journals, calls, handoff, files, delegationFaults>>

\* The idle Worker leaves.
ChildStops(c) ==
  /\ child[c].life = "up"
  /\ child[c].turn = "idle"
  /\ ~child[c].tool
  /\ calls[c] = {}
  /\ child' = [child EXCEPT ![c] = Resting]
  /\ UNCHANGED <<parentVars, journals, calls, handoff, files, delegationFaults>>

-------------------------------------------------------------------------------
\* Deaths

ChildGone(c) ==
  LET fails == calls[c] \cap {"resume", "resend"} # {} IN
  /\ delegationFaults < MaxFaults
  /\ delegationFaults' = delegationFaults + 1
  /\ child[c].life # "down"
  /\ child' = [child EXCEPT ![c] = Resting]
  /\ lost' = IF child[c].tool THEN lost \cup {c} ELSE lost
  /\ calls' = Gone(c)
  /\ parent' = ParentAfter(fails)
  /\ command' = CommandsAfter(fails)
  /\ reclaim' = ReclaimsAfter(fails)

\* The process is killed.
KillChild(c) ==
  /\ ChildGone(c)
  /\ UNCHANGED <<report, task, open, return, handoff, files>>

\* run_worker's boundary: an unknown exception writes the return and hands it to the Host.
FailChild(c) ==
  /\ ChildGone(c)
  /\ return' = PersistReturn(c, "crashed")
  /\ handoff' = handoff \cup {c}
  /\ UNCHANGED <<report, task, open, files>>

\* _watch, after the dead Worker is released
DeliverHandoff(c) ==
  /\ c \in handoff
  /\ handoff' = handoff \ {c}
  /\ Reported(c)
  /\ UNCHANGED <<parent, command, reclaim, journals, child, calls, edits, delegationFaults>>

ParentDies ==
  /\ delegationFaults < MaxFaults
  /\ delegationFaults' = delegationFaults + 1
  /\ parent.up
  /\ parent' = ParentAfter(TRUE)
  /\ command' = CommandsAfter(TRUE)
  /\ reclaim' = ReclaimsAfter(TRUE)
  /\ calls' = [c \in Children |-> calls[c] \ {"resume", "resend"}]
  /\ UNCHANGED <<report, journals, child, handoff, files>>

\* Every Worker ends with its Host.
HostDies ==
  /\ delegationFaults < MaxFaults
  /\ delegationFaults' = delegationFaults + 1
  /\ parent' = ParentAfter(TRUE)
  /\ command' = CommandsAfter(TRUE)
  /\ reclaim' = ReclaimsAfter(TRUE)
  /\ lost' = lost \cup {c \in Children : child[c].tool}
  /\ child' = [c \in Children |-> Resting]
  /\ calls' = [c \in Children |-> {}]
  /\ handoff' = {}
  /\ UNCHANGED <<report, task, open, return, files>>

-------------------------------------------------------------------------------
ParentStep(c) ==
  \/ CreateChild(c)
  \/ Acknowledge(c)
  \/ RecreateChild(c)
  \/ RecordDelegated(c)
  \/ ResumeChild(c)
  \/ StopForReclaim(c)
  \/ PersistCancelled(c)
  \/ ReportReclaimed(c)

\* The requests of the Host at the child's Worker
ServeChild(c) ==
  \/ StartChild(c)
  \/ RecordInterrupted(c)
  \/ HandleFact(c)
  \/ HandleResume(c)
  \/ Resend(c)

\* The task of the child's scheduler
Schedule(c) ==
  \/ Advance(c)
  \/ FinalStep(c)
  \/ ToolStep(c)
  \/ KnownFailure(c)
  \/ Return(c)
  \/ ReportReturn(c)
  \/ TaskDone(c)

DelegationNext ==
  \/ \E c \in Children :
       \/ Delegate(c)
       \/ Reclaim(c)
       \/ ParentStep(c)
       \/ ServeChild(c)
       \/ Schedule(c)
       \/ ToolDone(c)
       \/ ChildStops(c)
       \/ DeliverHandoff(c)
       \/ KillChild(c)
       \/ FailChild(c)
  \/ OpenParent
  \/ ParentDies
  \/ HostDies

DelegationSpec == DelegationInit /\ [][DelegationNext]_delegationVars

-------------------------------------------------------------------------------
(* What the parent is told of a child is the child's one durable return,   *)
(* whoever of the child, its dying Worker, a new Worker, the Host's        *)
(* reclaim and a resume comes first.                                       *)
ReportIsTheReturn ==
  \A c \in Children : report[c] # None => report[c] = return[c]

(* Whatever processes die, and however reclaims and resumes cross: a child *)
(* that was delegated reports, if the user resumes its parent often enough.*)
EveryDelegationReports ==
  \A c \in Children : command[c] = "done" ~> report[c] # None

===============================================================================
