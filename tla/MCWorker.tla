------------------------------- MODULE MCWorker -------------------------------
(***************************************************************************)
(* Four components around a Worker, each checked by itself in one run:     *)
(* `component` says which of them moves, and the others stay where they    *)
(* begin.                                                                  *)
(***************************************************************************)
EXTENDS Delegation, Compact, ConnectionOwner, CommandRuns

CONSTANTS c1, r1, r2, t1, t2, x1, x2

VARIABLE component

workerVars == <<delegationVars, compactVars, ownerVars, commandVars>>

\* What is not looked at has one beginning.
MCWorkerInit ==
  /\ component \in {"delegation", "compact", "connection", "commands"}
  /\ DelegationInit
  /\ CompactInit /\ (component # "compact" => ~isChild)
  /\ OwnerInit
  /\ CommandRunsInit /\ (component # "commands" => platform = "posix")

MCWorkerNext ==
  /\ UNCHANGED component
  /\ \/ /\ component = "delegation" /\ DelegationNext
        /\ UNCHANGED <<compactVars, ownerVars, commandVars>>
     \/ /\ component = "compact" /\ CompactNext
        /\ UNCHANGED <<delegationVars, ownerVars, commandVars>>
     \/ /\ component = "connection" /\ OwnerNext
        /\ UNCHANGED <<delegationVars, compactVars, commandVars>>
     \/ /\ component = "commands" /\ CommandRunsNext
        /\ UNCHANGED <<delegationVars, compactVars, ownerVars>>

\* The Host's and the Workers' tasks run, models and tools answer, and the user comes back
\* to a parent that waits.
DelegationFairness ==
  /\ \A c \in Children :
       /\ WF_delegationVars(component = "delegation" /\ ParentStep(c))
       /\ WF_delegationVars(component = "delegation" /\ ServeChild(c))
       /\ WF_delegationVars(component = "delegation" /\ Schedule(c))
       /\ WF_delegationVars(component = "delegation" /\ ToolDone(c))
       /\ WF_delegationVars(component = "delegation" /\ DeliverHandoff(c))
  /\ WF_delegationVars(component = "delegation" /\ OpenParent)

\* The Host's task runs, models answer, and the source is opened and wakes again and again.
CompactFairness ==
  /\ WF_compactVars(component = "compact" /\ HostFlow)
  /\ \A r \in Readers : SF_compactVars(component = "compact" /\ Complete(r))
  /\ SF_compactVars(component = "compact" /\ EnterBoundary)
  /\ SF_compactVars(component = "compact" /\ Open)
  /\ WF_compactVars(component = "compact" /\ Wake)
  /\ WF_compactVars(component = "compact" /\ (AdvanceSession \/ Step \/ Quiesce))

\* The event loop runs every task that is ready; whether a server answers is up to it.
OwnerFairness ==
  /\ WF_ownerVars(component = "connection" /\ OwnerRuns)
  /\ WF_ownerVars(component = "connection" /\ CloseReturns)

\* The event loop and the operating system take every step they can; nobody says that a
\* process ever ends, or that the user asks to stop.
RunFairness ==
  /\ \A c \in Runs :
       /\ WF_commandVars(component = "commands" /\ Arm(c))
       /\ WF_commandVars(component = "commands" /\ Spawn(c))
       /\ WF_commandVars(component = "commands" /\ TimeoutPasses(c))
       /\ WF_commandVars(component = "commands" /\ EndWait(c))
       /\ WF_commandVars(component = "commands" /\ Drain(c))
       /\ WF_commandVars(component = "commands" /\ RecordResult(c))
  /\ WF_commandVars(component = "commands" /\ SignalLive)
  /\ WF_commandVars(component = "commands" /\ HearAll)
  /\ WF_commandVars(component = "commands" /\ \E c \in Runs : RecordInterrupt(c))
  /\ WF_commandVars(component = "commands" /\ EndStop)

MCWorkerSpec ==
  /\ MCWorkerInit
  /\ [][MCWorkerNext]_<<component, workerVars>>
  /\ DelegationFairness
  /\ CompactFairness
  /\ OwnerFairness
  /\ RunFairness

===============================================================================
