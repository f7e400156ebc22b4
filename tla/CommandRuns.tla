----------------------------- MODULE CommandRuns -----------------------------
(***************************************************************************)
(* execute_command and its interruption: the Attempt task of the           *)
(* Dispatcher, tools/builtin/command_interrupts.py, the two runners of     *)
(* sandbox/local/ with wait_process, and SessionScheduler.cancel_turn,     *)
(* which stops what is running.  A command is a shell and perhaps one      *)
(* process it leaves behind, in its process group or out of it, with or    *)
(* without the pipes of the shell.                                         *)
(***************************************************************************)
EXTENDS FiniteSets, Faults

CONSTANT Runs  \* the Attempts of execute_command

VARIABLES
  platform,  \* which runner: "posix" (bash.py) or "windows" (powershell.py)
  runs,      \* Attempt -> its task and its processes
  verdicts,  \* Attempt -> the outcome in the Journal, or "none"
  stop,      \* cancel_turn: where it is, whom it signalled, whom it has to record
  runFaults

commandVars == <<platform, runs, verdicts, stop, runFaults>>

NoChild == [alive |-> FALSE, grouped |-> FALSE, pipes |-> FALSE]

NewRun ==
  [at |-> "eligible", shell |-> "none", child |-> NoChild,
   signalled |-> FALSE, expired |-> FALSE, kind |-> "none"]

IdleStop == [at |-> "idle", lives |-> {}, interrupted |-> {}]

CommandRunsInit ==
  /\ platform \in {"posix", "windows"}
  /\ runs = [c \in Runs |-> NewRun]
  /\ verdicts = [c \in Runs |-> "none"]
  /\ stop = IdleStop
  /\ runFaults = 0

At(c) == runs[c].at

\* CommandInterrupts._live: from arm to finish or fail.
Live(c) == At(c) \in {"starting", "waiting", "draining"}

Goes(c, at) == runs' = [runs EXCEPT ![c].at = at]

-------------------------------------------------------------------------------
\* The processes.

\* The shell starts a process in the background: start_new_session and the Job
\* keep it with the shell unless, on POSIX, it leaves the group.
LeaveBehind(c, grouped, pipes) ==
  /\ runs[c].shell = "alive"
  /\ ~runs[c].child.alive
  /\ grouped \/ platform = "posix"
  /\ runs' = [runs EXCEPT ![c].child =
       [alive |-> TRUE, grouped |-> grouped, pipes |-> pipes]]
  /\ UNCHANGED <<platform, verdicts, stop, runFaults>>

ShellExits(c) ==
  /\ runs[c].shell = "alive"
  /\ runs' = [runs EXCEPT ![c].shell = "dead"]
  /\ UNCHANGED <<platform, verdicts, stop, runFaults>>

ChildExits(c) ==
  /\ runs[c].child.alive
  /\ runs' = [runs EXCEPT ![c].child = NoChild]
  /\ UNCHANGED <<platform, verdicts, stop, runFaults>>

\* killpg, or the Job is closed.
Killed(run) ==
  [run EXCEPT !.shell = "dead", !.child = IF @.grouped THEN NoChild ELSE @]

\* The pipes are at their end when nobody holds them.
PipesClosed(run) == run.shell = "dead" /\ ~(run.child.alive /\ run.child.pipes)

-------------------------------------------------------------------------------
\* One Attempt.

\* start_attempt, and a task that has not run yet.  cancel_turn stops no start.
StartRun(c) ==
  /\ At(c) = "eligible"
  /\ Goes(c, "attempted")
  /\ UNCHANGED <<platform, verdicts, stop, runFaults>>

\* run_interruptible: arm.
Arm(c) ==
  /\ At(c) = "attempted"
  /\ Goes(c, "starting")
  /\ UNCHANGED <<platform, verdicts, stop, runFaults>>

\* create_subprocess_exec
Spawn(c) ==
  /\ At(c) = "starting"
  /\ runs' = [runs EXCEPT ![c].at = "waiting", ![c].shell = "alive"]
  /\ UNCHANGED <<platform, verdicts, stop, runFaults>>

\* CommandStartError, ShellNotFoundError: an answer like any other.
SpawnFails(c) ==
  /\ At(c) = "starting"
  /\ runFaults < MaxFaults
  /\ runs' = [runs EXCEPT ![c].at = "finished", ![c].kind = "not_started"]
  /\ runFaults' = runFaults + 1
  /\ UNCHANGED <<platform, verdicts, stop>>

TimeoutPasses(c) ==
  /\ At(c) = "waiting"
  /\ ~runs[c].expired
  /\ runs' = [runs EXCEPT ![c].expired = TRUE]
  /\ UNCHANGED <<platform, verdicts, stop, runFaults>>

\* wait_process returns.
WaitOver(run) == run.shell = "dead" \/ run.signalled \/ run.expired

\* A known exit comes before an interrupt, an interrupt before the timeout.
KindOf(run) ==
  CASE run.shell = "dead" -> "exited"
    [] run.shell # "dead" /\ run.signalled -> "interrupted"
    [] OTHER -> "timed_out"

\* BashCommandRunner kills what it did not see exit; PowerShellCommandRunner
\* closes the Job in every case.
AfterWait(run, kind) ==
  IF platform = "posix" /\ kind = "exited" THEN run ELSE Killed(run)

EndWait(c) ==
  LET kind == KindOf(runs[c]) IN
  /\ At(c) = "waiting"
  /\ WaitOver(runs[c])
  /\ runs' = [runs EXCEPT ![c] =
       [AfterWait(runs[c], kind) EXCEPT
         !.at = "draining", !.kind = kind, !.signalled = FALSE, !.expired = FALSE]]
  /\ UNCHANGED <<platform, verdicts, stop, runFaults>>

\* The readers are through; the result is made, and whoever waits for it hears.
Drain(c) ==
  /\ At(c) = "draining"
  /\ PipesClosed(runs[c])
  /\ Goes(c, "finished")
  /\ UNCHANGED <<platform, verdicts, stop, runFaults>>

\* accept_outcome: the first outcome of an Attempt stays.
Accepted(c) ==
  verdicts' = [verdicts EXCEPT ![c] = IF @ = "none" THEN runs[c].kind ELSE @]

RecordResult(c) ==
  /\ At(c) = "finished"
  /\ Accepted(c)
  /\ Goes(c, "over")
  /\ UNCHANGED <<platform, stop, runFaults>>

-------------------------------------------------------------------------------
\* SessionScheduler.cancel_turn

\* The Runtime has closed the continuations.
BeginStop ==
  /\ stop.at = "idle"
  /\ stop' = [stop EXCEPT !.at = "closed"]
  /\ UNCHANGED <<platform, runs, verdicts, runFaults>>

\* signal
SignalLive ==
  /\ stop.at = "closed"
  /\ stop' = [stop EXCEPT !.at = "waiting", !.lives = {c \in Runs : Live(c)}]
  /\ runs' = [c \in Runs |-> [runs[c] EXCEPT !.signalled = At(c) \in {"starting", "waiting"}]]
  /\ UNCHANGED <<platform, verdicts, runFaults>>

\* Mutant: the stop does not wait for those it has signalled.
NothingAwaited(c) == TRUE

\* The future of a live command is set.
Heard(c) == ~Live(c)

\* wait: of those signalled, the ones that were interrupted are recorded here.
HearAll ==
  /\ stop.at = "waiting"
  /\ \A c \in stop.lives : Heard(c)
  /\ stop' = [stop EXCEPT !.at = "recording",
                          !.interrupted = {c \in stop.lives : runs[c].kind = "interrupted"}]
  /\ UNCHANGED <<platform, runs, verdicts, runFaults>>

\* _record_command_interrupt
RecordInterrupt(c) ==
  /\ stop.at = "recording"
  /\ c \in stop.interrupted
  /\ Accepted(c)
  /\ stop' = [stop EXCEPT !.interrupted = @ \ {c}]
  /\ UNCHANGED <<platform, runs, runFaults>>

EndStop ==
  /\ stop.at = "recording"
  /\ stop.interrupted = {}
  /\ stop' = [stop EXCEPT !.at = "returned"]
  /\ UNCHANGED <<platform, runs, verdicts, runFaults>>

\* The Worker dies: the Attempts stay unknown.  The Jobs go with it; on POSIX the
\* commands, in sessions of their own, go on.
WorkerDies ==
  /\ runFaults < MaxFaults
  /\ runs' = [c \in Runs |->
       IF At(c) \in {"eligible", "over"}
       THEN runs[c]
       ELSE [IF platform = "windows" THEN Killed(runs[c]) ELSE runs[c] EXCEPT
              !.at = "lost", !.signalled = FALSE, !.expired = FALSE]]
  /\ stop' = IdleStop
  /\ runFaults' = runFaults + 1
  /\ UNCHANGED <<platform, verdicts>>

CommandAction(c) ==
  \/ StartRun(c)
  \/ Arm(c)
  \/ Spawn(c)
  \/ SpawnFails(c)
  \/ TimeoutPasses(c)
  \/ EndWait(c)
  \/ Drain(c)
  \/ RecordResult(c)
  \/ ShellExits(c)
  \/ ChildExits(c)
  \/ \E grouped, pipes \in BOOLEAN : LeaveBehind(c, grouped, pipes)

StopAction ==
  \/ BeginStop
  \/ SignalLive
  \/ HearAll
  \/ \E c \in Runs : RecordInterrupt(c)
  \/ EndStop

CommandRunsNext == (\E c \in Runs : CommandAction(c)) \/ StopAction \/ WorkerDies

\* The event loop and the operating system take every step they can; nobody says
\* that a process ever ends, or that the user asks to stop.
CommandRunsFairness ==
  /\ \A c \in Runs :
       /\ WF_commandVars(Arm(c)) /\ WF_commandVars(Spawn(c))
       /\ WF_commandVars(TimeoutPasses(c)) /\ WF_commandVars(EndWait(c))
       /\ WF_commandVars(Drain(c)) /\ WF_commandVars(RecordResult(c))
  /\ WF_commandVars(SignalLive) /\ WF_commandVars(HearAll)
  /\ WF_commandVars(\E c \in Runs : RecordInterrupt(c))
  /\ WF_commandVars(EndStop)

CommandRunsSpec == CommandRunsInit /\ [][CommandRunsNext]_commandVars

CommandRunsFairSpec == CommandRunsSpec /\ CommandRunsFairness

-------------------------------------------------------------------------------
\* Properties.

\* What a command left behind outlives its outcome only on POSIX, and only when
\* the shell had exited by itself or the process had left the group: a command
\* that was interrupted or ran out of time is gone, children and all, before its
\* outcome is written (docs, interrupts: "recorded before it is terminated, it
\* would be a lie").
OnlyKnownSurvivors ==
  \A c \in Runs :
    verdicts[c] # "none" /\ (runs[c].child.alive \/ runs[c].shell = "alive")
      => platform = "posix" /\ (verdicts[c] = "exited" \/ ~runs[c].child.grouped)

\* When the stop returns, what it signalled has ended, and what it interrupted has
\* its outcome: whatever still runs was not armed when it signalled.
OnlyKnownEscapes ==
  stop.at = "returned" =>
    \A c \in stop.lives :
      ~Live(c) /\ (runs[c].kind = "interrupted" => verdicts[c] = "interrupted")

\* What is stopped, timed out or interrupted is gone when the Session is told that it is,
\* with these gaps and no other.
OutcomesAreTrue == OnlyKnownSurvivors /\ OnlyKnownEscapes

\* Promise (description and timeout_seconds of execute_command: "foreground
\* commands with a timeout only"): every command that was started ends.
RunsEnd == \A c \in Runs : At(c) = "attempted" ~> At(c) \in {"over", "lost"}

===============================================================================
