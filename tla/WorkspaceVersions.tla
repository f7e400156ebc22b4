--------------------------- MODULE WorkspaceVersions ---------------------------
(***************************************************************************)
(* Which file state each Step of a Session is tied to, and what a restore  *)
(* takes back (assistant/workspace_versions.py).                           *)
(*                                                                         *)
(* history is the operation history of the task root.  A version is a      *)
(* length of it, and history[v] the writes in effect there, each named by  *)
(* its version.  Other Sessions of the root, whose operations a restore    *)
(* takes back with the Session's own, are left out; what a user changes    *)
(* and how an operation reaches the files is in Publication.               *)
(*                                                                         *)
(* Abstracted: a Step has one call, which writes files or restores them.   *)
(***************************************************************************)
EXTENDS Integers, Sequences, Faults

CONSTANT MaxSteps  \* bound: Steps the Session commits

\* Where a branch began: the last Step it keeps, and the version of its files
Rescues == [kept : Nat, version : Nat]

ASSUME WorkspaceVersionsAssumption == MaxSteps \in Nat /\ None \notin Rescues

VARIABLES
  history,  \* after each operation, the writes in effect
  steps,    \* the call of each Step
  marks,    \* the version fact of each Step, 0 for the Session's start
  sync,     \* the Steps a running sync has still to record
  turn,     \* "idle", "opening", "deciding" or "closing"
  rescue,   \* where the branch began, or None
  undone,   \* what the last restore of a write left in effect, or None
  versionFaults

versionVars == <<history, steps, marks, sync, turn, rescue, undone, versionFaults>>

Lost == -1
Latest == Len(history)
InEffect(v) == IF v = 0 THEN {} ELSE history[v]
Grown(effects) == Append(history, effects)
Settled(i) == steps[i].phase \in {"done", "rejected"}

WorkspaceVersionsInit ==
  /\ history = <<>>
  /\ steps = <<>>
  /\ marks = [i \in {0} |-> None]
  /\ sync = {}
  /\ turn = "idle"
  /\ rescue = None
  /\ undone = None
  /\ versionFaults = 0

-------------------------------------------------------------------------------
\* WorkspaceVersionBoundary.sync, at both ends of an advance

\* The Session's start is recorded first, then the Steps that are complete.
CompleteSteps == {0} \cup {i \in DOMAIN steps : Settled(i)}

BeginSync(next) ==
  /\ turn' = next
  /\ sync' = {i \in CompleteSteps : marks[i] = None}

\* Without the native program the mark is lost for ever.
RecordStepVersion ==
  /\ \E i \in sync :
       /\ \A j \in sync : i <= j
       /\ sync' = sync \ {i}
       /\ \/ /\ marks' = [marks EXCEPT ![i] = Latest]
             /\ UNCHANGED versionFaults
          \/ /\ versionFaults < MaxFaults
             /\ versionFaults' = versionFaults + 1
             /\ marks' = [marks EXCEPT ![i] = Lost]
  /\ UNCHANGED <<history, steps, turn, rescue, undone>>

-------------------------------------------------------------------------------
\* Turns and calls

BeginStep ==
  /\ turn = "idle"
  /\ BeginSync("opening")
  /\ UNCHANGED <<history, steps, marks, rescue, undone, versionFaults>>

\* An attempt that is out keeps the next decision waiting, a call that waits for its
\* authorization does not.
DecideStep ==
  /\ turn = "opening" /\ sync = {}
  /\ IF \E i \in DOMAIN steps : steps[i].phase = "started"
     THEN BeginSync("closing")
     ELSE turn' = "deciding" /\ UNCHANGED sync
  /\ UNCHANGED <<history, steps, marks, rescue, undone, versionFaults>>

\* All earlier Steps are marked, the one before with the latest version.
Orderly ==
  /\ \A j \in DOMAIN marks : marks[j] \in 0..Latest
  /\ \A j \in DOMAIN marks : marks[j] <= marks[Len(steps)]

\* target 0: the call writes files.
CommitDecision ==
  /\ turn = "deciding"
  /\ Len(steps) < MaxSteps
  /\ \E target \in {0} \cup {i \in DOMAIN steps : Settled(i)} :
       steps' = Append(steps, [phase |-> "waiting", target |-> target, before |-> None,
                               wrote |-> 0, base |-> InEffect(Latest), orderly |-> Orderly])
  /\ marks' = [i \in 0..Len(steps) + 1 |-> IF i \in DOMAIN marks THEN marks[i] ELSE None]
  /\ BeginSync("closing")
  /\ UNCHANGED <<history, rescue, undone, versionFaults>>

EndAdvance ==
  /\ turn = "closing" /\ sync = {}
  /\ turn' = "idle"
  /\ UNCHANGED <<history, steps, marks, sync, rescue, undone, versionFaults>>

\* A call starts with its grant, whatever the turn does.
Authorize(i) ==
  /\ i \in DOMAIN steps
  /\ steps[i].phase = "waiting"
  /\ \E phase \in {"started", "rejected"} : steps' = [steps EXCEPT ![i].phase = phase]
  /\ UNCHANGED <<history, marks, sync, turn, rescue, undone, versionFaults>>

ToolWrites(i) ==
  /\ i \in DOMAIN steps
  /\ steps[i].phase = "started" /\ steps[i].target = 0
  /\ history' = Grown(InEffect(Latest) \cup {Latest + 1})
  /\ steps' = [steps EXCEPT ![i].phase = "done", ![i].wrote = Latest + 1]
  /\ UNCHANGED <<marks, sync, turn, rescue, undone, versionFaults>>

-------------------------------------------------------------------------------
\* Restoring

\* Mutant: the version after the Step, where there is one.
VersionAfter(i, through) ==
  IF marks[through] \in {None, Lost} THEN marks[i] ELSE marks[through]

\* branch_baseline
BranchBaseline(i, through) ==
  IF rescue # None /\ i <= rescue.kept /\ rescue.kept < through
  THEN rescue.version ELSE marks[i]

\* Before the Step of the target; a restore is taken back to where it began.
RestoredVersion(target) ==
  IF steps[target].before # None THEN steps[target].before
  ELSE BranchBaseline(target - 1, target)

\* Refused without the mark of the Step before; nothing to take back is no operation.
Restore(i) ==
  /\ i \in DOMAIN steps
  /\ steps[i].phase = "started" /\ steps[i].target # 0
  /\ LET target == steps[i].target
         version == RestoredVersion(target)
     IN IF marks[target - 1] \in {None, Lost}
        THEN /\ steps' = [steps EXCEPT ![i].phase = "done"]
             /\ UNCHANGED <<history, undone>>
        ELSE /\ history' = IF version = Latest THEN history ELSE Grown(InEffect(version))
             /\ steps' = [steps EXCEPT ![i].phase = "done", ![i].before = Latest]
             /\ undone' = IF steps[target].wrote = 0 THEN None
                          ELSE [target |-> target, left |-> InEffect(version)]
  /\ UNCHANGED <<marks, sync, turn, rescue, versionFaults>>

\* settle_fork: the Session goes on as a branch that keeps the Steps up to a recorded one,
\* with the files of that Step or with those that are there.
Fork(kept) ==
  /\ rescue = None /\ turn = "idle"
  /\ kept \in DOMAIN steps
  /\ \A i \in 1..kept : Settled(i)
  /\ marks[kept] \in 0..Latest
  /\ steps' = SubSeq(steps, 1, kept)
  /\ marks' = [i \in 0..kept |-> marks[i]]
  /\ \/ history' = IF marks[kept] = Latest THEN history ELSE Grown(InEffect(marks[kept]))
     \/ history' = history
  /\ rescue' = [kept |-> kept, version |-> Len(history')]
  /\ undone' = None
  /\ UNCHANGED <<sync, turn, versionFaults>>

WorkspaceVersionsNext ==
  \/ RecordStepVersion \/ BeginStep \/ DecideStep \/ CommitDecision \/ EndAdvance
  \/ \E i \in 1..MaxSteps : Authorize(i) \/ ToolWrites(i) \/ Restore(i) \/ Fork(i)

WorkspaceVersionsSpec == WorkspaceVersionsInit /\ [][WorkspaceVersionsNext]_versionVars

-------------------------------------------------------------------------------
\* Properties

OwnWrites == {steps[i].wrote : i \in DOMAIN steps}

\* Where every Step was marked before the next one was committed, a restore leaves exactly
\* the Session's writes that were there when the Step of the named call was committed.
OrderlyRestoresAreExact ==
  undone # None /\ steps[undone.target].orderly =>
    undone.left \cap OwnWrites = steps[undone.target].base \cap OwnWrites

===============================================================================
