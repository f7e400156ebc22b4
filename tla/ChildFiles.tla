------------------------------- MODULE ChildFiles -------------------------------
(***************************************************************************)
(* The files a delegated task works on: sandbox/files/children.py and      *)
(* git.py, and who calls them - create_child, prepare_child_files,         *)
(* _reclaim_child and archive of the Host, and the review of a result by   *)
(* the Session that delegated (assistant/subagent/review.py).              *)
(*                                                                         *)
(* Two lines of Sessions delegate: one, and a branch of it that inherits   *)
(* its delegations.  They share the task root.  The user edits the task    *)
(* root at any time; the Host may die between any two of the steps that    *)
(* make something durable.                                                 *)
(*                                                                         *)
(* Abstracted: a file is the number of the edit that made it; Git trees    *)
(* are functions from paths.  A merge is one step: what the user does      *)
(* while it is published is the subject of Publication.                    *)
(***************************************************************************)
EXTENDS Naturals, Faults

CONSTANTS
  Delegations,      \* delegate commands; each determines its child Session
  Paths,
  MaxFileEdits    \* bound: edits by the user and by children

ASSUME ChildFilesAssumption ==
  MaxFileEdits \in Nat /\ None \notin Delegations \cup {"main", "branch"}

TaskLines == {"main", "branch"}

Marked == MaxFileEdits + 1    \* a file with the marks of a conflict

VARIABLES
  root,        \* the task root
  delegator,       \* the line that committed each delegate command
  resolves,    \* resolve_conflicts_of: the delegation whose conflicts it is to resolve
  delegating,  \* phase of each delegate command
  startedFrom,       \* baseline.json: the files it started from, and those it was given
  tree,        \* the work tree
  wrote,       \* paths its operations changed
  born,        \* children whose Session exists
  returned,    \* who ended the child: "itself", the "reclaim" tool, or a line by its archive
  result,      \* result.json
  intents,     \* delegations in each line's history
  reports,     \* reports in each line's history
  sweep,       \* what archive does for each line
  swept,       \* delegations an archive of their line has cleaned up
  origin,      \* history: the task root as it was when the work tree was made from it
  retaken,     \* history: children whose Session existed when their baseline was taken
  edit, fileFaults

exchange == <<startedFrom, tree, wrote, result>>
lineage == <<delegator, resolves, intents>>
endings == <<returned, reports>>
historyVars == <<origin, retaken>>

childFileVars == <<root, lineage, delegating, exchange, born, endings, sweep, swept,
                   historyVars, edit, fileFaults>>

NoSweep == [at |-> "none"]

ChildFilesInit ==
  /\ root = [p \in Paths |-> 0]
  /\ delegator = [c \in Delegations |-> None]
  /\ resolves = [c \in Delegations |-> None]
  /\ delegating = [c \in Delegations |-> "none"]
  /\ startedFrom = [c \in Delegations |-> None]
  /\ tree = [c \in Delegations |-> None]
  /\ wrote = [c \in Delegations |-> {}]
  /\ born = {}
  /\ returned = [c \in Delegations |-> None]
  /\ result = [c \in Delegations |-> None]
  /\ intents = [l \in TaskLines |-> {}]
  /\ reports = [l \in TaskLines |-> {}]
  /\ sweep = [l \in TaskLines |-> NoSweep]
  /\ swept = {}
  /\ origin = [c \in Delegations |-> None]
  /\ retaken = {}
  /\ edit = 0
  /\ fileFaults = 0

-------------------------------------------------------------------------------
\* Three-way merge

\* merge-tree: the paths both sides changed, and differently
Conflicts(base, ours, theirs) ==
  {p \in Paths : /\ ours[p] # base[p]
                 /\ theirs[p] # base[p]
                 /\ ours[p] # theirs[p]}

MergeTree(base, ours, theirs) ==
  [p \in Paths |-> IF p \in Conflicts(base, ours, theirs) THEN Marked
                   ELSE IF theirs[p] = base[p] THEN ours[p] ELSE theirs[p]]

\* _record_paths: the tree it was given, with the paths its operations changed
RecordPaths(c) ==
  [p \in Paths |-> IF p \in wrote[c] THEN tree[c][p] ELSE startedFrom[c].seed[p]]

\* Without the baseline, or without a work tree to read changed files from, it raises.
Recordable(c) == startedFrom[c] # None /\ (tree[c] # None \/ wrote[c] = {})

\* Commands of a line run until it is quiet.  Bound: an archived line is not continued.
Working(l) == sweep[l].at \notin {"discarding", "archived"}

-------------------------------------------------------------------------------
\* Edits

UserEditsRoot ==
  /\ edit < MaxFileEdits
  /\ edit' = edit + 1
  /\ \E p \in Paths : root' = [root EXCEPT ![p] = edit']
  /\ UNCHANGED <<lineage, delegating, exchange, born, endings, sweep, swept, historyVars, fileFaults>>

\* An operation of a child that has not returned
ChildEdits(c) ==
  /\ c \in born
  /\ returned[c] = None
  /\ tree[c] # None
  /\ edit < MaxFileEdits
  /\ edit' = edit + 1
  /\ \E p \in Paths :
       /\ tree' = [tree EXCEPT ![c][p] = edit']
       /\ wrote' = [wrote EXCEPT ![c] = @ \cup {p}]
  /\ UNCHANGED <<root, lineage, delegating, startedFrom, result, born, endings, sweep, swept,
                 historyVars, fileFaults>>

-------------------------------------------------------------------------------
\* finish, and who asks for it

\* The result is frozen once, from the evidence of the child's operations.
Finished(c) ==
  /\ result[c] # None \/ Recordable(c)
  /\ result' = IF result[c] = None
               THEN [result EXCEPT ![c] = [base |-> startedFrom[c].base, version |-> RecordPaths(c)]]
               ELSE result

\* prepare_child_files raises for a line the task is not of, and when nothing is left.
FilesReady(l, c) ==
  /\ delegator[c] = l
  /\ returned[c] # None
  /\ Finished(c)

\* HostSupervisor.request of a report
ReportsTo(l, c) ==
  /\ FilesReady(l, c)
  /\ reports' = [reports EXCEPT ![l] = @ \cup {c}]

ChildReturns(c) ==
  /\ c \in born
  /\ returned[c] = None
  /\ returned' = [returned EXCEPT ![c] = "itself"]
  /\ UNCHANGED <<root, lineage, delegating, exchange, born, reports, sweep, swept, historyVars,
                 edit, fileFaults>>

ChildReports(c) ==
  /\ ReportsTo(delegator[c], c)
  /\ UNCHANGED <<root, lineage, delegating, startedFrom, tree, wrote, born, returned, sweep, swept,
                 historyVars, edit, fileFaults>>

\* _reclaim_child: it is stopped, and its Journal gets its return unless there is one.
Cancelled(c, by) ==
  returned' = IF returned[c] = None THEN [returned EXCEPT ![c] = by] ELSE returned

\* The reclaim tool finds the child among the delegations of the line's history.
ReclaimTask(l, c) ==
  /\ Working(l)
  /\ c \in intents[l] \cap born
  /\ delegating[c] = "done"
  /\ c \notin reports[l]
  /\ Cancelled(c, "reclaim")
  /\ UNCHANGED <<root, lineage, delegating, exchange, born, reports, sweep, swept, historyVars,
                 edit, fileFaults>>

\* merge_subagent: the paths the result changed are merged, or nothing is.
MergeResult(l, c) ==
  /\ Working(l)
  /\ c \in intents[l]
  /\ FilesReady(l, c)
  /\ root' = IF Conflicts(result'[c].base, root, result'[c].version) = {}
             THEN MergeTree(result'[c].base, root, result'[c].version)
             ELSE root
  /\ UNCHANGED <<lineage, delegating, startedFrom, tree, wrote, born, endings, sweep, swept, historyVars,
                 edit, fileFaults>>

-------------------------------------------------------------------------------
\* delegate: create_child and ChildFiles.create

\* A command that is to resolve conflicts names a delegation its history has a report of.
\* Bounds: the branch delegates nothing of its own, and the line that is not branched nothing
\* but one task and the resolution of its conflicts: siblings share only the task root.
Delegate(l, c) ==
  /\ delegator[c] = None
  /\ sweep[l].at = "none"
  /\ l = "main"
  /\ delegator' = [delegator EXCEPT ![c] = l]
  /\ intents' = [intents EXCEPT ![l] = @ \cup {c}]
  /\ \E source \in reports[l] \cup {None} :
       /\ IF source = None THEN intents["main"] = {} ELSE intents["branch"] = {}
       /\ resolves' = [resolves EXCEPT ![c] = source]
  /\ delegating' = [delegating EXCEPT ![c] = "creating"]
  /\ UNCHANGED <<root, exchange, born, endings, sweep, swept, historyVars, edit, fileFaults>>

SourceReady(c) ==
  resolves[c] # None => delegator[resolves[c]] = delegator[c] /\ result[resolves[c]] # None

Baseline(c) ==
  [base |-> root,
   seed |-> IF resolves[c] = None THEN root
            ELSE LET source == result[resolves[c]] IN
                 MergeTree(source.base, root, source.version)]

\* Mutant: every attempt has a baseline of its own.
TakeBaselineAnew(c) ==
  /\ delegating[c] = "creating"
  /\ SourceReady(c)
  /\ startedFrom' = [startedFrom EXCEPT ![c] = Baseline(c)]
  /\ retaken' = IF c \in born THEN retaken \cup {c} ELSE retaken
  /\ UNCHANGED <<root, lineage, delegating, tree, wrote, result, born, endings, sweep, swept,
                 origin, edit, fileFaults>>

\* There is one baseline, with the files of the delegation it is to resolve merged in.
TakeBaseline(c) ==
  /\ delegating[c] = "creating"
  /\ startedFrom[c] = None
  /\ SourceReady(c)
  /\ startedFrom' = [startedFrom EXCEPT ![c] = Baseline(c)]
  /\ retaken' = IF c \in born THEN retaken \cup {c} ELSE retaken
  /\ UNCHANGED <<root, lineage, delegating, tree, wrote, result, born, endings, sweep, swept,
                 origin, edit, fileFaults>>

\* materialize: a tree that is there stays.
MaterializeTree(c) ==
  /\ delegating[c] = "creating"
  /\ startedFrom[c] # None
  /\ tree[c] = None
  /\ tree' = [tree EXCEPT ![c] = startedFrom[c].seed]
  /\ origin' = [origin EXCEPT ![c] = startedFrom[c].base]
  /\ UNCHANGED <<root, lineage, delegating, startedFrom, wrote, result, born, endings, sweep, swept,
                 retaken, edit, fileFaults>>

CreateSession(c) ==
  /\ delegating[c] = "creating"
  /\ tree[c] # None
  /\ born' = born \cup {c}
  /\ UNCHANGED <<root, lineage, delegating, exchange, endings, sweep, swept, historyVars, edit,
                 fileFaults>>

\* Only a Session that was created is acknowledged.
AcknowledgeTask(c) ==
  /\ delegating[c] = "creating"
  /\ c \in born
  /\ tree[c] # None
  /\ delegating' = [delegating EXCEPT ![c] = "done"]
  /\ UNCHANGED <<root, lineage, exchange, born, endings, sweep, swept, historyVars, edit, fileFaults>>

\* rehydrate creates again what is unknown.
CreateAgain(c) ==
  /\ delegating[c] = "unknown"
  /\ sweep[delegator[c]].at = "none"
  /\ delegating' = [delegating EXCEPT ![c] = "creating"]
  /\ UNCHANGED <<root, lineage, exchange, born, endings, sweep, swept, historyVars, edit, fileFaults>>

-------------------------------------------------------------------------------
\* The branch, and archive

\* Bound: the branch is cut once, at the end of a history with one delegation.
CutLine ==
  /\ intents["branch"] = {}
  /\ \E c \in Delegations : intents["main"] = {c}
  /\ \A c \in Delegations : delegating[c] \in {"none", "done"}
  /\ intents' = [intents EXCEPT !["branch"] = intents["main"]]
  /\ reports' = [reports EXCEPT !["branch"] = reports["main"]]
  /\ UNCHANGED <<root, delegator, resolves, delegating, exchange, born, returned, sweep, swept,
                 historyVars, edit, fileFaults>>

\* The line is paused and its turn cancelled; its delegations are those of its history.
BeginArchive(l) ==
  /\ intents[l] # {}
  /\ sweep[l].at = "none"
  /\ sweep' = [sweep EXCEPT ![l] = [at |-> "reclaiming", left |-> intents[l] \cap born,
                                    now |-> None, all |-> intents[l]]]
  /\ UNCHANGED <<root, lineage, delegating, exchange, born, endings, swept, historyVars, edit,
                 fileFaults>>

\* Every child Session is reclaimed: it is stopped and gets its return, ...
CancelForArchive(l, c) ==
  /\ sweep[l].at = "reclaiming"
  /\ sweep[l].now = None
  /\ c \in sweep[l].left
  /\ Cancelled(c, l)
  /\ sweep' = [sweep EXCEPT ![l].now = c, ![l].left = @ \ {c}]
  /\ UNCHANGED <<root, lineage, delegating, exchange, born, reports, swept, historyVars, edit,
                 fileFaults>>

\* ... which is reported to the line; where that raises, the archive ends.
ReportForArchive(l, c) ==
  /\ sweep[l].at = "reclaiming"
  /\ sweep[l].now = c
  /\ \/ /\ ReportsTo(l, c)
        /\ sweep' = [sweep EXCEPT ![l].now = None]
     \/ /\ delegator[c] # l \/ (result[c] = None /\ ~Recordable(c))
        /\ sweep' = [sweep EXCEPT ![l] = NoSweep]
        /\ UNCHANGED <<result, reports>>
  /\ UNCHANGED <<root, lineage, delegating, startedFrom, tree, wrote, born, returned, swept,
                 historyVars, edit, fileFaults>>

\* Mutant: what was asked to stop has stopped.
QuietAtOnce(l) == TRUE

\* wait_quiescent: no command of the line runs, and every child it waits for has returned.
Quiet(l) ==
  \A c \in intents[l] :
    /\ delegator[c] = l => delegating[c] # "creating"
    /\ delegating[c] = "done" /\ c \notin reports[l] => returned[c] # None

BeginDiscard(l) ==
  /\ sweep[l].at = "reclaiming"
  /\ sweep[l].left = {} /\ sweep[l].now = None
  /\ Quiet(l)
  /\ sweep' = [sweep EXCEPT ![l].at = "discarding", ![l].left = sweep[l].all]
  /\ UNCHANGED <<root, lineage, delegating, exchange, born, endings, swept, historyVars, edit,
                 fileFaults>>

\* discard: of one child after the other the work tree, then the exchange and the view.
DiscardTree(l, c) ==
  /\ sweep[l].at = "discarding"
  /\ sweep[l].now = None
  /\ c \in sweep[l].left
  /\ tree' = [tree EXCEPT ![c] = None]
  /\ sweep' = [sweep EXCEPT ![l].now = c]
  /\ UNCHANGED <<root, lineage, delegating, startedFrom, wrote, result, born, endings, swept,
                 historyVars, edit, fileFaults>>

DiscardExchange(l, c) ==
  /\ sweep[l].at = "discarding"
  /\ sweep[l].now = c
  /\ startedFrom' = [startedFrom EXCEPT ![c] = None]
  /\ result' = [result EXCEPT ![c] = None]
  /\ wrote' = [wrote EXCEPT ![c] = {}]
  /\ sweep' = [sweep EXCEPT ![l].now = None, ![l].left = @ \ {c}]
  /\ UNCHANGED <<root, lineage, delegating, tree, born, endings, swept, historyVars, edit,
                 fileFaults>>

EndArchive(l) ==
  /\ sweep[l].at = "discarding"
  /\ sweep[l].left = {}
  /\ swept' = swept \cup sweep[l].all
  /\ sweep' = [sweep EXCEPT ![l] = [at |-> "archived"]]
  /\ UNCHANGED <<root, lineage, delegating, exchange, born, endings, historyVars, edit, fileFaults>>

\* The Host dies, and what it did for its Workers stops where it was.
FilesHostDies ==
  /\ fileFaults < MaxFaults
  /\ fileFaults' = fileFaults + 1
  /\ delegating' = [c \in Delegations |-> IF delegating[c] = "creating" THEN "unknown"
                                    ELSE delegating[c]]
  /\ sweep' = [l \in TaskLines |-> IF sweep[l].at = "archived" THEN sweep[l] ELSE NoSweep]
  /\ UNCHANGED <<root, lineage, exchange, born, endings, swept, historyVars, edit>>

-------------------------------------------------------------------------------
TaskStep(c) ==
  \/ ChildEdits(c)
  \/ ChildReturns(c)
  \/ ChildReports(c)
  \/ TakeBaseline(c)
  \/ MaterializeTree(c)
  \/ CreateSession(c)
  \/ AcknowledgeTask(c)
  \/ CreateAgain(c)

LineStep(l, c) ==
  \/ Delegate(l, c)
  \/ ReclaimTask(l, c)
  \/ MergeResult(l, c)
  \/ CancelForArchive(l, c)
  \/ ReportForArchive(l, c)
  \/ DiscardTree(l, c)
  \/ DiscardExchange(l, c)

ArchiveStep(l) ==
  \/ BeginArchive(l)
  \/ BeginDiscard(l)
  \/ EndArchive(l)

ChildFilesNext ==
  \/ UserEditsRoot
  \/ \E c \in Delegations : TaskStep(c)
  \/ \E l \in TaskLines, c \in Delegations : LineStep(l, c)
  \/ \E l \in TaskLines : ArchiveStep(l)
  \/ CutLine
  \/ FilesHostDies

ChildFilesSpec == ChildFilesInit /\ [][ChildFilesNext]_childFileVars

-------------------------------------------------------------------------------
(* Merging a result replaces a file only where it is still the one the     *)
(* child's work tree was made from: what the user, a sibling or another    *)
(* line changed since then is kept, however often the delegation was       *)
(* created again after its command became unknown.  The one known gap: an  *)
(* archive that dies has removed the exchange of a child, and the child is *)
(* created again.  It is given a baseline of what the root is by then,     *)
(* while its Journal still holds its end: what it merges is nobody's work. *)
MergesOntoWhatItSaw ==
  [][\A l \in TaskLines, c \in Delegations :
       MergeResult(l, c) =>
         \A p \in Paths : root'[p] # root[p] =>
           root[p] = origin[c][p] \/ c \in retaken]_childFileVars

(* What archive cleaned up stays away: no delegation it saw is created, or *)
(* created again, under its hands, so no work tree and no exchange is left *)
(* that nobody would remove.                                               *)
ArchivedIsClean ==
  \A c \in swept : tree[c] = None /\ startedFrom[c] = None /\ result[c] = None

(* Archiving a line stops no child another line waits for.                 *)
ArchiveSparesOthers ==
  \A c \in Delegations : returned[c] \in TaskLines => returned[c] = delegator[c]

=============================================================================
