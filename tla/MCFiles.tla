-------------------------------- MODULE MCFiles --------------------------------
(***************************************************************************)
(* What is kept in files, and outlives the process that writes it: the     *)
(* Journals of branches, the publication of a file, the requests of        *)
(* control and their approvals, the files children exchange, and the       *)
(* registration of MCP servers.  `component` says which of them moves, and *)
(* the others stay where they begin.                                       *)
(***************************************************************************)
EXTENDS Branches, Publication, Control, ChildFiles, McpApprovals, TLC

CONSTANTS r, x, a1, a2, b1, b2  \* the same values stand for things of several components

VARIABLE component

\* What is not looked at has one beginning.
MCFilesInit ==
  /\ component \in {"branches", "publication", "control", "children", "approvals"}
  /\ BranchInit
  /\ PublicationInit
  /\ component # "publication" =>
       platform = "posix" /\ \A p \in Positions : live.bytes[p] = x
  /\ ControlInit
  /\ ChildFilesInit
  /\ ApprovalInit

MCFilesNext ==
  /\ UNCHANGED component
  /\ \/ /\ component = "branches" /\ BranchNext
        /\ UNCHANGED <<publicationVars, controlVars, childFileVars, approvalVars>>
     \/ /\ component = "publication" /\ PublicationNext
        /\ UNCHANGED <<branchVars, controlVars, childFileVars, approvalVars>>
     \/ /\ component = "control" /\ ControlNext
        /\ UNCHANGED <<branchVars, publicationVars, childFileVars, approvalVars>>
     \/ /\ component = "children" /\ ChildFilesNext
        /\ UNCHANGED <<branchVars, publicationVars, controlVars, approvalVars>>
     \/ /\ component = "approvals" /\ ApprovalNext
        /\ UNCHANGED <<branchVars, publicationVars, controlVars, childFileVars>>

MCFilesSpec ==
  MCFilesInit
  /\ [][MCFilesNext]_<<component, branchVars, publicationVars, controlVars,
                       childFileVars, approvalVars>>

FileSymmetry == Permutations({a1, a2}) \cup Permutations({b1, b2})

BranchesBegun == Cardinality({b \in Branches : flow[b].at # "none"})

\* Bound: two branches and no death, or one branch, one death and a longer history.
FewBranches == BranchesBegun + hostDeaths <= 2 /\ RowsWritten + BranchesBegun <= MaxRows + 1

\* Bound: one death.  A second one leaves a delegation of a line that is not archived to be
\* created again.
FewDeaths ==
  /\ controlFaults <= 1 /\ publicationFaults <= 1 /\ approvalFaults <= 1
  /\ \/ fileFaults <= 1
     \/ /\ \E c \in Delegations : delegating[c] \in {"creating", "unknown"}
        /\ \A l \in TaskLines : sweep[l].at = "none"

===============================================================================
