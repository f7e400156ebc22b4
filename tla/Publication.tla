------------------------------ MODULE Publication ------------------------------
(***************************************************************************)
(* How the effect of an operation reaches the user's file, and who may     *)
(* read it meanwhile (sandbox/files/operations.py, lifecycle.py and        *)
(* file_view/publication.py).                                              *)
(*                                                                         *)
(* One file of the task root, as its identity and the bytes at a few       *)
(* positions.  The tool works on a candidate; what it changed is accepted, *)
(* then published by a transaction that compares the file with what the    *)
(* tool saw.  The user edits or replaces the file at any time, and takes   *)
(* no lock.  Operations of one root are one at a time: the operation lock. *)
(*                                                                         *)
(* Abstracted: creation, deletion, modes and lengths; block hashes.        *)
(***************************************************************************)
EXTENDS Naturals, FiniteSetsExt, Faults

CONSTANTS
  Positions,      \* positions of the file
  Bytes,          \* what a position may hold
  MaxEdits,       \* bound: edits and replacements by the user
  MaxOperations   \* bound: operations of the assistant

ASSUME PublicationAssumption ==
  Positions \subseteq Nat /\ {MaxEdits, MaxOperations} \subseteq Nat

VARIABLES
  platform,     \* "windows" opens a file for itself, "posix" does not
  live,         \* the user's file: [identity, bytes]
  operation,    \* "none", "running", "sealed", "accepted" or "published"
  transaction,  \* what a publication has made durable, or None
  owner,        \* what the holder of the operation lock does
  taken,        \* the file as the step in progress was taken on it
  left,         \* positions it has still to write
  touched,      \* whether the user has changed the file since it was opened
  reading,      \* a query is reading the published files
  edits, operations, publicationFaults

fileVars == <<platform, live, touched, edits>>
effectVars == <<operation, operations>>
writeVars == <<taken, left>>
publicationVars == <<fileVars, effectVars, writeVars, transaction, owner,
                     reading, publicationFaults>>

Image == [Positions -> Bytes]
NoOperation == [phase |-> "none"]

PublicationInit ==
  /\ platform \in {"posix", "windows"}
  /\ \E image \in Image : live = [identity |-> 0, bytes |-> image]
  /\ operation = NoOperation
  /\ transaction = None
  /\ owner = "free"
  /\ taken = None /\ left = {} /\ touched = FALSE
  /\ reading = FALSE
  /\ edits = 0 /\ operations = 0 /\ publicationFaults = 0

\* The publication lock is exclusive for the publisher, shared for queries.
Publishing == owner \notin {"free", "entered", "running", "sealed"}

-------------------------------------------------------------------------------
\* The user

UserChanges ==
  /\ edits < MaxEdits
  /\ ~(platform = "windows" /\ owner = "writing")
  /\ edits' = edits + 1
  /\ touched' = (owner = "writing")
  /\ UNCHANGED <<platform, effectVars, writeVars, transaction, owner, reading,
                 publicationFaults>>

UserEdits ==
  /\ UserChanges
  /\ \E p \in Positions : \E b \in Bytes \ {live.bytes[p]} :
       live' = [live EXCEPT !.bytes[p] = b]

\* An editor that saves by renaming another file into place.
UserReplaces ==
  /\ UserChanges
  /\ \E image \in Image :
       live' = [identity |-> live.identity + 1, bytes |-> image]

-------------------------------------------------------------------------------
\* An operation: WorkspaceFiles.execute, freeze

\* operation-lock: one operation or freeze of the root at a time.
Enter ==
  /\ owner = "free"
  /\ owner' = "entered"
  /\ UNCHANGED <<fileVars, effectVars, writeVars, transaction, reading,
                 publicationFaults>>

Pending == transaction # None \/ operation.phase = "accepted"

\* _publish_pending: what a transaction left unfinished, then what is accepted.
PublishPending ==
  /\ owner \in {"entered", "sealed"}
  /\ Pending
  /\ ~reading
  /\ owner' = IF transaction # None THEN "step" ELSE "plan"
  /\ UNCHANGED <<fileVars, effectVars, writeVars, transaction, reading,
                 publicationFaults>>

Leave ==
  /\ owner = "entered"
  /\ ~Pending
  /\ owner' = "free"
  /\ UNCHANGED <<fileVars, effectVars, writeVars, transaction, reading,
                 publicationFaults>>

\* The candidate captures what the file holds when the tool first reads it.
Begin ==
  /\ owner = "entered"
  /\ ~Pending
  /\ operations < MaxOperations
  /\ owner' = "running"
  /\ operations' = operations + 1
  /\ operation' = [phase |-> "running", identity |-> live.identity,
                   before |-> live.bytes, after |-> live.bytes]
  /\ UNCHANGED <<fileVars, writeVars, transaction, reading, publicationFaults>>

Seal ==
  /\ owner = "running"
  /\ owner' = "sealed"
  /\ \E after \in Image \ {operation.before} :
       operation' = [operation EXCEPT !.phase = "sealed", !.after = after]
  /\ UNCHANGED <<fileVars, operations, writeVars, transaction, reading,
                 publicationFaults>>

Accept ==
  /\ owner = "sealed" /\ operation.phase = "sealed"
  /\ operation' = [operation EXCEPT !.phase = "accepted"]
  /\ UNCHANGED <<fileVars, operations, writeVars, transaction, owner, reading,
                 publicationFaults>>

-------------------------------------------------------------------------------
\* The transaction: build_plan, execute, apply_step

Changed == {p \in Positions : operation.before[p] # operation.after[p]}

\* A Conflict ends the operation; what is accepted or unfinished stays so.
Conflict ==
  /\ owner' = "free"
  /\ taken' = None /\ left' = {}
  /\ UNCHANGED transaction

\* choose: where the assistant wrote, the file holds what the tool saw.
Publishable ==
  /\ live.identity = operation.identity
  /\ \A p \in Changed : live.bytes[p] = operation.before[p]

\* Positions the tool left alone keep what the user has put there since.
Prepare ==
  /\ transaction' =
       [state |-> "prepared", identity |-> live.identity,
        expected |-> live.bytes,
        desired |-> [p \in Positions |-> IF p \in Changed
                                         THEN operation.after[p]
                                         ELSE live.bytes[p]]]
  /\ owner' = "step"
  /\ UNCHANGED writeVars

Plan ==
  /\ owner = "plan"
  /\ \/ Publishable /\ Prepare
     \/ ~Publishable /\ Conflict
  /\ UNCHANGED <<fileVars, effectVars, reading, publicationFaults>>

Fulfilled ==
  live.identity = transaction.identity /\ live.bytes = transaction.desired

\* mixed: a write that was cut short left old and new bytes and no others.
Mixed ==
  \A p \in Positions :
    live.bytes[p] \in {transaction.expected[p], transaction.desired[p]}

\* Mutant: a write that was cut short is taken up again without comparing.
ResumedBlindly ==
  /\ live.identity = transaction.identity
  /\ live.bytes = transaction.expected \/ transaction.state = "applying"

Applicable ==
  /\ live.identity = transaction.identity
  /\ \/ transaction.state = "prepared" /\ live.bytes = transaction.expected
     \/ transaction.state = "applying" /\ Mixed

\* A step a crash cut short is taken up again; one that is done is compared.
StepFulfilled ==
  /\ Fulfilled
  /\ transaction' = [transaction EXCEPT !.state =
                       IF @ = "complete" THEN @ ELSE "done"]
  /\ owner' = "stepped"
  /\ UNCHANGED writeVars

StepTaken ==
  /\ ~Fulfilled
  /\ Applicable
  /\ transaction' = [transaction EXCEPT !.state = "applying"]
  /\ owner' = "applying"
  /\ taken' = live
  /\ UNCHANGED left

TakeStep ==
  /\ owner = "step"
  /\ \/ StepFulfilled \/ StepTaken
     \/ ~Fulfilled /\ ~Applicable /\ Conflict
  /\ UNCHANGED <<fileVars, effectVars, reading, publicationFaults>>

\* matches_open
MatchesOpen == live = taken

Open ==
  /\ owner = "applying"
  /\ \/ /\ MatchesOpen
        /\ owner' = "writing"
        /\ left' = {p \in Positions : transaction.desired[p] # taken.bytes[p]}
        /\ taken' = live
        /\ UNCHANGED transaction
     \/ ~MatchesOpen /\ Conflict
  /\ touched' = FALSE
  /\ UNCHANGED <<platform, live, edits, effectVars, reading, publicationFaults>>

\* A file that was replaced is no longer the open one: the old one is written.
Write ==
  /\ owner = "writing"
  /\ left # {}
  /\ LET p == Min(left)
     IN /\ left' = left \ {p}
        /\ live' = IF live.identity = taken.identity
                   THEN [live EXCEPT !.bytes[p] = transaction.desired[p]]
                   ELSE live
  /\ UNCHANGED <<platform, touched, edits, effectVars, taken, transaction, owner,
                 reading, publicationFaults>>

EndWrite ==
  /\ owner = "writing"
  /\ left = {}
  /\ \/ /\ live.identity = taken.identity
        /\ transaction' = [transaction EXCEPT !.state = "done"]
        /\ owner' = "stepped"
        /\ UNCHANGED writeVars
     \/ live.identity # taken.identity /\ Conflict
  /\ UNCHANGED <<fileVars, effectVars, reading, publicationFaults>>

\* The transaction is complete, and the index names the operation.
Complete ==
  /\ owner = "stepped"
  /\ transaction' = [transaction EXCEPT !.state = "complete"]
  /\ owner' = "completed"
  /\ UNCHANGED <<fileVars, effectVars, writeVars, reading, publicationFaults>>

\* The view starts from the published files again.
Rebase ==
  /\ owner = "completed"
  /\ operation' = [operation EXCEPT !.phase = "published"]
  /\ owner' = "rebased"
  /\ UNCHANGED <<fileVars, operations, writeVars, transaction, reading,
                 publicationFaults>>

Finalize ==
  /\ owner = "rebased"
  /\ transaction' = None
  /\ operation' = NoOperation
  /\ taken' = None
  /\ touched' = FALSE
  /\ owner' = "entered"
  /\ UNCHANGED <<platform, live, edits, operations, left, reading,
                 publicationFaults>>

\* The process that holds the locks dies; a candidate in progress is lost.
OwnerDies ==
  /\ owner # "free"
  /\ publicationFaults < MaxFaults
  /\ publicationFaults' = publicationFaults + 1
  /\ owner' = "free"
  /\ taken' = None /\ left' = {} /\ touched' = FALSE
  /\ operation' = IF operation.phase \in {"running", "sealed"}
                  THEN NoOperation ELSE operation
  /\ UNCHANGED <<platform, live, edits, operations, transaction, reading>>

-------------------------------------------------------------------------------
\* WorkspaceFiles.read

NothingUnfinished == transaction = None

BeginRead ==
  /\ ~reading
  /\ ~Publishing
  /\ NothingUnfinished
  /\ reading' = TRUE
  /\ UNCHANGED <<fileVars, effectVars, writeVars, transaction, owner,
                 publicationFaults>>

EndRead ==
  /\ reading
  /\ reading' = FALSE
  /\ UNCHANGED <<fileVars, effectVars, writeVars, transaction, owner,
                 publicationFaults>>

PublicationNext ==
  \/ UserEdits \/ UserReplaces
  \/ Enter \/ PublishPending \/ Leave \/ Begin \/ Seal \/ Accept
  \/ Plan \/ TakeStep \/ Open \/ Write \/ EndWrite
  \/ Complete \/ Rebase \/ Finalize \/ OwnerDies
  \/ BeginRead \/ EndRead

PublicationSpec == PublicationInit /\ [][PublicationNext]_publicationVars

-------------------------------------------------------------------------------
\* Properties

(***************************************************************************)
(* The assistant overwrites a byte of the user's file only when it is the  *)
(* byte its tool saw: what the user wrote since then stays, through        *)
(* conflicts, crashes in the middle of a write and its resumption.  The    *)
(* one known gap: on POSIX nothing keeps the user from writing between the *)
(* comparison of the open file and the write (publication.py:290-296).     *)
(***************************************************************************)
OnlyKnownOverwrites ==
  \A p \in Positions :
    edits' = edits /\ live'.bytes[p] # live.bytes[p]
    => \/ p \in Changed /\ live.bytes[p] = operation.before[p]
       \/ platform = "posix" /\ touched

(***************************************************************************)
(* A query, and a recorded file boundary with it, sees only what a         *)
(* publication has finished: neither one that is writing nor one that a    *)
(* crash cut short (operations.py:80-91, :135-161).                        *)
(***************************************************************************)
ReadsAreWhole == reading => transaction = None /\ ~Publishing

(***************************************************************************)
(* Publication is all or nothing for who reads, and spares who writes.     *)
(***************************************************************************)
PublicationIsSafe == [][OnlyKnownOverwrites /\ ReadsAreWhole']_publicationVars

===============================================================================
