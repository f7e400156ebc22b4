------------------------------- MODULE Compact -------------------------------
(***************************************************************************)
(* Background compaction: redpanda/assistant/compact.  A business Session  *)
(* (the source) whose model input grew too large freezes its input at P, a *)
(* reader Session writes a handoff of it while the source goes on, and at  *)
(* Q the source's Journal gets a window that shows the handoff, what came  *)
(* in (P,Q], and everything after.  Jobs live in a table of the Host.      *)
(***************************************************************************)
EXTENDS Naturals, Sequences, FiniteSets, Faults

CONSTANTS
  Readers,      \* reader Sessions; a row of the compactions table each
  LastPosition  \* bound: events of the source's Journal

\* CompactWindow: its id is the reader's that wrote the handoff.
Windows ==
  [id : Readers, parent : Readers \cup {None}, cutover : Nat,
   carried : SUBSET Nat, tail : SUBSET Nat]

ASSUME CompactAssumption ==
  LastPosition \in Nat \ {0} /\ None \notin Readers \cup Windows

NoRow == [status |-> "absent"]

NoWindow == [id |-> None, parent |-> None, cutover |-> 0, carried |-> {}, tail |-> {}]

VARIABLES
  position,  \* last event of the source's Journal
  windows,   \* the window facts of the source's Journal
  handoffs,  \* the handoff facts of the source's Journal
  waiting,   \* the source waits for commands or an approval
  todo,      \* the source's Journal asks for a decision
  isChild,   \* the source is a child Session and returns when it is at rest
  returned,  \* the return is in its Journal
  usage,     \* window whose last model response reached the threshold
  source,    \* the source's Worker: up, and the turn of its scheduler
  rows,      \* compactions
  readers,   \* the Worker of each reader
  flow,      \* what holds the Host's lock of the source, and where it is
  compactFaults

journalVars == <<position, windows, handoffs, waiting, todo, isChild, returned, usage>>

compactVars == <<journalVars, source, rows, readers, flow, compactFaults>>

Current == IF windows = <<>> THEN NoWindow ELSE windows[Len(windows)]

\* What the model sees: the handoff stands for what its reader was given.
Known(window, upto) == window.carried \cup window.tail \cup (window.cutover + 1)..upto

Active == {r \in Readers : rows[r].status = "active"}

Job == CHOOSE r \in Active : TRUE

NoFlow == [by |-> "nobody", at |-> "free", snap |-> None]

CompactInit ==
  /\ position = 0
  /\ windows = <<>>
  /\ handoffs = {}
  /\ waiting = FALSE
  /\ todo = FALSE
  /\ isChild \in BOOLEAN
  /\ returned = FALSE
  /\ usage = "none"
  /\ source = [up |-> TRUE, turn |-> "idle", seen |-> 0]
  /\ rows = [r \in Readers |-> NoRow]
  /\ readers = [r \in Readers |-> "none"]
  /\ flow = NoFlow
  /\ compactFaults = 0

-------------------------------------------------------------------------------
\* The source: its Journal and its scheduler

\* A message, or an outcome: requests are handled while the scheduler waits for the Host.
\* Bound: a last Step has room.
Arrive ==
  /\ source.up
  /\ position + 1 < LastPosition
  /\ position' = position + 1
  /\ waiting' = FALSE
  /\ todo' = TRUE
  /\ UNCHANGED <<windows, handoffs, isChild, returned, usage, source, rows, readers, flow, compactFaults>>

\* _advance_once reads the position and enters before_advance; a source that has returned, or
\* that waits for commands, does not ask the Host.
Wake ==
  /\ source.up
  /\ source.turn = "idle"
  /\ ~returned
  /\ source' = [source EXCEPT !.turn = IF waiting THEN "advance" ELSE "boundary",
                              !.seen = position]
  /\ UNCHANGED <<journalVars, rows, readers, flow, compactFaults>>

\* advance(expected_journal_position): what came meanwhile passes the boundary first.
AdvanceSession ==
  /\ source.turn = "advance"
  /\ source' = [source EXCEPT !.turn = IF position = source.seen THEN "think" ELSE "idle"]
  /\ UNCHANGED <<journalVars, rows, readers, flow, compactFaults>>

\* A Step with its usage; the next one passes the boundary again.
Step ==
  /\ source.turn = "think"
  /\ position < LastPosition
  /\ todo
  /\ position' = position + 1
  /\ waiting' \in BOOLEAN
  /\ todo' = FALSE
  /\ usage' \in {"none", "high"}
  /\ source' = [source EXCEPT !.turn = "idle"]
  /\ UNCHANGED <<windows, handoffs, isChild, returned, rows, readers, flow, compactFaults>>

\* Nothing to decide: the scheduler quiesces, and a child returns.
Quiesce ==
  /\ source.turn = "think"
  /\ ~todo
  /\ source' = [source EXCEPT !.turn = "idle"]
  /\ returned' = (returned \/ (isChild /\ ~waiting))
  /\ UNCHANGED <<position, windows, handoffs, waiting, todo, isChild, usage, rows, readers, flow, compactFaults>>

\* A parent's resume goes to its child past the Host's lock, and finds it at rest.
ParentResumes ==
  /\ isChild
  /\ ~waiting
  /\ ~todo
  /\ ~returned
  /\ returned' = TRUE
  /\ source' = [source EXCEPT !.up = TRUE]
  /\ UNCHANGED <<position, windows, handoffs, waiting, todo, isChild, usage, rows, readers, flow, compactFaults>>

-------------------------------------------------------------------------------
\* The Host: boundary, application and recover_prepared under the source's lock

\* boundary answers: "continue" or "wait".
Answer(turn) ==
  /\ flow' = NoFlow
  /\ source' = IF flow.by = "boundary" THEN [source EXCEPT !.turn = turn] ELSE source

Prepared(r) == rows[r].prepared # None

\* What boundary and application do first: a job of a source that has returned is retired, a
\* prepared one is published.
Begin(by) ==
  /\ flow = NoFlow
  /\ flow' = [by |-> by,
              at |-> CASE returned /\ (by = "boundary" \/ Active # {}) -> "retire"
                       [] ~returned /\ Active # {} /\ Prepared(Job) -> "publish"
                       [] OTHER -> "decide",
              snap |-> None]

EnterBoundary ==
  /\ source.up
  /\ source.turn = "boundary"
  /\ Begin("boundary")
  /\ source' = [source EXCEPT !.turn = "asked"]
  /\ UNCHANGED <<journalVars, rows, readers, compactFaults>>

\* application: view, resume, a message; the request starts the source's Worker.
Open ==
  /\ Begin("application")
  /\ source' = [source EXCEPT !.up = TRUE]
  /\ UNCHANGED <<journalVars, rows, readers, compactFaults>>

\* _retire, and the reader's Worker is terminated.
RetireReturned ==
  /\ flow.at = "retire"
  /\ rows' = [r \in Readers |-> IF r \in Active THEN [rows[r] EXCEPT !.status = "retired"] ELSE rows[r]]
  /\ readers' = [r \in Readers |-> IF r \in Active /\ readers[r] = "up" THEN "gone" ELSE readers[r]]
  /\ Answer("idle")
  /\ UNCHANGED <<journalVars, compactFaults>>

\* ensure_reader: the reader's Session is created once, and a Worker runs it.
EnsureReader(r) ==
  readers' = [readers EXCEPT ![r] = IF @ \in {"none", "down"} THEN "up" ELSE @]

\* No job, or a failed one: go on, or freeze the input at P.  A job whose reader still writes:
\* see that it runs.  A handoff: take a snapshot at Q.
Decide ==
  /\ flow.at = "decide"
  /\ IF Active = {}
     THEN IF flow.by = "boundary" /\ usage = "high" /\ \E r \in Readers : rows[r] = NoRow
          THEN flow' = [flow EXCEPT !.at = "freeze"] /\ UNCHANGED <<source, readers>>
          ELSE Answer("advance") /\ UNCHANGED readers
     ELSE IF rows[Job].failed \/ (flow.by = "application" /\ rows[Job].summary)
          THEN Answer("advance") /\ UNCHANGED readers
          ELSE IF rows[Job].summary
               THEN flow' = [flow EXCEPT !.at = "snapshot"] /\ UNCHANGED <<source, readers>>
               ELSE IF returned THEN Answer("advance") /\ UNCHANGED readers
                    ELSE EnsureReader(Job) /\ Answer("advance")
  /\ UNCHANGED <<journalVars, rows, compactFaults>>

\* The window a job is started in
StartedIn == Current.id

\* compact_snapshot, handled by the source's Worker: not while commands wait.
Freeze(r) ==
  /\ flow.at = "freeze"
  /\ rows[r] = NoRow
  /\ IF waiting
     THEN Answer("advance") /\ UNCHANGED <<rows, readers>>
     ELSE /\ rows' = [rows EXCEPT ![r] =
               [status |-> "active", window |-> StartedIn, upto |-> position,
                carried |-> Known(Current, position), summary |-> FALSE, failed |-> FALSE,
                prepared |-> None]]
          /\ EnsureReader(r)
          /\ Answer("advance")
  /\ UNCHANGED <<journalVars, compactFaults>>

Snapshot ==
  /\ flow.at = "snapshot"
  /\ IF waiting THEN Answer("advance")
     ELSE /\ flow' = [flow EXCEPT !.at = "prepare",
                                  !.snap = [window |-> Current, position |-> position]]
          /\ UNCHANGED source
  /\ UNCHANGED <<journalVars, rows, readers, compactFaults>>

\* Mutant: the cut is where the Journal is when the window is prepared.
CutNow(snap) == position

\* The position of the snapshot the tail is taken from
Cutover(snap) == snap.position

\* prepare_window: handoff, tail and cut of the new window, saved before anything is published.
\* "stale handoff" cannot be continued.
PrepareWindow ==
  /\ flow.at = "prepare"
  /\ flow.snap.window.id = rows[Job].window
  /\ LET r == Job  snap == flow.snap IN
     rows' = [rows EXCEPT ![r].prepared =
       [id |-> r, parent |-> rows[r].window, cutover |-> Cutover(snap),
        carried |-> rows[r].carried,
        tail |-> {s \in (snap.window.cutover + 1)..snap.position :
                    s > rows[r].upto /\ s <= snap.position}]]
  /\ flow' = [flow EXCEPT !.at = "publish", !.snap = None]
  /\ UNCHANGED <<journalVars, source, readers, compactFaults>>

\* CompactBoundary.publish goes on only from the window the job was started in.
MayPublish(window) == window.parent = Current.id

\* compact_publish, first write: the handoff, under a delivery_id of its own.
PublishHandoff ==
  /\ flow.at = "publish"
  /\ LET window == rows[Job].prepared IN
     IF Current.id = window.id
     THEN flow' = [flow EXCEPT !.at = "mark"] /\ UNCHANGED handoffs
     ELSE IF returned
          THEN flow' = [flow EXCEPT !.at = "retire"] /\ UNCHANGED handoffs
          ELSE /\ MayPublish(window)
               /\ handoffs' = handoffs \cup {window.id}
               /\ flow' = [flow EXCEPT !.at = "window"]
  /\ UNCHANGED <<position, windows, waiting, todo, isChild, returned, usage, source, rows, readers, compactFaults>>

\* Second write: the window; usage of the old window counts no more.
PublishWindow ==
  /\ flow.at = "window"
  /\ windows' = Append(windows, rows[Job].prepared)
  /\ usage' = "none"
  /\ flow' = [flow EXCEPT !.at = "mark"]
  /\ UNCHANGED <<position, handoffs, waiting, todo, isChild, returned, source, rows, readers, compactFaults>>

\* Mutant: the mark is forgotten.
MarkLost ==
  /\ flow.at = "mark"
  /\ Answer("advance")
  /\ UNCHANGED <<journalVars, rows, readers, compactFaults>>

MarkPublished ==
  /\ flow.at = "mark"
  /\ rows' = [rows EXCEPT ![Job].status = "published"]
  /\ Answer("advance")
  /\ UNCHANGED <<journalVars, readers, compactFaults>>

-------------------------------------------------------------------------------
\* Readers

\* _accept_handoff and complete: the table keeps one summary.
Complete(r) ==
  /\ readers[r] = "up"
  /\ flow = NoFlow
  /\ readers' = [readers EXCEPT ![r] = "gone"]
  /\ CASE rows[r].status = "retired" -> UNCHANGED rows
       [] rows[r].status # "retired" /\ returned -> rows' = [rows EXCEPT ![r].status = "retired"]
       [] OTHER -> rows' = [rows EXCEPT ![r].summary = TRUE]
  /\ UNCHANGED <<journalVars, source, flow, compactFaults>>

\* The reader's Worker fails: _watch records it unless there is a summary.
ReaderFails(r) ==
  /\ compactFaults < MaxFaults
  /\ compactFaults' = compactFaults + 1
  /\ readers[r] = "up"
  /\ readers' = [readers EXCEPT ![r] = "gone"]
  /\ rows' = IF rows[r].status = "active" /\ ~rows[r].summary
             THEN [rows EXCEPT ![r].failed = TRUE] ELSE rows
  /\ UNCHANGED <<journalVars, source, flow>>

\* compact_ready wakes the source; it is lost with the Host.
SourceDies ==
  /\ compactFaults < MaxFaults
  /\ compactFaults' = compactFaults + 1
  /\ source.up
  /\ source' = [up |-> FALSE, turn |-> "idle", seen |-> 0]
  /\ flow' = NoFlow
  /\ UNCHANGED <<journalVars, rows, readers>>

CompactHostDies ==
  /\ compactFaults < MaxFaults
  /\ compactFaults' = compactFaults + 1
  /\ source' = [up |-> FALSE, turn |-> "idle", seen |-> 0]
  /\ flow' = NoFlow
  /\ readers' = [r \in Readers |-> IF readers[r] = "up" THEN "down" ELSE readers[r]]
  /\ UNCHANGED <<journalVars, rows>>

-------------------------------------------------------------------------------
HostFlow ==
  \/ RetireReturned
  \/ Decide
  \/ \E r \in Readers : Freeze(r)
  \/ Snapshot
  \/ PrepareWindow
  \/ PublishHandoff
  \/ PublishWindow
  \/ MarkPublished

CompactNext ==
  \/ Arrive
  \/ Wake
  \/ AdvanceSession
  \/ Step
  \/ Quiesce
  \/ ParentResumes
  \/ EnterBoundary
  \/ Open
  \/ HostFlow
  \/ \E r \in Readers : Complete(r)
  \/ \E r \in Readers : ReaderFails(r)
  \/ SourceDies
  \/ CompactHostDies

CompactSpec == CompactInit /\ [][CompactNext]_compactVars

-------------------------------------------------------------------------------
(* However facts arrive while the handoff is written, and wherever a       *)
(* process dies: what the model is shown stands for every event of the     *)
(* Journal, and for none of them twice.                                    *)
NothingFallsBetween ==
  /\ Known(Current, position) = 1..position
  /\ Current.carried \cap Current.tail = {}
  /\ (Current.carried \cup Current.tail) \cap (Current.cutover + 1)..position = {}

(* Unless the source waits for ever, for an approval, say, a job does not  *)
(* stay: it is published, retired, or its failure recorded.                *)
EveryJobEnds ==
  \/ <>[]waiting
  \/ \A r \in Readers :
       rows[r].status = "active" ~> (rows[r].status # "active" \/ rows[r].failed)

(* No request of the Host fails on a stale handoff: a job is prepared and  *)
(* published in the window it was started in, crashes included.            *)
NoStaleHandoff ==
  /\ flow.at = "prepare" => flow.snap.window.id = rows[Job].window
  /\ flow.at = "publish" => Current.id \in {rows[Job].window, rows[Job].prepared.id}

(* However a compaction and the Session it compacts overtake each other,   *)
(* the windows it leaves join, and the job that made them is current.      *)
WindowsJoin == NothingFallsBetween /\ NoStaleHandoff

===============================================================================
