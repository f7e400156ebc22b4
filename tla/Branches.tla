------------------------------- MODULE Branches -------------------------------
(***************************************************************************)
(* Branches of Sessions: assistant/host/session_store.py, the branching of *)
(* runtime/journal/sqlite.py, and the branch and pause operations of       *)
(* HostSupervisor.  A branch's Journal holds spans of other Journals in    *)
(* place of a copy of its history, and its own events after them.  Source  *)
(* Sessions go on while they are branched; the Host may die at any step.   *)
(***************************************************************************)
EXTENDS Naturals, Sequences, FiniteSets, SequencesExt, FiniteSetsExt

CONSTANTS
  Root,         \* a Session that was created and not branched
  Branches,     \* identities for branches
  Deliveries,   \* delivery ids of user messages
  MaxRows,      \* bound: rows of events in all Journals
  MaxDeaths     \* bound: Hosts that die

ASSUME BranchAssumption ==
  /\ Root \notin Branches
  /\ MaxRows \in Nat /\ MaxDeaths \in Nat

Lines == {Root} \cup Branches

VARIABLES
  own,      \* rows of events in each Session's Journal file
  spans,    \* history_spans: which rows of which Journals come before them
  assets,   \* asset_sources: Journals beside which attachments may be
  there,    \* Sessions whose directory has its name
  flow,     \* what the Host does to make each branch
  paused,   \* paused.json
  awake,    \* Sessions with a Worker that was asked to go on
  deciding, \* Sessions whose Scheduler is inside advance
  seen,     \* history: the prefix each branch was to inherit
  spoken,   \* history: branches a human has spoken to, or continued
  hostDeaths

journalFiles == <<own, spans, assets, there>>

branchVars ==
  <<journalFiles, flow, paused, awake, deciding, seen, spoken, hostDeaths>>

-------------------------------------------------------------------------------
\* Reading a history

SpansEnd(list) == IF list = <<>> THEN 0 ELSE Last(list).last

\* _read_event_rows: a Journal file numbers its rows from where its spans end.
Rows(s, first, last) ==
  SubSeq(own[s], first - SpansEnd(spans[s]), last - SpansEnd(spans[s]))

\* _load_prefix_sync and _snapshot_sync
History(s) ==
  FlattenSeq([i \in DOMAIN spans[s] |-> Rows(spans[s][i].of, spans[s][i].first, spans[s][i].last)])
    \o own[s]

Begun(history) == {i \in DOMAIN history : history[i].kind = "call"}

Ended(history) == {i \in DOMAIN history : history[i].kind = "outcome"}

\* A version is recorded of every Step whose commands have ended.
Completed(history) ==
  {i \in DOMAIN history : history[i].kind \in {"answer", "outcome"}}

Recorded(history) == {i \in DOMAIN history : history[i].kind = "version"}

\* waiting_command_ids is not empty.
Unresolved(history) == Cardinality(Begun(history)) > Cardinality(Ended(history))

LastTurn(history) ==
  SelectLastInSeq(history, LAMBDA e : e.kind # "version")

\* RuntimeStatus.RUNNABLE, and session_view's should_wake
Runnable(history) ==
  /\ ~Unresolved(history)
  /\ LastTurn(history) # 0
  /\ history[LastTurn(history)].kind \in {"message", "outcome"}

\* WAITING for an external fact and nothing else
AtRest(history) == ~Unresolved(history) /\ ~Runnable(history)

\* accept_delivery finds an identity in the inherited prefix or in the own rows.
Delivered(s) ==
  LET history == History(s) IN
  {history[i].id : i \in {j \in DOMAIN history : history[j].kind = "message"}}

\* The spans that begin before a cut: the loop breaks at the first that does not.
Kept(s, sequence) ==
  LET before == {n \in 0..Len(spans[s]) : \A i \in 1..n : spans[s][i].first <= sequence}
  IN SubSeq(spans[s], 1, Max(before))

\* What of its own Journal is added
WithOwn(list, s, sequence) ==
  IF sequence > SpansEnd(list)
  THEN Append(list, [of |-> s, first |-> SpansEnd(list) + 1, last |-> sequence])
  ELSE list

\* Mutant: a span is taken whole.
SpansUnclipped(s, sequence) == WithOwn(Kept(s, sequence), s, sequence)

\* history_through
HistoryThrough(s, sequence) ==
  LET kept == Kept(s, sequence) IN
  WithOwn([i \in DOMAIN kept |->
             [kept[i] EXCEPT !.last = IF @ < sequence THEN @ ELSE sequence]],
          s, sequence)

\* prefix_paths_at of the source, and the source
AssetsFor(s) == {spans[s][i].of : i \in DOMAIN spans[s]} \cup assets[s] \cup {s}

NoFlow == [at |-> "none"]

BranchInit ==
  /\ own = [s \in Lines |-> <<>>]
  /\ spans = [s \in Lines |-> <<>>]
  /\ assets = [s \in Lines |-> {}]
  /\ there = {Root}
  /\ flow = [b \in Branches |-> NoFlow]
  /\ paused = {}
  /\ awake = {}
  /\ deciding = {}
  /\ seen = [s \in Lines |-> <<>>]
  /\ spoken = {}
  /\ hostDeaths = 0

-------------------------------------------------------------------------------
\* A Session and its Worker

RowsWritten == MapThenSumSet(LAMBDA s : Len(own[s]), Lines)

Record(s, events) ==
  /\ RowsWritten + Len(events) <= MaxRows
  /\ own' = [own EXCEPT ![s] = @ \o events]
  /\ UNCHANGED <<spans, assets, there>>

Message(id, owner) == [kind |-> "message", id |-> id, owner |-> owner]

Turn(kind) == [kind |-> kind]

\* accept_input: a message lifts the pause, and is accepted once.
AcceptInput(s, message) ==
  /\ IF message.id \in Delivered(s) THEN UNCHANGED journalFiles ELSE Record(s, <<message>>)
  /\ paused' = paused \ {s}
  /\ awake' = awake \cup {s}
  /\ spoken' = spoken \cup ({s} \cap Branches)

\* A client sends a message, with an upload; or sends it again, here or to a branch.
UserMessage(s, id) ==
  /\ s \in there
  /\ AcceptInput(s, Message(id, s))
  /\ UNCHANGED <<flow, deciding, seen, hostDeaths>>

\* select wakes what would go on by itself.
SelectLine(s) ==
  /\ s \in there
  /\ s \notin paused
  /\ Runnable(History(s))
  /\ awake' = awake \cup {s}
  /\ UNCHANGED <<journalFiles, flow, paused, deciding, seen, spoken, hostDeaths>>

\* set_paused(False), retry
Continue(s) ==
  /\ s \in paused
  /\ paused' = paused \ {s}
  /\ awake' = awake \cup {s}
  /\ spoken' = spoken \cup ({s} \cap Branches)
  /\ UNCHANGED <<journalFiles, flow, deciding, seen, hostDeaths>>

Unrecorded(history) == Cardinality(Completed(history)) > Cardinality(Recorded(history))

\* record_workspace_versions, before advance; then before_advance asks whether it is paused.
RecordVersion(s) ==
  /\ s \in awake
  /\ Unrecorded(History(s))
  /\ Record(s, <<Turn("version")>>)
  /\ UNCHANGED <<flow, paused, awake, deciding, seen, spoken, hostDeaths>>

BeginAdvance(s) ==
  /\ s \in awake \ (paused \cup deciding)
  /\ Runnable(History(s))
  /\ ~Unrecorded(History(s))
  /\ deciding' = deciding \cup {s}
  /\ UNCHANGED <<journalFiles, flow, paused, awake, seen, spoken, hostDeaths>>

CommitStep(s) ==
  /\ s \in deciding
  /\ \E kind \in {"answer", "call"} : Record(s, <<Turn(kind)>>)
  /\ deciding' = deciding \ {s}
  /\ UNCHANGED <<flow, paused, awake, seen, spoken, hostDeaths>>

EndCall(s) ==
  /\ s \in awake
  /\ Cardinality(Begun(own[s])) > Cardinality(Ended(own[s]))
  /\ Record(s, <<Turn("outcome")>>)
  /\ UNCHANGED <<flow, paused, awake, deciding, seen, spoken, hostDeaths>>

-------------------------------------------------------------------------------
\* Making a branch

\* A new directory is made once, and the source's lock is held from the cut to the rename.
MayCut(b, source) ==
  /\ b \notin there
  /\ source \in there
  /\ \A c \in Branches : flow[c].at = "cut" => flow[c].source # source

Cut(b, kind, source, through, message) ==
  /\ flow' = [flow EXCEPT ![b] =
       [at |-> "cut", kind |-> kind, source |-> source, through |-> through, message |-> message]]
  /\ seen' = [seen EXCEPT ![b] = SubSeq(History(source), 1, through)]

\* fork_and_accept_input: the message is edited in a branch that ends before it.
CutBeforeMessage(b, source) ==
  /\ MayCut(b, source)
  /\ flow[b].at = "none"
  /\ \E i \in DOMAIN History(source) :
       /\ History(source)[i].kind = "message"
       /\ AtRest(SubSeq(History(source), 1, i - 1))
       /\ Cut(b, "edit", source, i - 1, History(source)[i])
  /\ UNCHANGED <<journalFiles, paused, awake, deciding, spoken, hostDeaths>>

\* Up to the next message, or all of it
TurnEnd(history, i) ==
  LET later == {j \in i + 1..Len(history) : history[j].kind = "message"} IN
  IF later = {} THEN Len(history) ELSE (CHOOSE j \in later : \A k \in later : j <= k) - 1

\* branch_after_turn
CutAfterTurn(b, source) ==
  /\ MayCut(b, source)
  /\ flow[b].at = "none"
  /\ \E i \in DOMAIN History(source) :
       LET through == TurnEnd(History(source), i) IN
       /\ History(source)[i].kind = "message"
       /\ AtRest(SubSeq(History(source), 1, through))
       /\ Cut(b, "turn", source, through, History(source)[i])
  /\ UNCHANGED <<journalFiles, paused, awake, deciding, spoken, hostDeaths>>

\* restart_from_step: the Step has a recorded version.  The source is paused first, ...
BeginRestart(b, source) ==
  /\ b \notin there
  /\ source \in there
  /\ flow[b].at = "none"
  /\ \E i \in Recorded(History(source)) :
       flow' = [flow EXCEPT ![b] = [at |-> "stopping", kind |-> "restart", source |-> source,
                                    through |-> i, message |-> History(source)[i]]]
  /\ paused' = paused \cup {source}
  /\ UNCHANGED <<journalFiles, awake, deciding, seen, spoken, hostDeaths>>

\* ... then its turn is cancelled: a running command is interrupted, a decision withdrawn.
CancelForRestart(b) ==
  LET source == flow[b].source IN
  /\ flow[b].at = "stopping"
  /\ CASE Unresolved(History(source)) -> Record(source, <<Turn("outcome"), Turn("stop")>>)
       [] Runnable(History(source)) -> Record(source, <<Turn("stop")>>)
       [] OTHER -> UNCHANGED journalFiles
  /\ deciding' = deciding \ {source}
  /\ flow' = [flow EXCEPT ![b].at = "quieting"]
  /\ UNCHANGED <<paused, awake, seen, spoken, hostDeaths>>

\* wait_quiescent, then fork_after_event
CutAfterStep(b) ==
  LET source == flow[b].source
      prefix == SubSeq(History(source), 1, flow[b].through)
  IN
  /\ flow[b].at = "quieting"
  /\ MayCut(b, source)
  /\ source \notin deciding
  /\ ~Unresolved(History(source))
  /\ IF Unresolved(prefix)
     THEN flow' = [flow EXCEPT ![b] = NoFlow] /\ UNCHANGED seen
     ELSE Cut(b, "restart", source, flow[b].through, flow[b].message)
  /\ UNCHANGED <<journalFiles, paused, awake, deciding, spoken, hostDeaths>>

\* _materialize removes what it staged.
FailStaging(b) ==
  /\ flow[b].at = "cut"
  /\ flow' = [flow EXCEPT ![b] = NoFlow]
  /\ UNCHANGED <<journalFiles, paused, awake, deciding, seen, spoken, hostDeaths>>

\* history_through and create_branch in a directory of its own, which then gets its name.
Materialize(b) ==
  /\ flow[b].at = "cut"
  /\ there' = there \cup {b}
  /\ spans' = [spans EXCEPT ![b] = HistoryThrough(flow[b].source, flow[b].through)]
  /\ assets' = [assets EXCEPT ![b] = AssetsFor(flow[b].source)]
  /\ UNCHANGED <<own, seen, spoken>>

\* The rename; nothing else runs before a restarted branch is paused.
Publish(b) ==
  /\ Materialize(b)
  /\ paused' = IF flow[b].kind = "restart" THEN paused \cup {b} ELSE paused
  /\ flow' = [flow EXCEPT ![b] = [at |-> "named", kind |-> @.kind, message |-> @.message]]
  /\ UNCHANGED <<awake, deciding, hostDeaths>>

\* select of the new branch, and for an edit the new message: its attachments stay where the
\* edited message left them.
FinishBranch(b) ==
  /\ flow[b].at = "named"
  /\ flow' = [flow EXCEPT ![b] = [at |-> "made", kind |-> @.kind]]
  /\ IF flow[b].kind = "edit"
     THEN \E id \in Deliveries : AcceptInput(b, Message(id, flow[b].message.owner))
     ELSE /\ awake' = IF Runnable(History(b)) /\ b \notin paused THEN awake \cup {b} ELSE awake
          /\ UNCHANGED <<journalFiles, paused, spoken>>
  /\ UNCHANGED <<deciding, seen, hostDeaths>>

-------------------------------------------------------------------------------
\* The Host dies, and with it every Worker.  The next one pauses what would go on by itself
\* before it serves anybody.

PausedAtStart == paused \cup {s \in there' : Runnable(History(s)')}

HostGone ==
  /\ hostDeaths < MaxDeaths
  /\ hostDeaths' = hostDeaths + 1
  /\ awake' = {}
  /\ deciding' = {}

HostStartsAgain ==
  /\ HostGone
  /\ UNCHANGED <<journalFiles, seen, spoken>>
  /\ flow' = [b \in Branches |-> IF flow[b].at = "made" THEN flow[b] ELSE
                                 IF flow[b].at = "named" THEN [at |-> "made", kind |-> flow[b].kind]
                                 ELSE NoFlow]
  /\ paused' = PausedAtStart

\* It dies between the rename and the pause.
DiesAtRename(b) ==
  /\ HostGone
  /\ Materialize(b)
  /\ flow' = [c \in Branches |-> IF c = b \/ flow[c].at \in {"named", "made"}
                                 THEN [at |-> "made", kind |-> flow[c].kind] ELSE NoFlow]
  /\ paused' = PausedAtStart

-------------------------------------------------------------------------------
BranchNext ==
  \/ \E s \in Lines :
       \/ \E id \in Deliveries : UserMessage(s, id)
       \/ SelectLine(s)
       \/ Continue(s)
       \/ RecordVersion(s)
       \/ BeginAdvance(s)
       \/ CommitStep(s)
       \/ EndCall(s)
  \/ \E b \in Branches :
       \/ \E source \in Lines \ {b} :
            CutBeforeMessage(b, source) \/ CutAfterTurn(b, source) \/ BeginRestart(b, source)
       \/ CancelForRestart(b)
       \/ CutAfterStep(b)
       \/ FailStaging(b)
       \/ Publish(b)
       \/ FinishBranch(b)
       \/ DiesAtRename(b)
  \/ HostStartsAgain

BranchSpec == BranchInit /\ [][BranchNext]_branchVars

-------------------------------------------------------------------------------
(* A branch, and a branch of a branch, reads for ever the history it was   *)
(* cut from, though it holds none of it, its source goes on, and spans of  *)
(* spans are clipped.                                                      *)
BranchKeepsHistory ==
  \A b \in there \cap Branches : History(b) = seen[b] \o own[b]

(* No history holds one delivery twice, whichever of the Journals it comes *)
(* from took it: a message sent again to a branch that inherits it is not  *)
(* taken again.  A Journal whose prefix did could not be opened.           *)
DeliveredOnce ==
  \A s \in there :
    LET history == History(s)
        messages == {i \in DOMAIN history : history[i].kind = "message"}
    IN Cardinality(messages) = Cardinality(Delivered(s))

(* Attachments stay with the Session they were sent to: every branch finds *)
(* those of every message it shows, also of a message it was cut before    *)
(* and that was edited, and when its spans skip the Journal it came from.  *)
AttachmentsReachable ==
  \A s \in there :
    LET history == History(s) IN
    \A i \in DOMAIN history : history[i].kind = "message" =>
      history[i].owner \in {s} \cup assets[s]

(* A Session restarted from one of its Steps takes no step of its own      *)
(* before a human speaks to it or continues it, though its history ends    *)
(* where a Session would go on, and though the Host may die before the     *)
(* branch is paused.                                                       *)
RestartWaits ==
  \A b \in there \cap Branches :
    flow[b].at \in {"named", "made"} /\ flow[b].kind = "restart" /\ b \notin spoken =>
      \A i \in DOMAIN own[b] : own[b][i].kind \notin {"answer", "call"}

(* A branch is a Session of its own with the past of another: in what it   *)
(* reads, in what it accepts, in what it shows and in when it goes on.     *)
BranchesAreSound ==
  BranchKeepsHistory /\ DeliveredOnce /\ AttachmentsReachable /\ RestartWaits

===============================================================================
