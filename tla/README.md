# helperMe (redpanda) in TLA+

redpanda runs AI-assistant *Sessions*. A Session is an event log; everything the
program does next is computed from that log. This directory models the program
from that log upwards: the Session Journal, the projection of its log, the Agent
Runtime and its scheduler; the Host with its Workers; delegation, compaction,
branches and one-shot checks; and the services a Session uses, each with the
files and processes it keeps. The models are checked with TLC, and the
most of their safety properties are proved with TLAPS. Paths are relative to the
repository; `assistant/...` and the like are under `src/redpanda/`.

## 1. The system

A **Host** process starts one **Worker** process per active Session. A Worker
holds one `AgentRuntime` over one SQLite **Journal** file. Users, tools, child
Sessions, schedules and approvals reach a Session only as facts that
`accept_delivery` takes into its Journal. `advance` takes a snapshot of the
Journal, *projects* it, and, if the projection names a decision, freezes a frame,
claims it, asks the model, and commits the answer as a Step with its Commands.
The Dispatcher runs eligible Commands as Attempts and records their Outcomes,
which may trigger the next decision. The Host keeps what outlives a Worker or
concerns several Sessions: delivery of returns, the jobs of Compact, schedules,
branches, archiving, the display.

| Part (code) | State | Operations | What is hard | What makes it correct |
|---|---|---|---|---|
| Session Journal (`runtime/journal`) | `events`, `step_claims`, `decision_consumptions`, `commands`, `attempts`, `cancelled_step_continuations` | accept a delivery; acquire, renew, release, expire a Step claim; commit a Step; cancel; grant, reject; start, release, end an Attempt | callers with old leases, repeated starts, racing verdicts and outcomes, guards that read tables and not events | tables equal log; one consumption per trigger, one Attempt and one Outcome per Command; fenced commits; gated dispatch |
| Projection (`runtime/state.py`) | none: a function of the log | `project` | replay must rebuild each frame exactly as it was frozen; what waits for what, what is shown to whom | every log the Runtime writes replays; results are shown once and to the right decision |
| Agent Runtime, Dispatcher (`runtime/runtime.py`, `step.py`, `dispatcher.py`) | advance lock, active decision, running tasks | `advance`, `cancel_turn`, `start_pending`, facts, verdicts | every await is an interleaving point; cancellations act on what was read before; failures and restarts anywhere | as above, over all interleavings; nothing that may run is forgotten; a stop is respected |
| Context (`assistant/context`) | none | `prepare`, `project_context` | long results are cut down once a later answer stands after them, which may not have seen them | no result is cut down unread |
| Session scheduler (`assistant/runner.py`) | task slot, pending wake, failure | `wake`, `_advance_once`, `cancel_turn` | wake during the completion callback; stale position | every accepted fact is looked at |
| Control (`assistant/control.py`, `sessions.py`) | facts in the Journal, a lock, active Sessions | commit, prepare, answer, execute, resume | turn and resume prepare the same request; death around the execution | one course per request, executed at most once |
| Compact (`assistant/compact`) | job table, windows in the Journal | freeze, complete, prepare, publish, retire | the source goes on while its summary is written; two writes to the Journal and one to the table | windows join: every event is known once |
| SubAgents (`assistant/subagent`) | two Journals, frozen files | delegate, resume, return, report, reclaim | crash between child return and parent report; reclaim against return | one return, reported once; every delegation reports |
| Host and Workers (`assistant/host`) | Worker table, locks, idle revision, pipes | request, start, select, release, idle stop, reclaim | idle-stop handshake against a new request; process death | no request lost or confirmed unwritten; one writer per Journal |
| Session store (`host/session_store.py`) | directories, spans, asset sources | create, branch, pause, archive | failure between staging and rename; spans of spans | a branch is whole or absent, and reads its past for ever |
| One-shot automation (`automation`) | `schedules`, cancellations | register, fire, deliver, cancel, recover | crash before `delivered`; cancel against fire | one verdict; delivered means in the Journal; every check arrives |
| Command runs (`tools`, `sandbox/local`) | processes, live commands | spawn, time out, interrupt, drain, record | interrupt against natural end; descendants | the outcome is true of the processes |
| MCP (`mcp`) | registry, secrets, cached connections, owner tasks | register, test, enable, connect, call, close | change, close, cancellation during connect; two files, either of which may fail; two processes | what is cached, called and enabled is what is registered and tested |
| Skills, CLI (`skills`, `cli`) | registry, package, candidates | install, check, update, repair, toggle, remove, load | a rename or its roll back fails; death between renames; another process | record and package agree; what is loaded is what was listed; what is changed is what was shown |
| Publication (`sandbox/files`) | file, transaction | seal, accept, publish, resume | user edits meanwhile; crash mid-write | only bytes the tool saw are overwritten |
| Workspace versions (`assistant/workspace_versions.py`) | version facts | sync, restore, branch | marks come late | a restore takes back exactly what came after |
| Children's files (`sandbox/files/children.py`) | baseline, work tree, result | create, finish, merge, review, discard | delegations created again; archive of branches | merges onto what was seen; archived is clean |
| Live display (`delivery.py`, host signals, `hub.py`) | streams, routes, hub | chunk, end, busy, idle | chunks of streams that have ended | what is shown belongs to a live stream |

## 2. Modules

| Module | Models | Uses |
|---|---|---|
| `RuntimeEvents` | the event types (`runtime/events.py`) and the constants | |
| `SessionJournal` | every write transaction of `sqlite.py` on one Session | `RuntimeEvents` |
| `EventLog` | abstract: an append-only log in which each event is justified by those before it | `RuntimeEvents` |
| `StateProjector` | `state.py` as folds over the log | `RuntimeEvents` |
| `AgentRuntime` | `advance`, `cancel_turn`, `start_pending`, tasks, restart | `SessionJournal`, `StateProjector` |
| `ModelContext` | the messages of a model call | `AgentRuntime` |
| `SessionScheduler` | `assistant/runner.py`, over the whole Runtime | `AgentRuntime` |
| `HostWorkers` | one Session's Worker as the supervisor runs it | |
| `DeliveryPromise` | abstract: what callers of the Host are promised | |
| `OneShot` | the clock, its tables, the two commands, recovery | |
| `Delegation` | parent, children, returns, reports, reclaims | `Faults` |
| `Compact` | jobs, windows, boundary, readers | `Faults` |
| `ConnectionOwner` | the task that owns one MCP connection | `Faults` |
| `CommandRuns` | `execute_command`, both process runners, the stop | `Faults` |
| `McpRegistry` | the record of one server in `servers.json` | `Faults` |
| `McpServers` | connections, loaded tools, tests, management in one process | `McpRegistry` |
| `McpApprovals` | proposals, the two files of a registration and the calls on them that fail, several processes | `McpRegistry` |
| `SkillStore` | one Skill over registry, package and candidates, with renames and roll backs that fail, several processes | `Faults` |
| `CliStore` | one program's record, the Workers of several Sessions | `Faults` |
| `LiveDisplay` | decision, preview, pipe, Host, hub | `Faults` |
| `WorkspaceVersions`, `Publication`, `ChildFiles` | the files of a Session, of one operation, of its children | `Faults` |
| `Branches` | Journals of branches, and the Host's flows that make them | |
| `Control` | the control requests of a Session | `Faults` |
| `SessionJournalProofs`, `ProjectorProofs`, `RuntimeProofs`, `HostProofs`, `WorkerProofs`, `CapabilityProofs`, `FileProofs` | theorems, section 5 | the modules they are about |
| `LogFolds` | what a fold over a log is, step by step: lemmas only | |
| `MC...` | model values, symmetry sets, packs | |

**Packs.** `MCWorker`, `MCCapabilities` and `MCFiles` each put several components
that share no state into one run. The variable `component` is chosen in the initial
state and says which of them moves; the others stay where they begin. A run of a pack
is the union of the runs of its components, not their composition, and nothing is
claimed of their interaction. Components that do interact are composed by EXTENDS
(`AgentRuntime` over Journal and projection, `SessionScheduler` and `ModelContext`
over `AgentRuntime`), or are modelled together in one module (`Delegation`: two
Journals, the Host, two Workers; `LiveDisplay`: Worker, pipe, Host, hub).

**How state corresponds.** *Journal*: an event is identified by its position in the
log (the code draws a random id and a sequence number; both are unique in a Session),
and `None` (0) is SQL's NULL. `stepClaims`, `consumed`, `commandRows`, `attemptRows`,
`stopped` are the tables of `sqlite.py`; `leases` is a history variable: every lease
ever handed out, so that callers can misuse any of them later. Lease expiry is a
Boolean that `ExpireStep` clears at any time. `Projection(log)` is
`StateProjector.project`: whether it raises, the next trigger, the frame, the command
states. In `AgentRuntime`, `advancing` and `cancelling` hold where the coroutines are
and the locals they carry over an await; `starting` is what each `start_pending` has
read and not yet started; `running` is `Dispatcher._tasks`.
*Host*: `host` is the entry in `workers` with its fields (`stopping`, the event
`transition`, `idle_revision`, where `_watch` is); `calls` says where each coroutine of
`request` is; `lock` is who holds `locks[session_id]`; `down` and `up` are the pipe, in
order, and `proc` the process with what it has in hand. *OneShot*: `rows` and `codes`
are the two tables, `attempts` the Attempts of the commands, `accepted` the Journal's
content under a `delivery_id`. *Delegation*: `return` and `report` are facts of the
child's and the parent's Journal, `frozen` is `result.json`. *Compact*: `rows` is the
`compactions` table, `windows` and `handoffs` the facts, and a handoff or a window is
the set of event positions it stands for. *Branches*: `own` and `spans` are a Journal's
rows and `history_spans`. *Files*: a file is the number of the edit that made it, or its
bytes at a few positions; a version is a length of the operation history. *Display*: a
text is its number of chunks. *MCP, Skills, CLI*: a configuration or a content is an
identity, and a revision is a number.

**How actions correspond.** An action is what a coroutine does between two awaits, or
one transaction, rename or message it awaits; in `SessionJournal` it is one
transaction (`BEGIN IMMEDIATE` to `COMMIT`), and a call that returns None, finds an
equal earlier event or raises changes nothing and is not a step. Death of a process is
an action of its own that may come between any two others and leaves exactly the files.
One event loop runs all of a process; `advance` runs one at a time (its lock). Two
overlapping calls of `cancel_turn`, and the `start_pending` of two overlapping grants,
are not modelled. `NoDecision` (commands whose result needs no decision) is empty in
every run, and definitions that speak of it are exercised by the proofs only.

## 3. Runs

Passing runs.

| Run | Asks | Bounds |
|---|---|---|
| `journal_safety` | with callers in any order holding any lease: do tables say what the log says (`TablesMatchLog`), `AttemptedAndEndedOnce`, `DispatchIsGated`, `FencedCommits`; is every step a step or a stutter of `EventLog` (`ImplementsEventLog`) | 1 fact, 1 gated and 1 free command, 2 tokens, 6 events |
| `runtime_turns` | two parallel commands, one gated, two messages, a quiet fact: who decides on which results (`OldResultNeverRunsAlone`, `OneDecisionPerGroup`), what each decision is shown (`FollowUpShowsResults`), whether anything is left over (`NothingForgotten`, `OnlyKnownStrandings`) and the log replays (`OnlyKnownReplayGaps`, `ProjectionAgreesWithTables`) | 8 events |
| `runtime_cancel` | one cancellation or one fault (`OneDisturbance`) against everything else: `StoppedIsNotResumed`, and what becomes of a long result, `OnlyKnownUnread` | 3 messages, 1 command, 8 events |
| `scheduler_wakes` | anything at any time against the one task slot: `IdleMeansDone` | 2 messages, 1 gated command, `auto_authorize`, a cancel or a fault (`OneTrouble`), 6 events |
| `one_shot` | two checks in two Sessions, one cancelled: `OneVerdict`, `DeliveredIsAccepted`, and `EveryCheckArrives` | times 0..2, 1 crash of a Worker or the Host, and the Session of the earlier check may become unable to start |
| `host_handshake` | two requests, a switch of Session and a reclaim against one Worker's life: `OneWriter`, `HostWritesAlone`, `OnlyKnownSlips`, `EveryRequestEnds`, and `KeepsPromise` (implements `DeliveryPromise`) | 2 calls, 1 death, 1 switch |
| `worker_parts` | four components, one at a time: delegation (`ReportIsTheReturn`, `EveryDelegationReports`), compaction (`WindowsJoin`, `EveryJobEnds`), an HTTP connection (`EveryCallReturns`), command runs (`OutcomesAreTrue`) | 1 child with 2 tool calls; 2 jobs over 4 events; 2 callers; 2 runs; 1 death |
| `capabilities` | five components, one at a time: `ServersAreCurrent`, `SkillsAreWhole`, `ApprovalsFindTheirRecord`, `DisplayIsTrue`, `OrderlyRestoresAreExact` | 2 tasks and 2 connections; 2 processes and 2 contents; 3 Sessions and 3 writes; 2 outputs of 1 chunk; 3 Steps; 1 fault, a death or a call that fails |
| `file_parts` | five components, one at a time: `BranchesAreSound`, `OneCourse`, `ArchivedIsClean` and `MergesOntoWhatItSaw`, `OnlyKnownMixups`, `PublicationIsSafe` | 2 branches or 1 branch and a death (`FewBranches`); 2 requests and 2 answers; 2 delegations over 1 path with 2 edits; 2 managers; 2 positions of 3 bytes with 1 edit; 1 death, and a second that leaves a creation unknown (`FewDeaths`) |

Violation runs, each a disagreement of the code with its documents:

| Run | What TLC shows |
|---|---|
| `replay_after_late_grant` | a command waits for authorization, a second message arrives, then the grant and the attempt: the second message's frame is shown the attempt and not the grant, and `project` raises `dispatch causation mismatch`; the Session cannot be replayed or advanced |
| `archive_stops_others` | a branch inherits a delegation; archiving the branch kills the child's Worker and writes a cancelled return in its Journal, while the source waits for it |
| `timeout_bounds_run` | a shell exits and leaves a process that holds its pipes: the runner waits for the readers without any limit |

**Why the bounds are enough to be interesting.** Six Journal events hold a fact, a
step, a grant, an attempt, an outcome and one event that competes with one of them; two
tokens give a claim and its takeover. Eight Runtime events hold a decision on a message,
its attempts and outcomes, a second message before, between or after them, and the
decision on that; with three messages and one command, also the decision whose context has
that command's result behind a later answer, and both ways for it to be unread occur: the
answer frozen beside the command needs no fault, the one frozen before its attempt needs a
commit that was missed or a stop. `runtime_turns` has no cancellation (`MaxCancels = 0`), so
of the two causes `OnlyKnownReplayGaps` names TLC meets the late grant only; the stale
cancellation is covered by the theorem `OnlyTwoReplayGaps`. In the scheduler's six events a message arrives, or a command ends, at
every point of a run and of the callback after it; its idle properties claim nothing
after a fault (a decision that failed waits for the next message by design), and nothing
about starts after a cancel. Two requests are what the stop handshake needs to go
wrong: one that makes the Worker idle and one that arrives meanwhile. A check that is
cancelled, one that is not, and a crash cover a crash on either side of each write. One
death per behaviour is enough wherever every action leaves a state that the next
process only reads from files: it may come at any step. The files of children need two:
one that leaves a creation unknown, one that interrupts an archive. Two processes are what a lost
update needs; three writes of a program's record register it, remove it and register it
again while an approval waits. A call that fails counts as the one death does. Three Steps are a restore of a Step before the last. Two branches give a
branch of a branch, whose spans are clipped.

Each property has a mutation of one definition (an `AlwaysOpen`, a `GroupAlwaysClosed`,
an `Unjoined`, ...) under which TLC finds it violated within the same bounds. The mutants
stand before the definition they replace and are marked as such.

Deadlock is not checked: a Session with nothing to do really stops, and so does a
behaviour that has reached a bound. Symmetry is over values the code compares for
equality only (deliveries, claim tokens, tasks, processes, contents); no run with symmetry
checks a liveness property.

**Properties that name gaps.** Several properties have the form "this holds but for these
causes": `OnlyKnownReplayGaps` (`LateGrant`, `StaleCancel`), `OnlyKnownStrandings`
(`GroupCannotClose`, `DecidedWithoutIt`), `OnlyKnownSlips` (crossed stop signals),
`OnlyKnownMixups`, `SkillsAreWhole`, `OutcomesAreTrue`, `PublicationIsSafe`, ... Each cause
is an observation of its own, checked to be the only one. Section 6 lists them.

## 4. Fairness

Every fairness assumption is weak fairness of what an event loop or the operating system
does with what is ready, except two. Nothing is assumed of users, of models that choose what to say,
or of processes to die.

| Specification | Assumed | Why the code justifies it | Not assumed |
|---|---|---|---|
| `OneShotFairSpec` | the clock loop, replies of the Host, recovery, the start of the Worker a delivery needs, and time go on | tasks of one event loop; `deliver` starts the Worker itself and retries | that a user opens a Session, or that a command is issued, or that a Session in `MayBreak` can start |
| `HostFairSpec` | the Host's reactions and the Worker's steps, each as a whole | both are event loops; a Worker that has work goes on | that anybody asks, that a Worker lives |
| `DelegationFairness` | parent and child steps, delivery of a handoff, ends of tools | as above | that a child lives; but the user opens the parent again (`OpenParent`), which is what the design relies on after a crash |
| `CompactFairness` | the Host's flow and the scheduler; strong fairness of a reader's completion and of the source's boundary | a reader that is started again and again is in the end heard; the source wakes again with each fact | that the source stops waiting for an approval: `EveryJobEnds` excuses it |
| `OwnerFairness` | the owner task and the return of `close` | one event loop | that a server answers: with `Bounded` a read ends by its timeout |
| `RunFairness`, `CommandRunsFairSpec` | the steps of event loop and kernel | `wait_process` has a timeout | that a process ends, or that the user asks to stop |

`EveryRequestEnds` has one excuse, `frozen`: the Host's event loop spinning for ever in
`request` because a transition that is done is awaited again and again (section 6).
`NothingForgotten`, `OnlyKnownStrandings` and `IdleMeansDone` are safety halves of
"everything is looked at": they speak of states in which every call has returned. That the
Runtime gets to such a state is not checked; it would need TLC to evaluate ENABLED over the
projection in every state.

## 5. Proofs

For every value of the constants, and without bounds other than the ones named in guards:

| Module | Theorem | Property |
|---|---|---|
| `SessionJournalProofs` | `TypeCorrect`, `TablesAgreeWithEachOther` | `JournalTypeOK`, `JournalBookkeeping` |
| | `TablesAgreeWithLog` | `TablesMatchLog` |
| | `AttemptedOnce` | `AttemptedAndEndedOnce` |
| | `DispatchGateHolds` | `DispatchIsGated` |
| | `CommitsAreFenced` | `FencedCommits` |
| | `JournalKeepsPromise` | `ImplementsEventLog` |
| `ProjectorProofs` | `LogReplays` | a projection of every log as section 5 describes |
| `RuntimeProofs` | `ProjectionIsJournal` | `ProjectionAgreesWithTables` |
| | `RuntimeInvHolds`, `RuntimeTypeCorrect` | `RuntimeInv`, `RuntimeTypeOK` |
| | `RuntimeUsesJournal` | `RuntimeSpec => JournalSpec` |
| | `DecisionsAreFromCuts` | `DecidedFromCuts` |
| | `StoppedStaysStopped` | `StoppedIsNotResumed` |
| | `ResultsAreTakenOver` | `OldResultNeverRunsAlone` |
| | `GroupsAreDecidedOnce` | `OneDecisionPerGroup` |
| | `FollowUpsAreAwaited` | `FollowUpShowsResults` |
| | `GrantedIsStarted` | `NothingForgotten` |
| | `ResultsAreShown` | `OnlyKnownStrandings` |
| | `OnlyTwoReplayGaps` | `OnlyKnownReplayGaps` |
| | `SchedulerTypeCorrect` | `SchedulerTypeOK` |
| | `NoWakeIsLost` | `IdleMeansDone`, while `NeverRaised` |
| `HostProofs` | `HostTyped` | `HostTypeOK` |
| | `OneWriterHolds` | `OneWriter` |
| | `HostWritesAloneHolds` | `HostWritesAlone` |
| | `HostKeepsPromise` | `KeepsPromise` |
| | `SlipsAreKnown` | `OnlyKnownSlips` |
| | `OneShotTyped` | `OneShotTypeOK` |
| | `ChecksHaveOneVerdict` | `OneVerdict` |
| | `MarksFollowDelivery` | `DeliveredIsAccepted` |
| `WorkerProofs` | `ParentHearsTheReturn`, `ChildEndsOnce` | `ReportIsTheReturn`, `EndsAreFinal` |
| | `CompactionJoins` | `WindowsJoin` |
| | `CommandsEndAsRecorded` | `OutcomesAreTrue` |
| `CapabilityProofs` | `ApprovalsAreFound` | `ApprovalsFindTheirRecord` |
| | `SkillsStayWhole` | `SkillsAreWhole` |
| | `ConnectionsStayCurrent` | `ServersAreCurrent` |
| | `RestoresAreExact` | `OrderlyRestoresAreExact` |
| | `DisplaysAreTrue` | `DisplayIsTrue` |
| `FileProofs` | `MixupsAreKnown` | `OnlyKnownMixups` |
| | `RequestsHaveOneCourse` | `OneCourse` |
| | `PublicationSpares` | `PublicationIsSafe` |
| | `ArchivedStaysClean` | `ArchivedIsClean` |
| | `MergesKeepOthers` | `MergesOntoWhatItSaw` |
| | `BranchesStaySound` | `BranchesAreSound` |

*Assumptions*: the ASSUMEs of the modules: constants that are counted are numbers, "no
value" is neither a value nor a record (`Windows`, `SkillRecords`, `Registrations`,
`Rescues`, ...), schedules and cancellations are different commands, "no stream" is no stage of one, and callers, tasks and
lines have names of their own. TLC evaluates all of them. Nothing is assumed to be finite
except by a bound. The theorems about `RuntimeSpec` have one hypothesis more, `FrameData =
Frames`: a request carries a frame as `project` makes it. It is a hypothesis and not an
ASSUME because `Frames` is infinite; every configuration of a Runtime run satisfies it by
`FrameData <- Frames`.

Each inductive invariant was checked by TLC as an invariant before it was proved. One lemma
per action shows that it is kept, with one step per part the action can disturb.

**Journal.** `TablesMatchLog` is not inductive: that `RecordOutcome` writes the right
command's row needs that an outcome's attempt belongs to its command; that a fresh commit
leaves the other rows alone needs that an unissued command has no attempt; that a late
grant cannot follow a rejection's attempt needs that rejection is final.
`JournalBookkeeping` names these five facts. The inductive invariant is `JournalInv` =
`JournalTypeOK` and `Bookkeeping`, which regroups `TablesMatchLog` and
`JournalBookkeeping` by table; `JournalInvHolds` shows it, with one lemma `...Keeps`
per transaction and, in each, one step per group of tables. `FencedCommits` follows from
`ClaimIsNewest`: the claim row always is the newest lease and is gone with any
cancellation, though generations restart at 1 and only tokens tell leases apart.
`DispatchIsGated` is carried beside `JournalInv`, since the attempt clears the column it
speaks of. `JournalKeepsPromise` reads each abstract guard off the tables through
`TablesMatchLog`, transaction by transaction; claims, leases and releases stutter.

**Projection.** `StateProjector` is written with folds over the log, and what a fold computes
needs an induction. The induction theorems of the library take operators as parameters,
which the installed provers cannot instantiate; `LogFolds` makes do with sets. `LeastNumber`
(an inhabited set of numbers has a least) gives `UpTo`, with which the intermediate values of
a fold form a chain of views, one per event; a statement about all views is then shown for
the first, and for each from the one before. `WalkIsSound` says in this way what a walk over
the log has learnt of the commands, basis and groups; `ResultFrame` and `FactFrame` say what
must be in the log when the next decision is on results, or on a fact, and what its frame
then shows. `ProjectionIsJournal` compares two reductions of one log: `AgreeInv` is
`JournalInv` with `StatesAreRows`, the property for the operational view alone, and
`TargetsPrecede`, that what an event points at comes before it.

**Runtime.** `RuntimeInv` is `JournalInv`, `ProcessTypeOK` and `DecidedFromCuts`. Every step of
the Runtime is a transaction of the Journal or leaves it alone (`RuntimeUsesJournal`), so
the Journal's theorems hold under it. `DecidedFromCuts` is what the coroutines of `advance`
keep over their awaits: the request they hold, and each committed step's, is the next
decision of a *cut*, a prefix of the log that ends before the step. Whatever a property says
of a step is then a statement about the projection of one cut, and no interleaving is left
in it. `ContinuationFrame` states it for a step on the results of another: in its cut there
is no stop of that step and no later message, and all its commands' results are there, the
triggering one last. The first two are `StoppedIsNotResumed` and `OldResultNeverRunsAlone`;
from the third, two such steps have each seen the result that triggered the other and are
the same (`OneDecisionPerGroup`). `FollowUpShowsResults` is what `FactFrame` says of the
results a message waits for.

Who starts a command: an attempt is accepted exactly for a command that `MayStart` by its
row. `StartsCovered` says that each such command is on somebody's way: in what a
`start_pending` has read and not started, or before one that is still to read, because
`advance` has committed a step or a grant has been recorded. A reader finds all of them
(`ReadFindsAll`), and a refused start was another reader's. A `start_pending` that looks at
a log without a projection raises and ends the process, so this is said of behaviours in
which none did: `NeverRaised` is about every length the log has had, since the look may have
been at any of them.

What is left over: `Wants` says by the log alone which events ask for a decision, `Answered`
which were decided on, cancelled or shown to an earlier decision. `WalkIsThorough` says of
the walk that it passes nothing that is `Wants` and not `Answered`, and of the event it stops
at that it is; so a log with nothing next has answered everything (`NothingIsLeft`), unless
the walk stopped at a message that waits for what is in flight. At rest nothing is in
flight. A result that nobody took over is, if it ends its group, an event that asks for a
decision, and if not it is shown with the one that does (`LastOfGroupWants`, `GroupIsShown`);
one that a message took over was awaited by its decision (`AwaitedResult`). What remains is
`OnlyKnownStrandings`.

Replay: a log is read again from its first event at every look, so a step that was decided
on a projection of a cut is later met by a walk over a longer log, and must find there the
frame it was decided in. `ReplayInv` adds to `RuntimeInv` and `AgreeInv` that no step was
decided without having seen the steps before it (`StepsInOrder`; the claim that a commit
consumes, and its lease, see to it) and that a cancellation is of a trigger that was next in
some cut (`CancelsFromCuts`); the log is `Grounded`, and no trigger consumed twice, because
the Journal keeps `EventLog`'s promise. Three arguments about logs then give `LogReplays`.
As long as nothing that came later consumed a trigger, the walk over a log goes where the
walk over its beginning goes, frame by frame (`Begins`, `WalkOn` in both); so up to the
trigger of the last step the walk goes as it did over that step's cut, which had a
projection, and shows the step its own frame. Without a stale cancellation nothing that was
cancelled since lies before that trigger. And after the last step nothing raises: an event
applies to a view that shows what it comes from (`Grounded`, `StateIsTraced`), whatever an
event the walk arrives at comes from has been shown, and so has what a frame on a fact
includes, without a late grant (`TailState`). Earlier steps need no argument of their own,
since the cut of the last one has them all.

Wakes: `Attended` says who will still look at the log: a caller that has recorded something
and not called `wake`, a wake that is remembered, a tool at work, or the task before its
next look. `DecidedInv` says that otherwise nothing is next, `VerdictsInv` that after
`_quiesced` nothing waits for a verdict either. A step that changes the log leaves somebody
who attends, except `cancel_turn`, which does not wake: with nothing next and nothing in
flight (`FlightInv`) what it appends makes nothing next (`CancelDecidesNothing`), because an
event that asks for a decision with the cancellation asked without it, and was answered.
The run checks `IdleMeansDone` for every log that has a projection in the end; the theorem
is about those that always had one.

**Host.** `HostInv` is `HostTypeOK`, `Lifetimes` (the Host forgets a Worker only when its
process is dead, and who holds the lock to start one has found none), `OneMessage` (the
message of a request is in one place: on its way, in the Worker's hands, or on its way
back) and `AnsweredIsWritten`. `OneWriter` is part of `Lifetimes`. That what was confirmed
is written needs `AnsweredIsWritten`, which is inductive only with `OneMessage`: without
it a second answer to one request could be read after the first. In the refinement,
confirmed and refused calls are never asked again (`StandingKept`); a step settles one
call, or all the calls of a pipe that closes. For the handshake, `SlipInv` adds
`StopIsAgreed` (only who has agreed to stop closes and says so), `HostAwaitsStop` (unless
signals have crossed, a Worker that is to stop has no request before it and gets none, and
who waits for the end of the transition can be woken) and `OnlyStopsEnd` (a pipe that closed
without a death or a kill closed on a stop). Then a Worker that agreed finds no request in
its pipe, because by `OneMessage` that request would be one the Host waits for; and a request
that ends without an answer had a Worker that died, was killed or got a crossed stop.

**OneShot.** `OneShotInv` adds to the properties `AttemptsHaveStarted`, `ChecksInOrder`
(registered, fired and accepted in this order; the clock holds registered checks, and in
`confirm` accepted ones) and `VerdictsAreTrue`. A cancellation can lose only to a firing
because both are single statements over the two tables; the proof has one lemma for each
step that changes what the tables or the Journals hold, and `TablesKeep` for the others.

**Workers.** *Delegation* needs only the types of four variables beside the property: a report
copies the return it finds, and `PersistReturn` and `Reported` never overwrite. *Compact*:
`CompactInv` is types, `CurrentIsWhole` (the window that is current shows every event once),
`JobIsCurrent` (at most one job is active; its window is the current one or the next, and
joins it) and `FlowIsCurrent` (what the holder of the Host's lock has found out is still so at
each of its steps). *Command runs*: `CommandInv` says of each run which processes can be left
at each stage (`RunIsTrue`), and of the stop that whoever it has heard of has ended and is
recorded by it unless that is done (`StopIsTrue`).

**Capabilities.** *CLI*: while no two processes have changed the file at once, a record that was
shown and is still the registration it was either is the one that is registered or has a
lower revision (`ShownAreBehind`), because every write counts on from what it has just read;
so equal revisions are the same record. *Skills*: until a process dies or two cross, at most
one is halfway through an installation, record and package are those of its stage
(`Halfway`), and with none halfway they agree or the error that the last one ended with
explains it (`OneAtATime`, `Explained`); what was listed is an earlier revision of the record or of another
installation (`ListedIsKnown`). *MCP*: a connection whose owner has ended stays cached under its revision. `RevisionsTell`
says that among everything anybody holds
(registered, loaded, cached, or in a task's hands) a revision tells one configuration of an
installation from another; only with it is a comparison of revisions a comparison of
configurations. *Versions*: a Step that was orderly was committed in the version its restore
goes back to (`CommittedInBaseline`), which needs to know whose operation was the last
(`LastOperation`) and that marks are never ahead of it (`MarksAreTrue`). *Display*: `Shows`
says what the hub shows when it has received the first part of the pipe; `PipeInOrder` that
each chunk and each end then finds its stream, and that no preview of an output follows the
request to deliver it; `PipeTellsTheWorker` that what will be shown after the whole pipe is
what the Worker does, but for an output it is delivering. A post extends the pipe behind
everything that was said of it (`Post...`), a receipt moves the hub along it (`Take...`), so
that each step of the Worker or the Host is one of the two; at rest the pipe is empty and the
hub shows what the Worker does: nothing, or the preview of a lost Step that was not withdrawn.

**Files.** *Approvals*: an ask that froze the registered revision saw the registered configuration (`OldAsk`), so
that a process that has not yet written the registry replaces what its user saw
(`StillSeen`), holds the secrets that were there (`CanRollBack`) or keeps the references of
what it replaces or none (`KeepsOrDrops`), unless it is raced; the secrets fit what is
registered unless a second write never came (`torn`) or references were dropped
(`orphaned`).
*Control*: who is past waiting holds the lock, but for the turn (`Locks`); each phase is
recorded once (`OncePerPhase`), an execution is recorded before it runs and by one task
(`RunsOnce`); and without overlapping preparations what a task is about to record fits what is
recorded (`InCourse`). *Publication*: from plan to end the transaction is the operation's
(`InOrder`), and what is left to write are old bytes the file still holds, unless the user wrote
meanwhile (`OldBytesLeft`). *Children*: nobody creates whom an archive removes, because a
creation is the line's own command and the archive has waited for it, and a branch inherits
only what is done (`Inherited`, `Removes`); what is removed stays so, because its creation is
done or its line is archived (`SweptAway`). A result's baseline is that of the first tree
(`KeptBaseline`), for every child that was given one baseline. The attempt to prove this
without the last clause failed, and found the gap that section 6 describes.
*Branches*: a Journal holds spans of other Journals and then rows of its own, and a span may
only be cut from what such spans make up. `BranchInv` says of every Journal that its spans
follow on each other and that each is of rows its Journal holds *itself* (`JournalsWhole`); so
a history is read without looking through a branch of a branch, and what it reads at each
place is one row of one Journal (`SpansCover`, `HistoryCells`; the flattening is a fold of
`LogFolds`). A Journal only grows at its end, so every history grows at its end or stays
(`RecordAdds`), and what a cut at any place of a history gives is that history up to there
(`ThroughFacts`, `BranchHistory`). The rest is what the Host knows at each stage of a flow
(`FlowsFine`: what was cut is a prefix that is still one) and that a restarted branch nobody
has written to is paused or has nothing to go on from (`RestartsWait`), which a death between
the rename and the pause keeps because the next Host pauses whatever would go on.

*Only model-checked*: `OnlyKnownUnread` (it is about sequences of messages that are
filtered and flattened, which the provers cannot expand), with the bounds of section 3, and
`IdleMeansDone` of a log that raised once and has a projection in the end. Liveness and
ENABLED are out of reach of the prover.


## 6. What else the modelling showed

Not all of these contradict a document; each is a behaviour a maintainer should know of,
and the properties in parentheses say it is the only one of its kind.

*Runtime.* `cancel_turn` cancels a trigger it read earlier, after a newer message took it
over and a step on that was committed; replay then raises `step decision cursor mismatch`
(`OnlyKnownReplayGaps`). A stop can be recorded between the freeze of the next step and its
commit, which does not look for it; `StoppedIsNotResumed` says that a step frozen later
never does. A parallel group with a rejected member never closes, and the result of a
command granted after a later message was decided is shown to no decision
(`OnlyKnownStrandings`). A long result is cut down to its
reference unread in two ways (`OnlyKnownUnread`): the answer that stands after it was given to
a message that was already there when the command was decided, so that this decision did not
wait for the command; or the answer was frozen before the command was attempted.

*Host.* A busy ends a transition though it answers an earlier stop, or none. If the Worker
then obeys the later stop, it may do so with a request in hand or work to do, and a
request may end as lost or find the Host spinning (`OnlyKnownSlips`).

*One-shot checks.* The clock always takes the earliest check that is not delivered. One
whose Session can no longer start is tried every thirty seconds for ever, and every later
check, of whatever Session, waits behind it (`EveryCheckArrives`, `Held`).

*Compact.* A window is published after a child has returned, when the return comes between
the check of the handoff and the second write.

*Branches.* `archive` of a branch reclaims inherited children (`archive_stops_others`); so
does the reclaim tool of a branch on a delegation it inherited. The Host then refuses the
report, and the refusal ends the Worker of the branch; comparing an inherited child, or one
whose files were discarded, ends the Worker that asks in the same way. An archive that
failed half-way through `discard` cannot be repeated, since the next one reads the files
that are gone. If the archive died, and a delegation it had begun to clean up is created
again, the child gets a new baseline while its Journal still holds its end: a result frozen
then is that of files the child never worked on (`MergesOntoWhatItSaw`, `retaken`; a proof
attempt found it, and two deaths show it to TLC). A child created while its parent is
archived is waited for. A child that
resolves conflicts may return files that still hold conflict marks.

*Control.* A turn and a resume that prepare the same request at the same time write two
proposals, and the Session can no longer read its control facts (`OneCourse`).

*MCP.* An approved install does not look whether the server exists and overwrites it; a
server that was removed and installed again counts its revisions from 1, so that an old
approval fits a new installation, and a loaded tool may reach it (`ServersAreCurrent`).
Secrets and registration come apart when two processes are at it at once, when one of the
two files is written and the other never is (a death, a roll back or an unlink that fails, a
`chmod` that fails after `os.replace`, which lies outside the `try` that would roll back),
and when a server that is updated without new secrets comes to be reached in another way:
its references are dropped and the secrets file stays (`OnlyKnownMixups`). A stdio
server has no read timeout: a caller of a server that hangs waits until the connection is
closed.

*Skills, CLI.* An update whose second rename fails deletes the package it had set aside: the
error passes by the inner `try`, and the `finally` that follows removes the temporary
directory with the backup in it (`skills/application.py:295` and `:321`); the Skill stays
registered without a package. A roll back that fails leaves a directory that blocks the next
installation, or the new package under the old record, whose own package is kept in
`.staging`, where nothing looks again. A death inside an installation leaves a package
directory that no operation removes and that blocks the next one; a candidate whose content was once compared with
another revision can neither be frozen again nor be accepted (`SkillsAreWhole`). A refresh or repair of a program
overwrites what another process wrote while the program ran. The revisions of a program that
was removed and registered again begin at 1, so that an old approval fits the new
registration, and two processes that write at the same instant may give one revision to two
records (`ApprovalsFindTheirRecord`).

*Display.* A Step that is lost to a cancellation or a lost lease leaves its preview for the
advance that is to follow. When the Session is paused or waits for its compaction by then,
`before_advance` refuses that advance and the preview stays shown on a Session that rests
(`DisplayIsTrue`).

*Files.* On POSIX nothing keeps a user from writing between the comparison of a file and
the write to it (`PublicationIsSafe`). A Step whose version fact is recorded late is
restored to the state after operations of a later Step (`OrderlyRestoresAreExact`).

*Command runs.* On POSIX a process that left the group, or stayed when the shell ended by
itself, survives the outcome (`OutcomesAreTrue`), and holds the run if it has the pipes
(`timeout_bounds_run`).

## 7. Not modelled

Every component is listed in `PROJECT.json` with its status and reason.

- *Inside modelled parts*: checkpoint rows (never read back for a decision); repeats of a
  call with an event id already written; `bind`, trace and `close` of the Runtime; start-up
  and orderly close of the Host; nested delegation; directories, creation, deletion and
  modes in a publication; conversion of MCP schemas and OAuth; fetching and parsing of a
  Skill; what a program prints.
- *Data*: JSON encoding, wording and layout, the system prompt, hashes (an identity stands for
  each content).
- *Loop guard*: thresholds over texts, without state of its own.
- *Not at all*: the HTTP routes, ACP, TUI and web front ends (presentation), attachments
  and artifacts but for where branches find them (written once), management and
  configuration (settings), the language-model service, the Rust sandbox helper
  (operating-system I/O) and the Rust file system, a general SQLite file system taken from
  an upstream project.

## 8. Left to do

1. Liveness of the scheduler over an abstract Runtime (what is to be decided and what may
   be started, in place of a log), which `SessionScheduler` refines.
2. Compositions of the services with the Host: a delegation whose child is compacted, a
   schedule delivered to a branch.
