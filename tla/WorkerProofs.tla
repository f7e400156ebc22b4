----------------------------- MODULE WorkerProofs -----------------------------
(***************************************************************************)
(* What holds of the components around a Worker for every set of children, *)
(* readers and commands, every length of the Journal and every number of   *)
(* deaths: Delegation, Compact and CommandRuns.                            *)
(***************************************************************************)
EXTENDS Delegation, Compact, CommandRuns, TLAPS

-------------------------------------------------------------------------------
\* Delegation.

Returns == Ends \cup {None}

DelegationInv ==
  /\ return \in [Children -> Returns]
  /\ report \in [Children -> Returns]
  /\ frozen \in [Children -> Nat \cup {None}]
  /\ edits \in [Children -> Nat]
  /\ ReportIsTheReturn

\* What is durable of a child's end stays: its return, the report of it and the files that
\* were frozen for the parent are each written once.
EndsAreFinal ==
  \A c \in Children :
    /\ return[c] # None => return'[c] = return[c]
    /\ report[c] # None => report'[c] = report[c]
    /\ frozen[c] # None => frozen'[c] = frozen[c]

DelegationStepOK == DelegationInv' /\ EndsAreFinal

-------------------------------------------------------------------------------
\* persist_return writes a return that is not there yet.
LEMMA PersistKeeps ==
  ASSUME DelegationInv, NEW c \in Children, NEW end \in Ends,
         return' = PersistReturn(c, end) \/ return' = return,
         UNCHANGED <<report, files>>
  PROVE  DelegationStepOK
<1>1. /\ return' \in [Children -> Returns]
      /\ \A d \in Children : return[d] # None => return'[d] = return[d]
  BY DEF DelegationInv, PersistReturn, Returns
<1>2. UNCHANGED <<report, frozen, edits>>
  BY DEF files
<1>3. ReportIsTheReturn'
  BY <1>1, <1>2 DEF DelegationInv, ReportIsTheReturn
<1>4. QED
  BY <1>1, <1>2, <1>3 DEF DelegationInv, DelegationStepOK, EndsAreFinal

\* A report repeats the return it finds.
LEMMA ReportKeeps ==
  ASSUME DelegationInv, NEW c \in Children, Reported(c), UNCHANGED <<return, edits>>
  PROVE  DelegationStepOK
<1>1. frozen' \in [Children -> Nat \cup {None}]
  BY DEF DelegationInv, Reported
<1>2. /\ report' \in [Children -> Returns]
      /\ \A d \in Children : report'[d] = report[d] \/ report'[d] = return[d]
      /\ \A d \in Children : report[d] # None => report'[d] = report[d]
      /\ \A d \in Children : frozen[d] # None => frozen'[d] = frozen[d]
  BY DEF DelegationInv, Reported
<1>3. ReportIsTheReturn'
  BY <1>2 DEF DelegationInv, ReportIsTheReturn
<1>4. QED
  BY <1>1, <1>2, <1>3 DEF DelegationInv, DelegationStepOK, EndsAreFinal

\* Every other step leaves returns, reports and frozen files alone.
LEMMA OthersKeep ==
  ASSUME DelegationInv, UNCHANGED <<report, return, frozen>>, edits' \in [Children -> Nat]
  PROVE  DelegationStepOK
BY DEF DelegationInv, ReportIsTheReturn, DelegationStepOK, EndsAreFinal

\* Every step of parent, child and Host keeps the strengthened invariant of a delegation.
LEMMA StepsKeep ==
  ASSUME DelegationInv, [DelegationNext]_delegationVars
  PROVE  DelegationStepOK
<1> USE DEF parentVars, journals, files
<1>0. edits \in [Children -> Nat]
  BY DEF DelegationInv
<1>1. ASSUME NEW c \in Children, ToolStep(c)
      PROVE  DelegationStepOK
  <2>1. edits' \in [Children -> Nat]
    BY <1>0, <1>1 DEF ToolStep
  <2>2. QED
    BY <1>1, <2>1, OthersKeep DEF ToolStep
<1>2. ASSUME NEW c \in Children,
             PersistCancelled(c) \/ RecordInterrupted(c) \/ HandleResume(c) \/ Return(c) \/ FailChild(c)
      PROVE  DelegationStepOK
  BY <1>2, PersistKeeps
  DEF PersistCancelled, RecordInterrupted, HandleResume, Return, FailChild, ChildGone, Ends
<1>3. ASSUME NEW c \in Children,
             ReportReclaimed(c) \/ Resend(c) \/ ReportReturn(c) \/ DeliverHandoff(c)
      PROVE  DelegationStepOK
  BY <1>3, ReportKeeps DEF ReportReclaimed, Resend, ReportReturn, DeliverHandoff
<1>4. ASSUME NEW c \in Children,
             \/ Delegate(c) \/ CreateChild(c) \/ Acknowledge(c) \/ RecreateChild(c)
             \/ RecordDelegated(c) \/ ResumeChild(c) \/ Reclaim(c) \/ StopForReclaim(c)
      PROVE  DelegationStepOK
  BY <1>0, <1>4, OthersKeep
  DEF Delegate, CreateChild, Acknowledge, RecreateChild, RecordDelegated, ResumeChild, Reclaim,
      StopForReclaim
<1>5. ASSUME NEW c \in Children,
             \/ StartChild(c) \/ HandleFact(c) \/ Advance(c) \/ FinalStep(c) \/ KnownFailure(c)
             \/ TaskDone(c) \/ ToolDone(c) \/ ChildStops(c) \/ KillChild(c)
      PROVE  DelegationStepOK
  BY <1>0, <1>5, OthersKeep
  DEF StartChild, HandleFact, Advance, FinalStep, KnownFailure, TaskDone, ToolDone, ChildStops,
      KillChild, ChildGone
<1>6. ASSUME OpenParent \/ ParentDies \/ HostDies \/ UNCHANGED delegationVars
      PROVE  DelegationStepOK
  BY <1>0, <1>6, OthersKeep DEF OpenParent, ParentDies, HostDies, delegationVars
<1>7. QED
  BY <1>1, <1>2, <1>3, <1>4, <1>5, <1>6
  DEF DelegationNext, ParentStep, ServeChild, Schedule

\* The invariant of a delegation holds in every reachable state.
LEMMA DelegationInvHolds == DelegationSpec => []DelegationInv
<1>1. DelegationInit => DelegationInv
  BY DEF DelegationInit, DelegationInv, Returns, ReportIsTheReturn
<1>2. DelegationInv /\ [DelegationNext]_delegationVars => DelegationInv'
  BY StepsKeep DEF DelegationStepOK
<1>3. QED
  BY <1>1, <1>2, PTL DEF DelegationSpec

\* Whoever comes first of the child, its dying Worker, its next Worker, the Host's reclaim
\* and a resume: the parent is told the child's durable return.
THEOREM ParentHearsTheReturn == DelegationSpec => []ReportIsTheReturn
<1>1. DelegationInv => ReportIsTheReturn
  BY DEF DelegationInv
<1>2. QED
  BY <1>1, DelegationInvHolds, PTL

\* A child ends once: no death, retry or reclaim replaces its return, the report of it or
\* the files frozen for its parent.
THEOREM ChildEndsOnce == DelegationSpec => [][EndsAreFinal]_delegationVars
<1>1. DelegationInv /\ [DelegationNext]_delegationVars => [EndsAreFinal]_delegationVars
  BY StepsKeep DEF DelegationStepOK
<1>2. QED
  BY <1>1, DelegationInvHolds, PTL DEF DelegationSpec

-------------------------------------------------------------------------------
\* Compact.

Jobs ==
  [status : {"active", "published", "retired"}, window : Readers \cup {None}, upto : Nat,
   carried : SUBSET Nat, summary : BOOLEAN, failed : BOOLEAN,
   prepared : Windows \cup {None}]

CompactTyped ==
  /\ position \in Nat
  /\ windows \in Seq(Windows)
  /\ rows \in [Readers -> Jobs \cup {NoRow}]
  /\ readers \in [Readers -> {"none", "up", "down", "gone"}]
  /\ flow = [by |-> flow.by, at |-> flow.at, snap |-> flow.snap]
  /\ \A r \in Readers : readers[r] # "none" \/ r = Current.id => rows[r] # NoRow

\* The current window shows every event once.
CurrentIsWhole ==
  /\ Current.cutover \in 0..position
  /\ Current.carried \cup Current.tail = 1..Current.cutover
  /\ Current.carried \cap Current.tail = {}

\* A window that may become current: the handoff of its reader, and what came until the cut.
Joins(window, r) ==
  /\ window \in Windows
  /\ window.id = r
  /\ window.parent = rows[r].window
  /\ rows[r].upto <= window.cutover /\ window.cutover <= position
  /\ window.carried = 1..rows[r].upto
  /\ window.tail = (rows[r].upto + 1)..window.cutover

\* Of a job that is active: its window is the current one, or becomes it.
JobGoesOn(r) ==
  /\ Current.id # r =>
       /\ Current.id = rows[r].window
       /\ Current.cutover <= rows[r].upto /\ rows[r].upto <= position
       /\ rows[r].carried = 1..rows[r].upto
       /\ rows[r].prepared # None => Joins(rows[r].prepared, r)
  /\ rows[r].prepared # None => rows[r].prepared.id = r
  /\ Current.id = r => rows[r].prepared # None

\* There is one job at a time.
JobIsCurrent ==
  /\ \A q, r \in Active : q = r
  /\ \A r \in Active : JobGoesOn(r)

\* What the holder of the lock has found out is still so.
FlowIsCurrent ==
  /\ flow.at \in {"free", "retire", "publish", "decide", "freeze", "snapshot", "prepare",
                  "window", "mark"}
  /\ flow.at = "freeze" => Active = {}
  /\ flow.at = "decide" => \A r \in Active : rows[r].prepared = None
  /\ flow.at \in {"snapshot", "prepare"} => Active # {} /\ rows[Job].prepared = None
  /\ flow.at \in {"publish", "window", "mark"} => Active # {} /\ rows[Job].prepared # None
  /\ flow.at = "window" => Current.id # Job
  /\ flow.at = "prepare" =>
       /\ flow.snap.window = Current
       /\ flow.snap.position \in Nat
       /\ rows[Job].upto <= flow.snap.position /\ flow.snap.position <= position

CompactInv == CompactTyped /\ CurrentIsWhole /\ JobIsCurrent /\ FlowIsCurrent

\* The job is an active one, when there is one.
LEMMA JobIsActive ==
  ASSUME Active # {}
  PROVE  Job \in Active /\ Job \in Readers /\ rows[Job].status = "active"
BY DEF Job, Active

\* The current window is a window, or the one the Session starts with.
LEMMA CurrentTyped ==
  ASSUME windows \in Seq(Windows)
  PROVE  /\ Current \in Windows \/ Current = NoWindow
         /\ Current.cutover \in Nat
         /\ Current.id \in Readers \cup {None}
         /\ Current.carried \in SUBSET Nat /\ Current.tail \in SUBSET Nat
<1>1. CASE windows = <<>>
  BY <1>1 DEF Current, NoWindow
<1>2. CASE windows # <<>>
  <2>1. Len(windows) \in DOMAIN windows
    BY <1>2
  <2>2. Current \in Windows
    BY <1>2, <2>1 DEF Current
  <2> QED
    BY <2>2 DEF Windows
<1> QED
  BY <1>1, <1>2

\* The Journal of the source grows and nothing else changes.
LEMMA GrowthKeeps ==
  ASSUME CompactInv, position' \in Nat, position <= position',
         UNCHANGED <<windows, rows, readers, flow>>
  PROVE  CompactInv'
<1>1. Current' = Current /\ Active' = Active /\ Job' = Job
  BY DEF Current, Active, Job
<1>2. CompactTyped'
  BY <1>1 DEF CompactInv, CompactTyped
<1>3. CurrentIsWhole'
  BY <1>1 DEF CompactInv, CompactTyped, CurrentIsWhole
<1>4. \A r \in Active : rows[r].upto \in Nat
  BY DEF CompactInv, CompactTyped, Active, Jobs, NoRow
<1>5. JobIsCurrent'
  <2>1. ASSUME NEW r \in Active
        PROVE  JobGoesOn(r)'
    <3>1. ASSUME Joins(rows[r].prepared, r)
          PROVE  Joins(rows[r].prepared, r)'
      BY <1>1, <3>1 DEF CompactInv, CompactTyped, Joins, Windows
    <3>2. JobGoesOn(r)
      BY DEF CompactInv, JobIsCurrent
    <3> QED
      BY <1>1, <1>4, <3>1, <3>2 DEF CompactInv, CompactTyped, JobGoesOn
  <2> QED
    BY <1>1, <2>1 DEF CompactInv, JobIsCurrent
<1>6. FlowIsCurrent'
  BY <1>1 DEF CompactInv, CompactTyped, FlowIsCurrent
<1> QED
  BY <1>2, <1>3, <1>5, <1>6 DEF CompactInv

\* Only the place of the flow changes, to one where what it asks for is so.
LEMMA FlowKeeps ==
  ASSUME CompactInv, UNCHANGED <<position, windows, rows>>,
         readers' \in [Readers -> {"none", "up", "down", "gone"}],
         \A r \in Readers : readers'[r] # "none" => readers[r] # "none" \/ rows[r] # NoRow,
         flow' = [by |-> flow'.by, at |-> flow'.at, snap |-> flow'.snap],
         FlowIsCurrent'
  PROVE  CompactInv'
<1>1. Current' = Current /\ Active' = Active
  BY DEF Current, Active
<1>2. CompactTyped'
  BY <1>1 DEF CompactInv, CompactTyped
<1>3. CurrentIsWhole'
  BY <1>1 DEF CompactInv, CurrentIsWhole
<1>4. \A r \in Readers : JobGoesOn(r) => JobGoesOn(r)'
  BY <1>1 DEF JobGoesOn, Joins
<1>5. JobIsCurrent'
  BY <1>1, <1>4 DEF CompactInv, JobIsCurrent, Active
<1> QED
  BY <1>2, <1>3, <1>5 DEF CompactInv

\* A row changes, or several do, in what no active job is judged by.
LEMMA RowsKeep ==
  ASSUME CompactInv, UNCHANGED <<position, windows>>,
         rows' \in [Readers -> Jobs \cup {NoRow}],
         \A r \in Readers : rows[r] # NoRow => rows'[r] # NoRow,
         readers' \in [Readers -> {"none", "up", "down", "gone"}],
         \A r \in Readers : readers'[r] # "none" => readers[r] # "none" \/ rows[r] # NoRow,
         \A r \in Active' :
           /\ r \in Active
           /\ rows'[r].window = rows[r].window /\ rows'[r].upto = rows[r].upto
           /\ rows'[r].carried = rows[r].carried /\ rows'[r].prepared = rows[r].prepared,
         flow' = [by |-> flow'.by, at |-> flow'.at, snap |-> flow'.snap],
         FlowIsCurrent'
  PROVE  CompactInv'
<1>1. Current' = Current
  BY DEF Current
<1>2. CompactTyped'
  BY <1>1 DEF CompactInv, CompactTyped
<1>3. CurrentIsWhole'
  BY <1>1 DEF CompactInv, CurrentIsWhole
<1>4. \A r \in Active' : JobGoesOn(r) => JobGoesOn(r)'
  BY <1>1 DEF JobGoesOn, Joins
<1>5. JobIsCurrent'
  BY <1>1, <1>4 DEF CompactInv, JobIsCurrent
<1> QED
  BY <1>2, <1>3, <1>5 DEF CompactInv

\* The flow starts, and asks for what it then finds.
LEMMA BeginKeeps ==
  ASSUME CompactInv, NEW by, Begin(by), UNCHANGED <<position, windows, rows, readers>>
  PROVE  CompactInv'
<1>1. Current' = Current /\ Active' = Active /\ Job' = Job
  BY DEF Current, Active, Job
<1>2. /\ flow' = [by |-> flow'.by, at |-> flow'.at, snap |-> flow'.snap]
      /\ flow'.at \in {"retire", "publish", "decide"}
      /\ flow'.at = "publish" => Active # {} /\ Prepared(Job)
      /\ flow'.at = "decide" => Active = {} \/ ~Prepared(Job)
  BY DEF Begin
<1>3. FlowIsCurrent'
  <2>1. \A r \in Active : r = Job
    BY JobIsActive DEF CompactInv, JobIsCurrent
  <2> QED
    BY <1>1, <1>2, <2>1 DEF FlowIsCurrent, Prepared
<1>4. readers' \in [Readers -> {"none", "up", "down", "gone"}]
  BY DEF CompactInv, CompactTyped
<1> QED
  BY <1>2, <1>3, <1>4, FlowKeeps

\* The lock is given back.
LEMMA AnswerKeeps ==
  ASSUME CompactInv, flow' = NoFlow, UNCHANGED <<position, windows, rows>>,
         readers' \in [Readers -> {"none", "up", "down", "gone"}],
         \A r \in Readers : readers'[r] # "none" => readers[r] # "none" \/ rows[r] # NoRow
  PROVE  CompactInv'
<1>1. flow' = [by |-> flow'.by, at |-> flow'.at, snap |-> flow'.snap]
  BY DEF NoFlow
<1>2. FlowIsCurrent'
  BY DEF NoFlow, FlowIsCurrent
<1> QED
  BY <1>1, <1>2, FlowKeeps

\* Decide: without a job the input may be frozen, with a summary a snapshot is taken.
LEMMA DecideKeeps ==
  ASSUME CompactInv, Decide
  PROVE  CompactInv'
<1>1. /\ UNCHANGED <<position, windows, rows>>
      /\ flow.at = "decide"
  BY DEF Decide, journalVars
<1>2. Current' = Current /\ Active' = Active /\ Job' = Job
  BY <1>1 DEF Current, Active, Job
<1>3. readers \in [Readers -> {"none", "up", "down", "gone"}]
  BY DEF CompactInv, CompactTyped
<1>4. CASE flow' = NoFlow /\ UNCHANGED readers
  BY <1>1, <1>3, <1>4, AnswerKeeps
<1>5. CASE Active # {} /\ flow' = NoFlow /\ EnsureReader(Job)
  <2>1. rows[Job] # NoRow /\ Job \in Readers
    BY <1>5, JobIsActive DEF NoRow
  <2>2. /\ readers' \in [Readers -> {"none", "up", "down", "gone"}]
        /\ \A r \in Readers : readers'[r] # "none" => readers[r] # "none" \/ rows[r] # NoRow
    BY <1>3, <1>5, <2>1 DEF EnsureReader
  <2> QED
    BY <1>1, <1>5, <2>2, AnswerKeeps
<1>6. CASE Active = {} /\ flow' = [flow EXCEPT !.at = "freeze"] /\ UNCHANGED readers
  <2>1. /\ flow' = [by |-> flow'.by, at |-> flow'.at, snap |-> flow'.snap]
        /\ flow'.at = "freeze"
    BY <1>6 DEF CompactInv, CompactTyped
  <2>2. FlowIsCurrent'
    BY <1>2, <1>6, <2>1 DEF FlowIsCurrent
  <2> QED
    BY <1>1, <1>3, <1>6, <2>1, <2>2, FlowKeeps
<1>7. CASE Active # {} /\ flow' = [flow EXCEPT !.at = "snapshot"] /\ UNCHANGED readers
  <2>1. /\ flow' = [by |-> flow'.by, at |-> flow'.at, snap |-> flow'.snap]
        /\ flow'.at = "snapshot"
    BY <1>7 DEF CompactInv, CompactTyped
  <2>2. rows[Job].prepared = None
    BY <1>1, <1>7, JobIsActive DEF CompactInv, FlowIsCurrent
  <2>3. FlowIsCurrent'
    BY <1>1, <1>2, <1>7, <2>1, <2>2 DEF FlowIsCurrent
  <2> QED
    BY <1>1, <1>3, <1>7, <2>1, <2>3, FlowKeeps
<1> QED
  BY <1>4, <1>5, <1>6, <1>7 DEF Decide, Answer

\* Every event of the Journal is known, and those after the cut are none of the others.
LEMMA WholeIsKnown ==
  ASSUME CompactInv
  PROVE  NothingFallsBetween
<1>1. position \in Nat /\ Current.cutover \in Nat
  BY CurrentTyped DEF CompactInv, CompactTyped
<1> QED
  BY <1>1 DEF CompactInv, CurrentIsWhole, NothingFallsBetween, Known

\* A job that is started carries everything until now.
LEMMA FreezeKeeps ==
  ASSUME CompactInv, NEW r \in Readers, Freeze(r)
  PROVE  CompactInv'
<1>1. UNCHANGED <<position, windows>> /\ flow' = NoFlow /\ Current' = Current /\ Active = {}
  BY DEF Freeze, Answer, journalVars, Current, CompactInv, FlowIsCurrent
<1>2. CASE UNCHANGED <<rows, readers>>
  BY <1>1, <1>2, AnswerKeeps DEF CompactInv, CompactTyped
<1>3. CASE rows' = [rows EXCEPT ![r] =
               [status |-> "active", window |-> StartedIn, upto |-> position,
                carried |-> Known(Current, position), summary |-> FALSE, failed |-> FALSE,
                prepared |-> None]] /\ EnsureReader(r)
  <2>1. /\ position \in Nat /\ rows \in [Readers -> Jobs \cup {NoRow}]
        /\ readers \in [Readers -> {"none", "up", "down", "gone"}]
        /\ Current.id \in Readers \cup {None} /\ Current.cutover \in 0..position
    BY CurrentTyped DEF CompactInv, CompactTyped, CurrentIsWhole
  <2>2. Known(Current, position) = 1..position
    BY WholeIsKnown DEF NothingFallsBetween
  <2>3. PICK job : job = [status |-> "active", window |-> Current.id, upto |-> position,
                carried |-> 1..position, summary |-> FALSE, failed |-> FALSE, prepared |-> None]
    OBVIOUS
  <2>4. rows' = [rows EXCEPT ![r] = job]
    BY <1>3, <2>2, <2>3 DEF StartedIn
  <2>5. job \in Jobs
    BY <2>1, <2>3 DEF Jobs
  <2>6. job # NoRow
    BY <2>3 DEF NoRow
  <2>7. Current.id # r
    BY DEF Freeze, CompactInv, CompactTyped
  <2>8. CompactTyped'
    BY <1>1, <1>3, <2>1, <2>4, <2>5, <2>6
    DEF CompactInv, CompactTyped, EnsureReader, NoFlow
  <2>9. Active' = {r}
    BY <1>1, <2>1, <2>3, <2>4 DEF Active
  <2>10. JobIsCurrent'
    BY <1>1, <2>1, <2>3, <2>4, <2>7, <2>9 DEF JobIsCurrent, JobGoesOn
  <2>11. CurrentIsWhole' /\ FlowIsCurrent'
    BY <1>1 DEF CompactInv, CurrentIsWhole, FlowIsCurrent, NoFlow
  <2> QED
    BY <2>8, <2>10, <2>11 DEF CompactInv
<1> QED
  BY <1>2, <1>3 DEF Freeze

\* The snapshot is of the current window, and the job began before it.
LEMMA SnapshotKeeps ==
  ASSUME CompactInv, Snapshot
  PROVE  CompactInv'
<1>1. /\ UNCHANGED <<position, windows, rows, readers>> /\ flow.at = "snapshot"
      /\ Current' = Current /\ Active' = Active /\ Job' = Job
  BY DEF Snapshot, journalVars, Current, Active, Job
<1>2. readers \in [Readers -> {"none", "up", "down", "gone"}]
  BY DEF CompactInv, CompactTyped
<1>3. CASE flow' = NoFlow
  BY <1>1, <1>2, <1>3, AnswerKeeps
<1>4. CASE flow' = [flow EXCEPT !.at = "prepare",
                                !.snap = [window |-> Current, position |-> position]]
  <2>1. /\ flow' = [by |-> flow'.by, at |-> flow'.at, snap |-> flow'.snap]
        /\ flow'.at = "prepare"
        /\ flow'.snap = [window |-> Current, position |-> position]
    BY <1>4 DEF CompactInv, CompactTyped
  <2>2. Active # {} /\ rows[Job].prepared = None
    BY <1>1 DEF CompactInv, FlowIsCurrent
  <2>3. position \in Nat /\ rows[Job].upto <= position
    BY <2>2, JobIsActive DEF CompactInv, CompactTyped, JobIsCurrent, JobGoesOn
  <2>4. FlowIsCurrent'
    BY <1>1, <2>1, <2>2, <2>3 DEF FlowIsCurrent
  <2> QED
    BY <1>1, <1>2, <2>1, <2>4, FlowKeeps
<1> QED
  BY <1>3, <1>4 DEF Snapshot, Answer

\* The window that is prepared joins the one its job was started in.
LEMMA PrepareKeeps ==
  ASSUME CompactInv, PrepareWindow
  PROVE  CompactInv'
<1>1. /\ UNCHANGED <<position, windows, readers>> /\ flow.at = "prepare" /\ Current' = Current
      /\ flow' = [flow EXCEPT !.at = "publish", !.snap = None]
  BY DEF PrepareWindow, journalVars, Current
<1>2. /\ Job \in Readers /\ Job \in Active /\ rows[Job].status = "active"
      /\ rows[Job].prepared = None
      /\ flow.snap.window = Current
      /\ flow.snap.position \in Nat /\ position \in Nat
      /\ rows[Job].upto <= flow.snap.position /\ flow.snap.position <= position
  BY <1>1, JobIsActive DEF CompactInv, CompactTyped, FlowIsCurrent
<1>3. PICK r \in Readers : r = Job
  BY <1>2
<1>4. PICK cut \in Nat : cut = flow.snap.position
  BY <1>2
<1>5. JobGoesOn(r) /\ Current.id # r /\ \A q \in Active : q = r
  BY <1>2, <1>3 DEF CompactInv, JobIsCurrent, JobGoesOn
<1>6. /\ rows \in [Readers -> Jobs \cup {NoRow}]
      /\ rows[r] \in Jobs
  BY <1>2, <1>3 DEF CompactInv, CompactTyped, NoRow
<1>7. /\ Current.id = rows[r].window
      /\ Current.cutover \in Nat /\ rows[r].upto \in Nat
      /\ Current.cutover <= rows[r].upto
      /\ rows[r].carried = 1..rows[r].upto
  BY <1>5, <1>6, CurrentTyped DEF JobGoesOn, CompactInv, CompactTyped, Jobs
<1>8. {s \in (Current.cutover + 1)..cut : s > rows[r].upto /\ s <= cut} = (rows[r].upto + 1)..cut
  BY <1>7
<1>9. PICK window : window = [id |-> r, parent |-> rows[r].window, cutover |-> cut,
                              carried |-> rows[r].carried, tail |-> (rows[r].upto + 1)..cut]
  OBVIOUS
<1>10. rows' = [rows EXCEPT ![r].prepared = window]
  BY <1>2, <1>3, <1>4, <1>8, <1>9 DEF PrepareWindow, Cutover
<1>11. PICK job : job = [rows[r] EXCEPT !.prepared = window]
  OBVIOUS
<1>12. rows' = [rows EXCEPT ![r] = job]
  BY <1>6, <1>10, <1>11
<1>13. window \in Windows
  BY <1>4, <1>6, <1>7, <1>9 DEF Windows, Jobs
<1>14. /\ job \in Jobs
       /\ job.prepared = window /\ job.window = rows[r].window /\ job.upto = rows[r].upto
       /\ job.carried = rows[r].carried /\ job.status = rows[r].status
  BY <1>6, <1>11, <1>13 DEF Jobs
<1>15. job # NoRow /\ window # None
  BY <1>13, <1>14, CompactAssumption DEF Jobs, NoRow
<1>16. Active' = Active
  BY <1>2, <1>3, <1>6, <1>12, <1>14 DEF Active
<1>17. Job' = Job
  BY <1>16 DEF Job
<1>18. rows'[r] = job
  BY <1>6, <1>12
<1>19. /\ flow' = [by |-> flow'.by, at |-> flow'.at, snap |-> flow'.snap]
       /\ flow'.at = "publish"
  BY <1>1 DEF CompactInv, CompactTyped
<1>20. CompactTyped'
  BY <1>1, <1>6, <1>12, <1>14, <1>15, <1>19 DEF CompactInv, CompactTyped
<1>21. CurrentIsWhole'
  BY <1>1 DEF CompactInv, CurrentIsWhole
<1>22. Joins(window, r)'
  BY <1>1, <1>2, <1>3, <1>4, <1>7, <1>9, <1>13, <1>14, <1>18 DEF Joins
<1>23. JobGoesOn(r)'
  <2>1. window.id = r
    BY <1>9
  <2>2. Current.id = job.window /\ Current.cutover <= job.upto /\ job.upto <= position
    BY <1>2, <1>3, <1>7, <1>14
  <2>3. job.carried = 1..job.upto
    BY <1>7, <1>14
  <2> QED
    BY <1>1, <1>5, <1>14, <1>18, <1>22, <2>1, <2>2, <2>3 DEF JobGoesOn
<1>24. JobIsCurrent'
  BY <1>5, <1>16, <1>23 DEF JobIsCurrent
<1>25. FlowIsCurrent'
  BY <1>2, <1>3, <1>14, <1>15, <1>16, <1>17, <1>18, <1>19 DEF FlowIsCurrent
<1> QED
  BY <1>20, <1>21, <1>24, <1>25 DEF CompactInv

\* The handoff is written unless the window is there, or the Session has returned.
LEMMA PublishHandoffKeeps ==
  ASSUME CompactInv, PublishHandoff
  PROVE  CompactInv'
<1>1. /\ UNCHANGED <<position, windows, rows, readers>> /\ flow.at = "publish"
      /\ Current' = Current /\ Active' = Active /\ Job' = Job
  BY DEF PublishHandoff, Current, Active, Job
<1>2. readers \in [Readers -> {"none", "up", "down", "gone"}]
  BY DEF CompactInv, CompactTyped
<1>3. Active # {} /\ rows[Job].prepared # None /\ rows[Job].prepared.id = Job
  BY <1>1, JobIsActive DEF CompactInv, FlowIsCurrent, JobIsCurrent, JobGoesOn
<1>4. /\ flow' = [by |-> flow'.by, at |-> flow'.at, snap |-> flow'.snap]
      /\ flow'.at \in {"mark", "retire", "window"}
      /\ flow'.at = "window" => Current.id # Job
  BY <1>3 DEF PublishHandoff, CompactInv, CompactTyped
<1>5. FlowIsCurrent'
  BY <1>1, <1>3, <1>4 DEF FlowIsCurrent
<1> QED
  BY <1>1, <1>2, <1>4, <1>5, FlowKeeps

\* The window of the job becomes the current one.
LEMMA PublishWindowKeeps ==
  ASSUME CompactInv, PublishWindow
  PROVE  CompactInv'
<1>1. /\ UNCHANGED <<position, rows, readers>> /\ flow.at = "window"
      /\ Active' = Active /\ Job' = Job
      /\ windows' = Append(windows, rows[Job].prepared)
      /\ flow' = [flow EXCEPT !.at = "mark"]
  BY DEF PublishWindow, Active, Job
<1>2. /\ Job \in Readers /\ Job \in Active /\ rows[Job].status = "active"
      /\ Active # {} /\ Current.id # Job /\ rows[Job].prepared # None
  BY <1>1, JobIsActive DEF CompactInv, FlowIsCurrent
<1>3. PICK r \in Readers : r = Job
  BY <1>2
<1>4. PICK window : window = rows[r].prepared
  OBVIOUS
<1>5. /\ \A q \in Active : q = r
      /\ JobGoesOn(r)
      /\ Joins(window, r)
  BY <1>2, <1>3, <1>4 DEF CompactInv, JobIsCurrent, JobGoesOn
<1>6. window \in Windows /\ window.id = r /\ windows \in Seq(Windows)
  BY <1>5 DEF Joins, CompactInv, CompactTyped
<1>7. windows' \in Seq(Windows) /\ Current' = window
  <2>1. windows' = Append(windows, window)
    BY <1>1, <1>3, <1>4
  <2>2. windows' # <<>> /\ windows'[Len(windows')] = window /\ windows' \in Seq(Windows)
    BY <1>6, <2>1
  <2> QED
    BY <2>2 DEF Current
<1>8. /\ flow' = [by |-> flow'.by, at |-> flow'.at, snap |-> flow'.snap]
      /\ flow'.at = "mark"
  BY <1>1 DEF CompactInv, CompactTyped
<1>9. rows[r] # NoRow /\ rows[r] \in Jobs
  BY <1>2, <1>3 DEF NoRow, CompactInv, CompactTyped
<1>10. CompactTyped'
  BY <1>1, <1>6, <1>7, <1>8, <1>9 DEF CompactInv, CompactTyped
<1>11. rows[r].upto \in Nat /\ position \in Nat /\ window.cutover \in Nat
  BY <1>6, <1>9 DEF Jobs, Windows, CompactInv, CompactTyped
<1>12. CurrentIsWhole'
  <2>1. /\ window.carried = 1..rows[r].upto
        /\ window.tail = (rows[r].upto + 1)..window.cutover
        /\ rows[r].upto <= window.cutover /\ window.cutover <= position
    BY <1>5 DEF Joins
  <2>2. /\ window.carried \cup window.tail = 1..window.cutover
        /\ window.carried \cap window.tail = {}
        /\ window.cutover \in 0..position
    BY <1>11, <2>1
  <2> QED
    BY <1>1, <1>7, <2>2 DEF CurrentIsWhole
<1>13. JobIsCurrent'
  <2>1. JobGoesOn(r)'
    BY <1>1, <1>2, <1>3, <1>4, <1>6, <1>7 DEF JobGoesOn
  <2> QED
    BY <1>1, <1>5, <2>1 DEF JobIsCurrent
<1>14. FlowIsCurrent'
  BY <1>1, <1>2, <1>8 DEF FlowIsCurrent
<1> QED
  BY <1>10, <1>12, <1>13, <1>14 DEF CompactInv

\* A job that ends leaves none.
LEMMA EndKeeps ==
  ASSUME CompactInv, RetireReturned \/ (flow.at = "mark" /\ MarkPublished)
  PROVE  CompactInv'
<1>1. /\ UNCHANGED <<position, windows>> /\ flow' = NoFlow
      /\ rows \in [Readers -> Jobs \cup {NoRow}]
      /\ readers \in [Readers -> {"none", "up", "down", "gone"}]
  BY DEF RetireReturned, MarkPublished, Answer, journalVars, CompactInv, CompactTyped
<1>2. /\ flow' = [by |-> flow'.by, at |-> flow'.at, snap |-> flow'.snap]
      /\ FlowIsCurrent'
  BY <1>1 DEF NoFlow, FlowIsCurrent
<1>3. CASE RetireReturned
  <2>1. rows' = [r \in Readers |-> IF r \in Active THEN [rows[r] EXCEPT !.status = "retired"] ELSE rows[r]]
    BY <1>3 DEF RetireReturned
  <2>2. \A r \in Active : [rows[r] EXCEPT !.status = "retired"] \in Jobs
    BY <1>1 DEF Active, Jobs, NoRow
  <2>3. \A r \in Active : rows'[r].status = "retired"
    BY <2>1, <2>2, <1>1 DEF Active, Jobs, NoRow
  <2>4. rows' \in [Readers -> Jobs \cup {NoRow}]
    BY <1>1, <2>1, <2>2
  <2>5. \A r \in Readers : rows[r] # NoRow => rows'[r] # NoRow
    BY <2>1, <2>3 DEF NoRow
  <2>6. Active' = {}
    BY <1>1, <2>1, <2>3 DEF Active
  <2>7. /\ readers' \in [Readers -> {"none", "up", "down", "gone"}]
        /\ \A r \in Readers : readers'[r] # "none" => readers[r] # "none" \/ rows[r] # NoRow
    BY <1>1, <1>3 DEF RetireReturned
  <2> QED
    BY <1>1, <1>2, <2>4, <2>5, <2>6, <2>7, RowsKeep
<1>4. CASE flow.at = "mark" /\ MarkPublished
  <2>1. Active # {} /\ Job \in Readers /\ rows[Job].status = "active" /\ \A r \in Active : r = Job
    BY <1>4, JobIsActive DEF CompactInv, FlowIsCurrent, JobIsCurrent
  <2>2. rows[Job] \in Jobs
    BY <1>1, <2>1 DEF NoRow
  <2>3. PICK job : job = [rows[Job] EXCEPT !.status = "published"]
    OBVIOUS
  <2>4. job \in Jobs /\ job.status = "published" /\ job # NoRow
    BY <2>2, <2>3 DEF Jobs, NoRow
  <2>5. rows' = [rows EXCEPT ![Job] = job] /\ UNCHANGED readers
    BY <1>1, <1>4, <2>1, <2>3 DEF MarkPublished
  <2>6. Active' = {}
    BY <1>1, <2>1, <2>4, <2>5 DEF Active
  <2>7. /\ rows' \in [Readers -> Jobs \cup {NoRow}]
        /\ \A r \in Readers : rows[r] # NoRow => rows'[r] # NoRow
    BY <1>1, <2>1, <2>4, <2>5
  <2> QED
    BY <1>1, <1>2, <2>5, <2>6, <2>7, RowsKeep
<1> QED
  BY <1>3, <1>4

\* A reader ends: its summary or its failure is kept with the job.
LEMMA ReaderKeeps ==
  ASSUME CompactInv, NEW r \in Readers, Complete(r) \/ ReaderFails(r)
  PROVE  CompactInv'
<1>1. /\ UNCHANGED <<position, windows, flow>> /\ readers[r] = "up"
      /\ rows \in [Readers -> Jobs \cup {NoRow}]
      /\ readers \in [Readers -> {"none", "up", "down", "gone"}]
      /\ readers' = [readers EXCEPT ![r] = "gone"]
      /\ rows[r] # NoRow
  BY DEF Complete, ReaderFails, journalVars, CompactInv, CompactTyped
<1>2. rows[r] \in Jobs
  BY <1>1
<1>3. \/ UNCHANGED rows
      \/ rows' = [rows EXCEPT ![r].status = "retired"] /\ flow = NoFlow
      \/ rows' = [rows EXCEPT ![r].summary = TRUE]
      \/ rows' = [rows EXCEPT ![r].failed = TRUE]
  BY DEF Complete, ReaderFails
<1>4. PICK job \in Jobs :
        /\ rows' = [rows EXCEPT ![r] = job]
        /\ job.window = rows[r].window /\ job.upto = rows[r].upto
        /\ job.carried = rows[r].carried /\ job.prepared = rows[r].prepared
        /\ job.status = rows[r].status \/ (job.status = "retired" /\ flow = NoFlow)
  <2>1. CASE UNCHANGED rows
    BY <1>1, <1>2, <2>1
  <2>2. CASE rows' = [rows EXCEPT ![r].status = "retired"] /\ flow = NoFlow
    <3>1. [rows[r] EXCEPT !.status = "retired"] \in Jobs
      BY <1>2 DEF Jobs
    <3> QED
      BY <1>1, <1>2, <2>2, <3>1 DEF Jobs
  <2>3. CASE rows' = [rows EXCEPT ![r].summary = TRUE]
    <3>1. [rows[r] EXCEPT !.summary = TRUE] \in Jobs
      BY <1>2 DEF Jobs
    <3> QED
      BY <1>1, <1>2, <2>3, <3>1 DEF Jobs
  <2>4. CASE rows' = [rows EXCEPT ![r].failed = TRUE]
    <3>1. [rows[r] EXCEPT !.failed = TRUE] \in Jobs
      BY <1>2 DEF Jobs
    <3> QED
      BY <1>1, <1>2, <2>4, <3>1 DEF Jobs
  <2> QED
    BY <1>3, <2>1, <2>2, <2>3, <2>4
<1>5. job # NoRow
  BY DEF Jobs, NoRow
<1>6. /\ rows' \in [Readers -> Jobs \cup {NoRow}]
      /\ \A q \in Readers : rows[q] # NoRow => rows'[q] # NoRow
      /\ rows'[r] = job
  BY <1>1, <1>4, <1>5
<1>7. Active' \subseteq Active /\ (Active' = Active \/ flow = NoFlow)
  BY <1>1, <1>4, <1>6 DEF Active
<1>8. \A q \in Active' :
        /\ q \in Active
        /\ rows'[q].window = rows[q].window /\ rows'[q].upto = rows[q].upto
        /\ rows'[q].carried = rows[q].carried /\ rows'[q].prepared = rows[q].prepared
  BY <1>1, <1>4, <1>6, <1>7 DEF Active
<1>9. FlowIsCurrent'
  <2>1. CASE flow = NoFlow
    BY <1>1, <2>1 DEF NoFlow, FlowIsCurrent
  <2>2. CASE Active' = Active
    <3>1. Job' = Job /\ Current' = Current
      BY <1>1, <2>2 DEF Job, Current
    <3>2. Active # {} => Job \in Active'
      BY <2>2, JobIsActive
    <3> QED
      BY <1>1, <1>8, <2>2, <3>1, <3>2 DEF CompactInv, FlowIsCurrent
  <2> QED
    BY <1>7, <2>1, <2>2
<1>10. /\ flow' = [by |-> flow'.by, at |-> flow'.at, snap |-> flow'.snap]
       /\ readers' \in [Readers -> {"none", "up", "down", "gone"}]
       /\ \A q \in Readers : readers'[q] # "none" => readers[q] # "none" \/ rows[q] # NoRow
  BY <1>1 DEF CompactInv, CompactTyped
<1> QED
  BY <1>1, <1>6, <1>8, <1>9, <1>10, RowsKeep

\* Each step of the source, the Host and the readers keeps the invariant.
LEMMA CompactStepKeeps ==
  ASSUME CompactInv, [CompactNext]_compactVars
  PROVE  CompactInv'
<1> USE DEF journalVars
<1>0. /\ position \in Nat
      /\ readers \in [Readers -> {"none", "up", "down", "gone"}]
  BY DEF CompactInv, CompactTyped
<1>1. CASE Arrive \/ Wake \/ AdvanceSession \/ Step \/ Quiesce \/ ParentResumes \/ UNCHANGED compactVars
  <2>1. position' \in Nat /\ position <= position'
    BY <1>0, <1>1
    DEF Arrive, Wake, AdvanceSession, Step, Quiesce, ParentResumes, compactVars
  <2>2. UNCHANGED <<windows, rows, readers, flow>>
    BY <1>1 DEF Arrive, Wake, AdvanceSession, Step, Quiesce, ParentResumes, compactVars
  <2> QED
    BY <2>1, <2>2, GrowthKeeps
<1>2. CASE EnterBoundary \/ Open
  BY <1>2, BeginKeeps DEF EnterBoundary, Open
<1>3. CASE HostFlow
  BY <1>3, DecideKeeps, FreezeKeeps, SnapshotKeeps, PrepareKeeps, PublishHandoffKeeps,
     PublishWindowKeeps, EndKeeps DEF HostFlow, MarkPublished
<1>4. CASE \E r \in Readers : Complete(r) \/ ReaderFails(r)
  BY <1>4, ReaderKeeps
<1>5. CASE SourceDies \/ CompactHostDies
  <2>1. /\ flow' = NoFlow /\ UNCHANGED <<position, windows, rows>>
        /\ readers' \in [Readers -> {"none", "up", "down", "gone"}]
        /\ \A r \in Readers : readers'[r] # "none" => readers[r] # "none" \/ rows[r] # NoRow
    BY <1>0, <1>5 DEF SourceDies, CompactHostDies
  <2> QED
    BY <2>1, AnswerKeeps
<1> QED
  BY <1>1, <1>2, <1>3, <1>4, <1>5 DEF CompactNext

\* The invariant of Compact holds in every reachable state.
LEMMA CompactInvHolds == CompactSpec => []CompactInv
<1>1. CompactInit => CompactInv
  <2> SUFFICES ASSUME CompactInit PROVE CompactInv
    OBVIOUS
  <2>1. Current = NoWindow /\ Active = {} /\ position = 0 /\ flow = NoFlow
    BY DEF CompactInit, Current, Active, NoRow
  <2>2. CompactTyped
    BY <2>1, CompactAssumption DEF CompactInit, CompactTyped, NoFlow, NoWindow
  <2>3. CurrentIsWhole /\ JobIsCurrent /\ FlowIsCurrent
    BY <2>1 DEF CurrentIsWhole, JobIsCurrent, FlowIsCurrent, NoFlow, NoWindow
  <2> QED
    BY <2>2, <2>3 DEF CompactInv
<1>2. CompactInv /\ [CompactNext]_compactVars => CompactInv'
  BY CompactStepKeeps
<1>3. QED
  BY <1>1, <1>2, PTL DEF CompactSpec

\* A job is prepared and published in the window it was started in.
LEMMA HandoffIsCurrent ==
  ASSUME CompactInv
  PROVE  NoStaleHandoff
<1>1. flow.at \in {"prepare", "publish"} => Job \in Active /\ JobGoesOn(Job)
  BY JobIsActive DEF CompactInv, FlowIsCurrent, JobIsCurrent
<1>2. flow.at = "prepare" => flow.snap.window.id = rows[Job].window
  BY <1>1 DEF CompactInv, FlowIsCurrent, JobGoesOn
<1>3. flow.at = "publish" => Current.id \in {rows[Job].window, rows[Job].prepared.id}
  BY <1>1 DEF CompactInv, FlowIsCurrent, JobGoesOn
<1> QED
  BY <1>2, <1>3 DEF NoStaleHandoff

\* However much arrives while a handoff is written, and wherever the source, a reader or the
\* Host dies: the window the model sees stands for each event once, and no handoff is stale.
THEOREM CompactionJoins == CompactSpec => []WindowsJoin
<1>1. CompactInv => WindowsJoin
  BY WholeIsKnown, HandoffIsCurrent DEF WindowsJoin
<1>2. QED
  BY <1>1, CompactInvHolds, PTL

-------------------------------------------------------------------------------
\* CommandRuns.

Processes == [alive : BOOLEAN, grouped : BOOLEAN, pipes : BOOLEAN]

RunRecords ==
  [at : {"eligible", "attempted", "starting", "waiting", "draining", "finished", "over", "lost"},
   shell : {"none", "alive", "dead"}, child : Processes,
   signalled : BOOLEAN, expired : BOOLEAN,
   kind : {"none", "exited", "interrupted", "timed_out", "not_started"}]

\* The processes of an Attempt whose result is known, as far as it is said that they are gone.
Reaped(run) ==
  /\ run.shell # "alive"
  /\ run.child.alive => platform = "posix" /\ (run.kind = "exited" \/ ~run.child.grouped)

\* A result is only known of processes that are gone, and an outcome is that result.
RunIsTrue(run, verdict) ==
  /\ run.at \in {"eligible", "attempted", "starting"} =>
       run.shell = "none" /\ ~run.child.alive /\ run.kind = "none"
  /\ run.at = "waiting" => run.kind = "none"
  /\ run.kind # "none" => Reaped(run)
  /\ platform = "windows" /\ run.child.alive => run.child.grouped
  /\ verdict \in {"none", run.kind}

\* Whom the stop has heard of has ended, and is recorded by it unless that is done.
StopIsTrue ==
  /\ stop = [at |-> stop.at, lives |-> stop.lives, interrupted |-> stop.interrupted]
  /\ stop.lives \subseteq Runs
  /\ \A c \in stop.lives : At(c) \notin {"eligible", "attempted"}
  /\ stop.at \in {"recording", "returned"} =>
       \A c \in stop.lives :
         ~Live(c) /\ (runs[c].kind = "interrupted" => c \in stop.interrupted \/ verdicts[c] = "interrupted")
  /\ stop.at = "returned" => stop.interrupted = {}

CommandInv ==
  /\ platform \in {"posix", "windows"}
  /\ runs \in [Runs -> RunRecords]
  /\ verdicts = [c \in Runs |-> verdicts[c]]
  /\ \A c \in Runs : RunIsTrue(runs[c], verdicts[c])
  /\ StopIsTrue

\* One Attempt goes on: never back, and its result stays once it has one.
LEMMA RunKeeps ==
  ASSUME CommandInv, NEW c \in Runs, NEW run \in RunRecords,
         runs' = [runs EXCEPT ![c] = run], UNCHANGED <<platform, stop>>,
         verdicts' = verdicts \/ Accepted(c),
         At(c) \notin {"eligible", "attempted"} => run.at \notin {"eligible", "attempted"},
         At(c) \in {"finished", "over", "lost"} =>
           run.at \in {"finished", "over", "lost"} /\ run.kind = runs[c].kind,
         RunIsTrue(run, verdicts'[c])
  PROVE  CommandInv'
<1>1. runs' \in [Runs -> RunRecords] /\ runs'[c] = run /\ \A d \in Runs \ {c} : runs'[d] = runs[d]
  BY DEF CommandInv
<1>2. /\ verdicts' = [d \in Runs |-> verdicts'[d]]
      /\ \A d \in Runs \ {c} : verdicts'[d] = verdicts[d]
      /\ verdicts[c] # "none" => verdicts'[c] = verdicts[c]
  BY DEF CommandInv, Accepted
<1>3. \A d \in Runs : RunIsTrue(runs[d], verdicts[d])'
  <2>1. RunIsTrue(runs[c], verdicts[c])'
    BY <1>1 DEF RunIsTrue, Reaped
  <2>2. ASSUME NEW d \in Runs \ {c}
        PROVE  RunIsTrue(runs[d], verdicts[d])'
    BY <1>1, <1>2 DEF CommandInv, RunIsTrue, Reaped
  <2> QED
    BY <2>1, <2>2
<1>4. StopIsTrue'
  <2>1. ASSUME NEW d \in stop.lives
        PROVE  /\ At(d)' \notin {"eligible", "attempted"}
               /\ ~Live(d) => ~Live(d)' /\ runs'[d].kind = runs[d].kind
               /\ verdicts[d] = "interrupted" => verdicts'[d] = "interrupted"
    <3>1. d \in Runs /\ At(d) \notin {"eligible", "attempted"} /\ runs[d] \in RunRecords
      BY DEF CommandInv, StopIsTrue
    <3>2. CASE d = c
      BY <1>1, <1>2, <3>1, <3>2 DEF At, Live, RunRecords
    <3>3. CASE d # c
      BY <1>1, <1>2, <3>1, <3>3 DEF At, Live
    <3> QED
      BY <3>2, <3>3
  <2> QED
    BY <2>1 DEF CommandInv, StopIsTrue
<1> QED
  BY <1>1, <1>2, <1>3, <1>4 DEF CommandInv

\* What the user, the Dispatcher and the operating system do to one Attempt.
LEMMA CommandActionKeeps ==
  ASSUME CommandInv, NEW c \in Runs, CommandAction(c)
  PROVE  CommandInv'
<1>1. PICK run \in RunRecords : run = runs[c]
  BY DEF CommandInv
<1>2. RunIsTrue(run, verdicts[c]) /\ platform \in {"posix", "windows"} /\ UNCHANGED <<platform, stop>>
  BY <1>1 DEF CommandInv, CommandAction, StartRun, Arm, Spawn, SpawnFails, TimeoutPasses, EndWait,
     Drain, RecordResult, ShellExits, ChildExits, LeaveBehind
<1>3. runs = [d \in Runs |-> runs[d]] /\ verdicts = [d \in Runs |-> verdicts[d]]
  BY DEF CommandInv
<1>4. CASE StartRun(c) \/ Arm(c) \/ Drain(c)
  <2>1. PICK at \in {"attempted", "starting", "finished"} :
          /\ Goes(c, at) /\ UNCHANGED verdicts
          /\ \/ run.at = "eligible" /\ at = "attempted"
             \/ run.at = "attempted" /\ at = "starting"
             \/ run.at = "draining" /\ at = "finished"
    BY <1>1, <1>4 DEF StartRun, Arm, Drain, At
  <2>2. PICK new : new = [run EXCEPT !.at = at]
    OBVIOUS
  <2>3. runs' = [runs EXCEPT ![c] = new] /\ new \in RunRecords
    BY <1>1, <1>3, <2>1, <2>2 DEF Goes, RunRecords
  <2>4. RunIsTrue(new, verdicts'[c])
    BY <1>2, <2>1, <2>2 DEF RunIsTrue, Reaped, RunRecords
  <2>5. At(c) = run.at /\ new.at = at
    BY <1>1, <2>2 DEF At, RunRecords
  <2> QED
    BY <1>1, <1>2, <2>1, <2>3, <2>4, <2>5, RunKeeps
<1>5. CASE \/ Spawn(c) \/ SpawnFails(c) \/ TimeoutPasses(c) \/ ShellExits(c) \/ ChildExits(c)
          \/ \E grouped, pipes \in BOOLEAN : LeaveBehind(c, grouped, pipes)
  <2>1. PICK new \in RunRecords :
          /\ runs' = [runs EXCEPT ![c] = new]
          /\ \/ /\ run.at = "starting"
                /\ \/ new = [run EXCEPT !.at = "waiting", !.shell = "alive"]
                   \/ new = [run EXCEPT !.at = "finished", !.kind = "not_started"]
             \/ run.at = "waiting" /\ new = [run EXCEPT !.expired = TRUE]
             \/ run.shell = "alive" /\ new = [run EXCEPT !.shell = "dead"]
             \/ run.child.alive /\ new = [run EXCEPT !.child = NoChild]
             \/ /\ run.shell = "alive"
                /\ \E grouped, pipes \in BOOLEAN :
                     /\ grouped \/ platform = "posix"
                     /\ new = [run EXCEPT !.child =
                                 [alive |-> TRUE, grouped |-> grouped, pipes |-> pipes]]
    <3>1. CASE Spawn(c)
      <4>1. [run EXCEPT !.at = "waiting", !.shell = "alive"] \in RunRecords
        BY DEF RunRecords
      <4> QED
        BY <1>1, <1>3, <3>1, <4>1 DEF Spawn, At
    <3>2. CASE SpawnFails(c)
      <4>1. [run EXCEPT !.at = "finished", !.kind = "not_started"] \in RunRecords
        BY DEF RunRecords
      <4> QED
        BY <1>1, <1>3, <3>2, <4>1 DEF SpawnFails, At
    <3>3. CASE TimeoutPasses(c)
      <4>1. [run EXCEPT !.expired = TRUE] \in RunRecords
        BY DEF RunRecords
      <4> QED
        BY <1>1, <1>3, <3>3, <4>1 DEF TimeoutPasses, At
    <3>4. CASE ShellExits(c)
      <4>1. [run EXCEPT !.shell = "dead"] \in RunRecords
        BY DEF RunRecords
      <4> QED
        BY <1>1, <1>3, <3>4, <4>1 DEF ShellExits
    <3>5. CASE ChildExits(c)
      <4>1. [run EXCEPT !.child = NoChild] \in RunRecords
        BY DEF RunRecords, Processes, NoChild
      <4> QED
        BY <1>1, <1>3, <3>5, <4>1 DEF ChildExits
    <3>6. ASSUME NEW grouped \in BOOLEAN, NEW pipes \in BOOLEAN, LeaveBehind(c, grouped, pipes)
          PROVE  /\ runs' = [runs EXCEPT ![c] = [run EXCEPT !.child =
                                [alive |-> TRUE, grouped |-> grouped, pipes |-> pipes]]]
                 /\ [run EXCEPT !.child = [alive |-> TRUE, grouped |-> grouped, pipes |-> pipes]]
                      \in RunRecords
                 /\ run.shell = "alive" /\ (grouped \/ platform = "posix")
      <4>1. [run EXCEPT !.child = [alive |-> TRUE, grouped |-> grouped, pipes |-> pipes]] \in RunRecords
        BY DEF RunRecords, Processes
      <4> QED
        BY <1>1, <1>3, <3>6, <4>1 DEF LeaveBehind
    <3> QED
      BY <1>5, <3>1, <3>2, <3>3, <3>4, <3>5, <3>6
  <2>2. UNCHANGED verdicts
    BY <1>5 DEF Spawn, SpawnFails, TimeoutPasses, ShellExits, ChildExits, LeaveBehind
  <2>3. RunIsTrue(new, verdicts'[c])
    <3>1. /\ verdicts'[c] = verdicts[c]
          /\ run.shell = "alive" \/ run.child.alive =>
               run.at \notin {"eligible", "attempted", "starting"}
          /\ run.shell = "alive" => run.kind = "none"
      BY <1>2, <2>2 DEF RunIsTrue, Reaped
    <3>2. CASE run.at = "starting" /\ new = [run EXCEPT !.at = "waiting", !.shell = "alive"]
      <4>1. /\ new.at = "waiting" /\ new.kind = run.kind /\ new.child = run.child
        BY <3>2 DEF RunRecords
      <4> QED
        BY <1>2, <3>1, <3>2, <4>1 DEF RunIsTrue
    <3>3. CASE run.at = "starting" /\ new = [run EXCEPT !.at = "finished", !.kind = "not_started"]
      <4>1. /\ new.at = "finished" /\ new.kind = "not_started"
            /\ new.child = run.child /\ new.shell = run.shell
        BY <3>3 DEF RunRecords
      <4> QED
        BY <1>2, <3>1, <3>3, <4>1 DEF RunIsTrue, Reaped
    <3>4. CASE run.at = "waiting" /\ new = [run EXCEPT !.expired = TRUE]
      <4>1. /\ new.at = run.at /\ new.kind = run.kind
            /\ new.child = run.child /\ new.shell = run.shell
        BY <3>4 DEF RunRecords
      <4> QED
        BY <1>2, <3>1, <4>1 DEF RunIsTrue, Reaped
    <3>5. CASE run.shell = "alive" /\ new = [run EXCEPT !.shell = "dead"]
      <4>1. new.at = run.at /\ new.kind = run.kind /\ new.child = run.child
        BY <3>5 DEF RunRecords
      <4> QED
        BY <1>2, <3>1, <3>5, <4>1 DEF RunIsTrue, Reaped
    <3>6. CASE run.child.alive /\ new = [run EXCEPT !.child = NoChild]
      <4>1. /\ new.at = run.at /\ new.kind = run.kind /\ new.shell = run.shell
            /\ new.child = NoChild
        BY <3>6 DEF RunRecords
      <4> QED
        BY <1>2, <3>1, <3>6, <4>1 DEF RunIsTrue, Reaped, NoChild
    <3>7. ASSUME run.shell = "alive", NEW grouped \in BOOLEAN, NEW pipes \in BOOLEAN,
                 grouped \/ platform = "posix",
                 new = [run EXCEPT !.child = [alive |-> TRUE, grouped |-> grouped, pipes |-> pipes]]
          PROVE  RunIsTrue(new, verdicts'[c])
      <4>1. /\ new.at = run.at /\ new.kind = run.kind /\ new.shell = run.shell
            /\ new.child.grouped = grouped
        BY <3>7 DEF RunRecords
      <4> QED
        BY <1>2, <3>1, <3>7, <4>1 DEF RunIsTrue
    <3> QED
      BY <2>1, <3>2, <3>3, <3>4, <3>5, <3>6, <3>7
  <2>4. /\ run.at = "starting" \/ new.at = run.at
        /\ run.at = "starting" => new.at \in {"starting", "waiting", "finished"}
        /\ run.at = "starting" \/ new.kind = run.kind
    BY <2>1 DEF RunRecords
  <2>5. At(c) = run.at
    BY <1>1 DEF At
  <2> QED
    BY <1>1, <1>2, <2>1, <2>2, <2>3, <2>4, <2>5, RunKeeps
<1>6. CASE EndWait(c)
  <2>1. PICK kind : kind = KindOf(run)
    OBVIOUS
  <2>2. PICK killed : killed = AfterWait(run, kind)
    OBVIOUS
  <2>3. PICK new : new = [killed EXCEPT !.at = "draining", !.kind = kind, !.signalled = FALSE,
                                        !.expired = FALSE]
    OBVIOUS
  <2>4. /\ run.at = "waiting" /\ WaitOver(run) /\ UNCHANGED verdicts
        /\ runs' = [runs EXCEPT ![c] = new]
    BY <1>1, <1>6, <2>1, <2>2, <2>3 DEF EndWait, At
  <2>5. /\ kind \in {"exited", "interrupted", "timed_out"}
        /\ kind = "exited" => run.shell = "dead"
    BY <2>1, <2>4 DEF KindOf
  <2>6. /\ killed \in RunRecords
        /\ killed.shell = "dead"
        /\ \/ platform = "posix" /\ kind = "exited" /\ killed.child = run.child
           \/ killed.child = IF run.child.grouped THEN NoChild ELSE run.child
    BY <1>1, <2>2, <2>5 DEF AfterWait, Killed, RunRecords, NoChild, Processes
  <2>7. /\ new \in RunRecords
        /\ new.at = "draining" /\ new.kind = kind
        /\ new.shell = killed.shell /\ new.child = killed.child
    BY <2>3, <2>5, <2>6 DEF RunRecords
  <2>8. verdicts'[c] = "none"
    BY <1>2, <2>4 DEF RunIsTrue
  <2>9. RunIsTrue(new, verdicts'[c])
    BY <1>2, <2>5, <2>6, <2>7, <2>8 DEF RunIsTrue, Reaped, NoChild
  <2>10. At(c) = run.at
    BY <1>1 DEF At
  <2> QED
    BY <1>1, <1>2, <2>4, <2>7, <2>9, <2>10, RunKeeps
<1>7. CASE RecordResult(c)
  <2>1. PICK new : new = [run EXCEPT !.at = "over"]
    OBVIOUS
  <2>2. /\ runs' = [runs EXCEPT ![c] = new] /\ run.at = "finished" /\ Accepted(c)
        /\ new \in RunRecords /\ new.at = "over" /\ new.kind = run.kind
        /\ new.shell = run.shell /\ new.child = run.child
    BY <1>1, <1>7, <2>1 DEF RecordResult, Goes, At, RunRecords
  <2>3. verdicts'[c] \in {"none", run.kind}
    BY <1>1, <1>2, <1>3, <2>2 DEF Accepted, RunIsTrue
  <2>4. RunIsTrue(new, verdicts'[c])
    BY <1>2, <2>2, <2>3 DEF RunIsTrue, Reaped
  <2>5. At(c) = run.at
    BY <1>1 DEF At
  <2> QED
    BY <1>1, <1>2, <2>2, <2>4, <2>5, RunKeeps
<1> QED
  BY <1>4, <1>5, <1>6, <1>7 DEF CommandAction

\* What cancel_turn does: it waits for those it has signalled.
LEMMA StopActionKeeps ==
  ASSUME CommandInv, StopAction
  PROVE  CommandInv'
<1>1. runs \in [Runs -> RunRecords] /\ \A c \in Runs : RunIsTrue(runs[c], verdicts[c])
  BY DEF CommandInv
<1>2. CASE BeginStop \/ EndStop
  <2>1. /\ UNCHANGED <<platform, runs, verdicts>>
        /\ stop'.lives = stop.lives /\ stop'.interrupted = stop.interrupted
        /\ stop' = [at |-> stop'.at, lives |-> stop'.lives, interrupted |-> stop'.interrupted]
        /\ \/ stop'.at = "closed"
           \/ stop'.at = "returned" /\ stop.at = "recording" /\ stop.interrupted = {}
    BY <1>2 DEF BeginStop, EndStop, CommandInv, StopIsTrue
  <2>2. StopIsTrue'
    BY <2>1 DEF CommandInv, StopIsTrue, Live, At
  <2>3. \A c \in Runs : RunIsTrue(runs[c], verdicts[c])'
    BY <1>1, <2>1 DEF RunIsTrue, Reaped
  <2> QED
    BY <2>1, <2>2, <2>3 DEF CommandInv
<1>3. CASE SignalLive
  <2>1. /\ UNCHANGED <<platform, verdicts>>
        /\ stop' = [at |-> "waiting", lives |-> {c \in Runs : Live(c)}, interrupted |-> stop.interrupted]
        /\ runs' = [c \in Runs |-> [runs[c] EXCEPT !.signalled = At(c) \in {"starting", "waiting"}]]
    BY <1>3 DEF SignalLive, CommandInv, StopIsTrue
  <2>2. ASSUME NEW c \in Runs
        PROVE  /\ runs'[c] \in RunRecords
               /\ runs'[c].at = runs[c].at /\ runs'[c].shell = runs[c].shell
               /\ runs'[c].child = runs[c].child /\ runs'[c].kind = runs[c].kind
    <3>1. runs'[c] = [runs[c] EXCEPT !.signalled = TRUE] \/ runs'[c] = [runs[c] EXCEPT !.signalled = FALSE]
      <4>1. runs'[c] = [runs[c] EXCEPT !.signalled = At(c) \in {"starting", "waiting"}]
        BY <2>1
      <4>2. (At(c) \in {"starting", "waiting"}) = TRUE \/ (At(c) \in {"starting", "waiting"}) = FALSE
        OBVIOUS
      <4> QED
        BY <4>1, <4>2, Zenon
    <3> QED
      BY <1>1, <3>1 DEF RunRecords
  <2>3. \A c \in Runs : RunIsTrue(runs[c], verdicts[c])'
    BY <1>1, <2>1, <2>2 DEF RunIsTrue, Reaped
  <2>4. runs' \in [Runs -> RunRecords]
    BY <2>1, <2>2
  <2>5. StopIsTrue'
    BY <2>1, <2>2 DEF StopIsTrue, Live, At
  <2> QED
    BY <2>1, <2>3, <2>4, <2>5 DEF CommandInv
<1>4. CASE HearAll
  <2>1. /\ UNCHANGED <<platform, runs, verdicts>>
        /\ stop'.lives = stop.lives /\ stop'.at = "recording"
        /\ stop'.interrupted = {c \in stop.lives : runs[c].kind = "interrupted"}
        /\ stop' = [at |-> stop'.at, lives |-> stop'.lives, interrupted |-> stop'.interrupted]
        /\ \A c \in stop.lives : ~Live(c)
    BY <1>4 DEF HearAll, Heard, CommandInv, StopIsTrue
  <2>2. StopIsTrue'
    BY <2>1 DEF CommandInv, StopIsTrue, Live, At
  <2>3. \A c \in Runs : RunIsTrue(runs[c], verdicts[c])'
    BY <1>1, <2>1 DEF RunIsTrue, Reaped
  <2> QED
    BY <2>1, <2>2, <2>3 DEF CommandInv
<1>5. ASSUME NEW c \in Runs, RecordInterrupt(c)
      PROVE  CommandInv'
  <2>1. /\ UNCHANGED <<platform, runs>>
        /\ stop'.lives = stop.lives /\ stop'.at = "recording" /\ stop.at = "recording"
        /\ stop'.interrupted = stop.interrupted \ {c}
        /\ stop' = [at |-> stop'.at, lives |-> stop'.lives, interrupted |-> stop'.interrupted]
    BY <1>5 DEF RecordInterrupt, CommandInv, StopIsTrue
  <2>2. /\ verdicts' = [d \in Runs |-> verdicts'[d]]
        /\ \A d \in Runs \ {c} : verdicts'[d] = verdicts[d]
        /\ verdicts'[c] = IF verdicts[c] = "none" THEN runs[c].kind ELSE verdicts[c]
    BY <1>5 DEF RecordInterrupt, Accepted, CommandInv
  <2>3. \A d \in Runs : RunIsTrue(runs[d], verdicts[d])'
    BY <1>1, <2>1, <2>2 DEF RunIsTrue, Reaped
  <2>4. \A d \in Runs : verdicts'[d] = verdicts[d] \/ (d = c /\ verdicts'[d] = runs[d].kind)
    BY <1>1, <2>2
  <2>5. runs[c].kind = "interrupted" => verdicts'[c] = "interrupted"
    BY <1>1, <2>2 DEF RunIsTrue
  <2>6. StopIsTrue'
    BY <2>1, <2>4, <2>5 DEF CommandInv, StopIsTrue, Live, At
  <2> QED
    BY <2>1, <2>2, <2>3, <2>6 DEF CommandInv
<1> QED
  BY <1>2, <1>3, <1>4, <1>5 DEF StopAction

\* The Worker dies: what is lost had no result, or keeps it.
LEMMA WorkerDiesKeeps ==
  ASSUME CommandInv, WorkerDies
  PROVE  CommandInv'
<1>1. /\ runs \in [Runs -> RunRecords] /\ \A c \in Runs : RunIsTrue(runs[c], verdicts[c])
      /\ UNCHANGED <<platform, verdicts>> /\ stop' = IdleStop
      /\ platform \in {"posix", "windows"}
  BY DEF CommandInv, WorkerDies
<1>2. ASSUME NEW c \in Runs
      PROVE  runs'[c] \in RunRecords /\ RunIsTrue(runs'[c], verdicts[c])
  <2>1. CASE At(c) \in {"eligible", "over"}
    BY <1>1, <2>1 DEF WorkerDies
  <2>2. CASE At(c) \notin {"eligible", "over"}
    <3>1. PICK killed : killed = IF platform = "windows" THEN Killed(runs[c]) ELSE runs[c]
      OBVIOUS
    <3>2. runs'[c] = [killed EXCEPT !.at = "lost", !.signalled = FALSE, !.expired = FALSE]
      BY <2>2, <3>1 DEF WorkerDies
    <3>3. /\ killed \in RunRecords /\ killed.kind = runs[c].kind
          /\ \/ killed.shell = runs[c].shell /\ killed.child = runs[c].child
             \/ /\ killed.shell = "dead"
                /\ killed.child = IF runs[c].child.grouped THEN NoChild ELSE runs[c].child
      BY <1>1, <3>1 DEF Killed, RunRecords, NoChild, Processes
    <3>4. /\ runs'[c] \in RunRecords /\ runs'[c].at = "lost" /\ runs'[c].kind = killed.kind
          /\ runs'[c].shell = killed.shell /\ runs'[c].child = killed.child
      BY <3>2, <3>3 DEF RunRecords
    <3> QED
      BY <1>1, <3>3, <3>4 DEF RunIsTrue, Reaped, NoChild
  <2> QED
    BY <2>1, <2>2
<1>3. runs' \in [Runs -> RunRecords]
  BY <1>2 DEF WorkerDies
<1>4. \A c \in Runs : RunIsTrue(runs[c], verdicts[c])'
  BY <1>1, <1>2 DEF RunIsTrue, Reaped
<1>5. StopIsTrue'
  BY <1>1 DEF StopIsTrue, IdleStop
<1> QED
  BY <1>1, <1>3, <1>4, <1>5 DEF CommandInv

\* The invariant of a command's run holds in every reachable state.
LEMMA CommandInvHolds == CommandRunsSpec => []CommandInv
<1>1. CommandRunsInit => CommandInv
  BY DEF CommandRunsInit, CommandInv, NewRun, NoChild, IdleStop, RunRecords, Processes, RunIsTrue,
     StopIsTrue
<1>2. CommandInv /\ [CommandRunsNext]_commandVars => CommandInv'
  <2> SUFFICES ASSUME CommandInv, [CommandRunsNext]_commandVars PROVE CommandInv'
    OBVIOUS
  <2>1. CASE UNCHANGED commandVars
    BY <2>1 DEF CommandInv, commandVars, RunIsTrue, Reaped, StopIsTrue, Live, At
  <2> QED
    BY <2>1, CommandActionKeeps, StopActionKeeps, WorkerDiesKeeps DEF CommandRunsNext
<1>3. QED
  BY <1>1, <1>2, PTL DEF CommandRunsSpec

\* Whenever the shell exits, the time is up and the user stops, in any order: what is said
\* to be interrupted, timed out or stopped is gone, but for the known gaps.
THEOREM CommandsEndAsRecorded == CommandRunsSpec => []OutcomesAreTrue
<1>1. CommandInv => OutcomesAreTrue
  <2> SUFFICES ASSUME CommandInv PROVE OutcomesAreTrue
    OBVIOUS
  <2>1. OnlyKnownSurvivors
    BY DEF CommandInv, RunIsTrue, Reaped, OnlyKnownSurvivors
  <2>2. OnlyKnownEscapes
    BY DEF CommandInv, StopIsTrue, OnlyKnownEscapes
  <2> QED
    BY <2>1, <2>2 DEF OutcomesAreTrue
<1>2. QED
  BY <1>1, CommandInvHolds, PTL

==============================================================================
