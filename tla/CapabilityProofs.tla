--------------------------- MODULE CapabilityProofs ---------------------------
(***************************************************************************)
(* What holds of what a Session may call, of the workspace it works on and *)
(* of what is shown of it, for every set of Sessions, processes, skills,   *)
(* programs and versions, and every number of outputs.                     *)
(***************************************************************************)
EXTENDS McpServers, SkillStore, CliStore, LiveDisplay, WorkspaceVersions, TLAPS

-------------------------------------------------------------------------------
\* CliStore.

CliRecords == [rev : Nat, since : Nat, made : Nat]

\* What a Session carries out once it is approved
CliChanges == [kind : {"install", "replace", "remove"}, base : CliRecords \cup {None},
               read : BOOLEAN, found : CliRecords \cup {None}]

\* The state each Session is in has an entry of its own.
CliTyped ==
  /\ writes \in Nat /\ collided \in BOOLEAN
  /\ cli = None \/ cli \in CliRecords
  /\ asked = [s \in Sessions |-> asked[s]]
  /\ changing = [s \in Sessions |-> changing[s]]
  /\ \A s \in Sessions :
       /\ asked[s] # None =>
            /\ asked[s].kind \in {"install", "replace", "remove"}
            /\ asked[s].kind # "install" => asked[s].shown \in CliRecords
       /\ changing[s] # None =>
            /\ changing[s] \in CliChanges
            /\ changing[s].read /\ changing[s].kind = "replace" =>
                 changing[s].found # None /\ changing[s].found \in CliRecords

\* The records that proposals show
Showed == {asked[s].shown : s \in {t \in Sessions : asked[t] # None /\ asked[t].kind # "install"}}

\* What is registered now, what was shown and what a change has read was registered by some
\* write before the next.
RegisteredBefore ==
  /\ cli # None => cli.since < writes
  /\ \A r \in Showed : r.since < writes
  /\ \A s \in Sessions :
       changing[s] # None /\ changing[s].read /\ changing[s].kind = "replace" =>
         changing[s].found.since < writes

\* Since it was shown, a record that is registered still has had more revisions, or is as it was.
ShownAreBehind ==
  \A r \in Showed : cli # None /\ cli.since = r.since => cli = r \/ r.rev < cli.rev

CliInv ==
  /\ CliTyped /\ RegisteredBefore
  /\ ~collided => ShownAreBehind
  /\ ApprovalsFindTheirRecord

-------------------------------------------------------------------------------
\* Something is proposed, or dropped.
LEMMA AskedKeeps ==
  ASSUME CliInv, NEW s \in Sessions, Ask(s) \/ Drop(s)
  PROVE  CliInv'
<1> USE DEF CliInv
<1>1. UNCHANGED <<cli, changing, writes, collided, mistaken>>
  BY DEF Ask, Drop
<1>2. CliTyped' /\ Showed' \subseteq Showed \cup ({cli} \ {None})
  <2>1. CASE Ask(s)
    <3>1. PICK kind \in (IF cli = None THEN {"install"} ELSE {"replace", "remove"}) :
            asked' = [asked EXCEPT ![s] = [kind |-> kind, shown |-> cli]]
      BY <2>1 DEF Ask, Proposable
    <3>2. /\ asked'[s].kind = kind /\ asked'[s].shown = cli
          /\ \A t \in Sessions \ {s} : asked'[t] = asked[t]
          /\ asked' = [t \in Sessions |-> asked'[t]]
      BY <3>1 DEF CliTyped
    <3>3. QED
      BY <1>1, <3>1, <3>2 DEF CliTyped, Showed
  <2>2. CASE Drop(s)
    <3>1. /\ asked'[s] = None
          /\ \A t \in Sessions \ {s} : asked'[t] = asked[t]
          /\ asked' = [t \in Sessions |-> asked'[t]]
      BY <2>2 DEF Drop, CliTyped
    <3>2. QED
      BY <1>1, <3>1 DEF CliTyped, Showed
  <2>3. QED
    BY <2>1, <2>2
<1>3. RegisteredBefore'
  BY <1>1, <1>2 DEF RegisteredBefore
<1>4. ~collided' => ShownAreBehind'
  BY <1>1, <1>2 DEF ShownAreBehind
<1>5. ApprovalsFindTheirRecord'
  BY <1>1 DEF ApprovalsFindTheirRecord
<1>6. QED
  BY <1>2, <1>3, <1>4, <1>5

\* An approval is carried out.
LEMMA BeginKeeps ==
  ASSUME CliInv, NEW s \in Sessions, BeginInstall(s) \/ BeginChange(s)
  PROVE  CliInv'
<1> USE DEF CliInv
<1>1. /\ UNCHANGED <<cli, writes, collided>>
      /\ asked' = [asked EXCEPT ![s] = None]
      /\ changing' = [changing EXCEPT ![s] = [kind |-> asked[s].kind, base |-> cli,
                                              read |-> FALSE, found |-> None]]
      /\ asked[s] # None
  BY DEF BeginInstall, BeginChange, Execute, Probe
<1>2. /\ asked'[s] = None /\ \A t \in Sessions \ {s} : asked'[t] = asked[t]
      /\ changing'[s] \in CliChanges /\ changing'[s].read = FALSE
      /\ \A t \in Sessions \ {s} : changing'[t] = changing[t]
      /\ asked' = [t \in Sessions |-> asked'[t]]
      /\ changing' = [t \in Sessions |-> changing'[t]]
  BY <1>1 DEF CliTyped, CliChanges
<1>3. CliTyped'
  BY <1>1, <1>2 DEF CliTyped
<1>4. Showed' \subseteq Showed
  BY <1>2 DEF Showed
<1>5. RegisteredBefore' /\ (~collided' => ShownAreBehind')
  BY <1>1, <1>2, <1>4 DEF RegisteredBefore, ShownAreBehind
<1>6. ApprovalsFindTheirRecord'
  <2>1. CASE mistaken' = mistaken
    BY <1>1, <2>1 DEF ApprovalsFindTheirRecord
  <2>2. CASE mistaken' # mistaken
    <3>1. /\ BeginChange(s) /\ cli # asked[s].shown
          /\ mistaken' = mistaken \cup {[shown |-> asked[s].shown, on |-> cli]}
      BY <2>2 DEF BeginInstall, BeginChange
    <3>2. /\ cli # None /\ cli.rev = asked[s].shown.rev /\ asked[s].kind # "install"
      BY <3>1 DEF BeginChange, AtRevision, Execute
    <3>3. asked[s].shown \in Showed /\ asked[s].shown \in CliRecords /\ cli \in CliRecords
      BY <1>1, <3>2 DEF Showed, CliTyped
    <3>4. ~collided => cli.since # asked[s].shown.since
      BY <3>1, <3>2, <3>3 DEF ShownAreBehind, CliRecords
    <3>5. QED
      BY <1>1, <3>1, <3>4 DEF ApprovalsFindTheirRecord
  <2>3. QED
    BY <2>1, <2>2
<1>7. QED
  BY <1>3, <1>5, <1>6

\* The registry is read, or the change fails.
LEMMA ReadKeeps ==
  ASSUME CliInv, NEW s \in Sessions, ReadRegistry(s) \/ ChangeFails(s)
  PROVE  CliInv'
<1> USE DEF CliInv
<1>1. UNCHANGED <<cli, asked, writes, collided, mistaken>> /\ changing[s] # None
  BY DEF ReadRegistry, ChangeFails
<1>2. CliTyped'
  <2>1. /\ \A t \in Sessions \ {s} : changing'[t] = changing[t]
        /\ changing' = [t \in Sessions |-> changing'[t]]
    BY DEF ReadRegistry, ChangeFails, CliTyped
  <2>2. \/ changing'[s] = None
        \/ /\ changing'[s] = [changing[s] EXCEPT !.read = TRUE, !.found = cli]
           /\ (changing[s].kind = "install") = (cli = None)
    BY DEF ReadRegistry, ChangeFails, CliTyped
  <2>3. CASE changing'[s] = None
    BY <1>1, <2>1, <2>3 DEF CliTyped
  <2>4. CASE /\ changing'[s] = [changing[s] EXCEPT !.read = TRUE, !.found = cli]
             /\ (changing[s].kind = "install") = (cli = None)
    <3>1. changing'[s] \in CliChanges /\ changing'[s].kind = changing[s].kind
      BY <1>1, <2>4 DEF CliTyped, CliChanges
    <3>2. changing'[s].kind = "replace" =>
            changing'[s].found # None /\ changing'[s].found \in CliRecords
      BY <1>1, <2>4, <3>1 DEF CliTyped, CliChanges
    <3>3. QED
      BY <1>1, <2>1, <3>1, <3>2 DEF CliTyped
  <2>5. QED
    BY <2>2, <2>3, <2>4
<1>3. Showed' = Showed
  BY <1>1 DEF Showed
<1>4. \A t \in Sessions :
        changing'[t] # None /\ changing'[t].read /\ changing'[t].kind = "replace" =>
          changing'[t].found.since < writes
  <2>1. \A t \in Sessions \ {s} : changing'[t] = changing[t]
    BY DEF ReadRegistry, ChangeFails, CliTyped
  <2>2. \/ changing'[s] = None
        \/ changing'[s].kind = "replace" => changing'[s].found.since < writes
    <3>1. CASE ReadRegistry(s)
      <4>1. \/ changing'[s] = None
            \/ /\ changing'[s] = [changing[s] EXCEPT !.read = TRUE, !.found = cli]
               /\ (changing[s].kind = "install") = (cli = None)
        BY <3>1 DEF ReadRegistry, CliTyped
      <4>2. CASE changing'[s] = None
        BY <4>2
      <4>3. CASE /\ changing'[s] = [changing[s] EXCEPT !.read = TRUE, !.found = cli]
                 /\ (changing[s].kind = "install") = (cli = None)
        <5>1. changing'[s].found.since = cli.since /\ changing'[s].kind = changing[s].kind
          BY <1>1, <4>3 DEF CliTyped, CliChanges
        <5>2. QED
          BY <1>1, <4>3, <5>1 DEF RegisteredBefore
      <4>4. QED
        BY <4>1, <4>2, <4>3
    <3>2. CASE ChangeFails(s)
      BY <3>2 DEF ChangeFails, CliTyped
    <3>3. QED
      BY <3>1, <3>2
  <2>3. QED
    BY <2>1, <2>2 DEF RegisteredBefore
<1>5. QED
  BY <1>1, <1>2, <1>3, <1>4 DEF RegisteredBefore, ShownAreBehind, ApprovalsFindTheirRecord

\* The registry is written.
LEMMA WriteKeeps ==
  ASSUME CliInv, NEW s \in Sessions, WriteRegistry(s)
  PROVE  CliInv'
<1> USE DEF CliInv
<1> DEFINE c == changing[s]
<1>1. /\ c # None /\ c.read /\ cli' = Written(c) /\ writes' = writes + 1
      /\ collided' = (collided \/ cli # c.found)
      /\ changing' = [changing EXCEPT ![s] = None]
      /\ UNCHANGED <<asked, mistaken>>
  BY DEF WriteRegistry
<1>2. /\ writes \in Nat /\ c.kind \in {"install", "replace", "remove"}
      /\ c.kind = "replace" =>
           c.found # None /\ c.found \in CliRecords /\ c.found.since < writes
  BY <1>1 DEF CliTyped, CliChanges, RegisteredBefore
<1> HIDE DEF c
<1>3. \/ cli' = [rev |-> 1, since |-> writes, made |-> writes]
      \/ /\ c.found # None /\ c.found \in CliRecords /\ c.found.since < writes
         /\ cli' = [rev |-> c.found.rev + 1, since |-> c.found.since, made |-> writes]
      \/ cli' = None
  BY <1>1, <1>2 DEF Written, NextRevision
<1>4. CliTyped'
  <2>1. cli' = None \/ cli' \in CliRecords
    BY <1>2, <1>3 DEF CliRecords
  <2>2. /\ changing'[s] = None /\ \A t \in Sessions \ {s} : changing'[t] = changing[t]
        /\ changing' = [t \in Sessions |-> changing'[t]]
    BY <1>1 DEF CliTyped
  <2>3. QED
    BY <1>1, <1>2, <2>1, <2>2 DEF CliTyped
<1>5. Showed' = Showed /\ Showed \subseteq CliRecords
  BY <1>1 DEF Showed, CliTyped
<1>6. RegisteredBefore'
  <2>1. \A r \in Showed : r.since < writes + 1
    BY <1>2, <1>5 DEF RegisteredBefore, CliRecords
  <2>2. \A t \in Sessions \ {s} : changing'[t] = changing[t]
    BY <1>1 DEF CliTyped
  <2>3. changing'[s] = None
    BY <1>1 DEF CliTyped
  <2>4. \A t \in Sessions :
          changing'[t] # None /\ changing'[t].read /\ changing'[t].kind = "replace" =>
            changing'[t].found.since < writes + 1
    BY <1>2, <2>2, <2>3 DEF RegisteredBefore, CliTyped, CliRecords
  <2>5. cli' # None => cli'.since < writes + 1
    BY <1>2, <1>3 DEF CliRecords
  <2>6. QED
    BY <1>1, <1>5, <2>1, <2>4, <2>5 DEF RegisteredBefore
<1>7. ~collided' => ShownAreBehind'
  <2>1. SUFFICES ASSUME ~collided', NEW r \in Showed, cli' # None, cli'.since = r.since
                 PROVE  r.rev < cli'.rev
    BY <1>5 DEF ShownAreBehind
  <2>2. ~collided /\ cli = c.found
    BY <1>1, <2>1
  <2>3. r \in CliRecords /\ r.since < writes
    BY <1>5 DEF RegisteredBefore
  <2>4. /\ c.found # None /\ c.found \in CliRecords
        /\ cli' = [rev |-> c.found.rev + 1, since |-> c.found.since, made |-> writes]
    BY <1>2, <1>3, <2>1, <2>3 DEF CliRecords
  <2>5. cli \in CliRecords /\ cli.since = r.since /\ cli'.rev = cli.rev + 1
    BY <2>1, <2>2, <2>4
  <2>6. cli # None
    BY <2>2, <2>4
  <2>7. cli = r \/ r.rev < cli.rev
    BY <2>2, <2>5, <2>6 DEF ShownAreBehind
  <2>8. QED
    BY <2>3, <2>5, <2>7 DEF CliRecords
<1>8. ApprovalsFindTheirRecord'
  BY <1>1 DEF ApprovalsFindTheirRecord
<1>9. QED
  BY <1>4, <1>6, <1>7, <1>8

\* Every step on a program's record keeps the invariant.
LEMMA CliStepsKeep ==
  ASSUME CliInv, [CliNext]_cliVars
  PROVE  CliInv'
<1>1. ASSUME NEW s \in Sessions, Ask(s) \/ Drop(s)
      PROVE  CliInv'
  BY <1>1, AskedKeeps
<1>2. ASSUME NEW s \in Sessions, BeginInstall(s) \/ BeginChange(s)
      PROVE  CliInv'
  BY <1>2, BeginKeeps
<1>3. ASSUME NEW s \in Sessions, ReadRegistry(s) \/ ChangeFails(s)
      PROVE  CliInv'
  BY <1>3, ReadKeeps
<1>4. ASSUME NEW s \in Sessions, WriteRegistry(s)
      PROVE  CliInv'
  BY <1>4, WriteKeeps
<1>5. CASE UNCHANGED cliVars
  BY <1>5
  DEF cliVars, CliInv, CliTyped, RegisteredBefore, ShownAreBehind, Showed,
      ApprovalsFindTheirRecord
<1>6. QED
  BY <1>1, <1>2, <1>3, <1>4, <1>5 DEF CliNext

\* Whatever processes refresh, repair, remove and register, and in whatever order: an approved
\* change begins on the record that was shown, unless the program was registered again since,
\* or two processes changed the file at the same instant.
THEOREM ApprovalsAreFound == CliSpec => []ApprovalsFindTheirRecord
<1>1. CliInit => CliInv
  <2>1. SUFFICES ASSUME CliInit
                 PROVE  CliInv
    OBVIOUS
  <2>2. CliTyped /\ Showed = {}
    BY <2>1 DEF CliInit, CliTyped, Showed
  <2>3. RegisteredBefore
    BY <2>1, <2>2 DEF CliInit, RegisteredBefore
  <2>4. QED
    BY <2>1, <2>2, <2>3 DEF CliInit, CliInv, ShownAreBehind, ApprovalsFindTheirRecord
<1>2. CliInv /\ [CliNext]_cliVars => CliInv'
  BY CliStepsKeep
<1>3. CliInv => ApprovalsFindTheirRecord
  BY DEF CliInv
<1>4. QED
  BY <1>1, <1>2, <1>3, PTL DEF CliSpec

-------------------------------------------------------------------------------
\* SkillStore.

Offers == [kind : {"install", "uninstall", "toggle", "update"}, hash : Contents, rev : Nat]

KeeperRecords ==
  [pc : {"idle", "checking", "placed", "aside", "swapped", "held"},
   hash : Contents \cup {None}, held : Contents \cup {None, Ruin}, base : SkillRecords \cup {None}]

\* What a process has to know to go on
Knows(k) ==
  /\ k.pc \in {"checking", "aside", "swapped"} => k.base # None
  /\ k.pc \in {"placed", "aside", "swapped"} => k.hash # None

SkillTyped ==
  /\ skill \in SkillRecords \cup {None}
  /\ package \in Contents \cup {None, Ruin}
  /\ candidates \in [Contents -> Bases \cup {None}]
  /\ keeper \in [Keepers -> KeeperRecords]
  /\ \A p \in Keepers : Knows(keeper[p])
  /\ offer \in [Keepers -> Offers \cup {None}]
  /\ reader = [pc |-> reader.pc, listed |-> reader.listed, got |-> reader.got, again |-> reader.again]

\* What an operation has done and can take back
Halfway(k, record, content) ==
  /\ k.pc = "placed" => record = None /\ content = k.hash /\ k.held = None
  /\ k.pc \in {"aside", "swapped"} => record # None /\ k.held = record.hash
  /\ k.pc \in {"aside", "held"} => content = None
  /\ k.pc = "swapped" => content = k.hash
  /\ k.pc = "held" => record # None /\ Explained(record, k.held)

Undisturbed == flaws \cap {"died", "crossed"} = {}

\* One operation at a time is halfway, as long as no process dies in one and no two cross.
OneAtATime ==
  Undisturbed =>
    /\ \A p, q \in Keepers : Busy(p) /\ Busy(q) => p = q
    /\ \A p \in Keepers : Busy(p) => Halfway(keeper[p], skill, package)
    /\ (\A p \in Keepers : ~Busy(p)) => Explained(skill, package)

\* The revision of the record counts up; only a new installation starts again.
ListedIsKnown ==
  /\ reader.pc = "listed" =>
       /\ reader.listed \in Bases
       /\ \/ reader.again
          \/ skill = None
          \/ skill.rev > reader.listed.rev
          \/ Base(skill) = reader.listed
  /\ LoadsWhatIsListed

SkillInv == SkillTyped /\ OneAtATime /\ UpdatesWhatWasCompared /\ ListedIsKnown

\* The revision of the record, if there is one, goes on; whoever reads a new installation is told.
SkillGoesOn ==
  \/ skill' = skill /\ reader' = reader
  \/ skill' = None /\ reader' = reader
  \/ skill # None /\ skill' # None /\ skill'.rev = skill.rev + 1 /\ reader' = reader
  \/ skill = None /\ reader' = [reader EXCEPT !.again = reader # NoRead]

\* A process that keeps what it knows still has every Skill it listed.
LEMMA GoesOnKeeps ==
  ASSUME SkillTyped, ListedIsKnown, SkillGoesOn, skill' \in SkillRecords \cup {None}
  PROVE  /\ ListedIsKnown'
         /\ reader' = [pc |-> reader'.pc, listed |-> reader'.listed, got |-> reader'.got,
                       again |-> reader'.again]
<1>1. skill \in SkillRecords \cup {None}
  BY DEF SkillTyped
<1>2. CASE reader' = reader
  <2>1. reader.pc = "listed" => ListedIsKnown'
    <3>1. /\ skill # None => skill.rev \in Nat
          /\ reader.pc = "listed" => reader.listed.rev \in Nat
      BY <1>1 DEF ListedIsKnown, SkillRecords, Bases
    <3>2. CASE skill' = skill \/ skill' = None
      BY <1>2, <3>2 DEF ListedIsKnown, LoadsWhatIsListed, Base
    <3>3. CASE skill # None /\ skill' # None /\ skill'.rev = skill.rev + 1
      BY <1>2, <3>1, <3>3 DEF ListedIsKnown, LoadsWhatIsListed, Base
    <3>4. CASE skill = None /\ reader' = [reader EXCEPT !.again = reader # NoRead]
      <4>1. reader # NoRead \/ reader.pc # "listed"
        BY DEF NoRead
      <4>2. reader.pc = "listed" => reader'.again
        BY <3>4, <4>1 DEF SkillTyped
      <4> QED
        BY <1>2, <4>2 DEF ListedIsKnown, LoadsWhatIsListed
    <3> QED
      BY <1>2, <3>2, <3>3, <3>4 DEF SkillGoesOn
  <2>2. reader.pc # "listed" => ListedIsKnown'
    BY <1>2 DEF ListedIsKnown, LoadsWhatIsListed
  <2> QED
    BY <1>2, <2>1, <2>2 DEF SkillTyped
<1>3. CASE reader' = [reader EXCEPT !.again = reader # NoRead]
  <2>1. /\ reader'.pc = reader.pc /\ reader'.listed = reader.listed /\ reader'.got = reader.got
        /\ reader' = [pc |-> reader'.pc, listed |-> reader'.listed, got |-> reader'.got,
                      again |-> reader'.again]
    BY <1>3 DEF SkillTyped
  <2>2. reader.pc \in {"listed", "loaded"} => reader'.again
    <3>1. reader.pc \in {"listed", "loaded"} => reader # NoRead
      BY DEF NoRead
    <3>2. reader'.again = (reader # NoRead)
      BY <1>3 DEF SkillTyped
    <3> QED
      BY <3>1, <3>2
  <2> QED
    BY <2>1, <2>2 DEF ListedIsKnown, LoadsWhatIsListed
<1> QED
  BY <1>2, <1>3 DEF SkillGoesOn

\* A step of an operation: it keeps what the operations of the product keep unless another one
\* is halfway, which is noted.
LEMMA OperationKeeps ==
  ASSUME SkillInv, NEW p \in Keepers, NEW next \in KeeperRecords, NEW causes,
         StepWith(p, next, causes),
         next.pc # "checking", Knows(next),
         next.pc = "aside" => candidates[next.hash] = Base(next.base),
         skill' \in SkillRecords \cup {None}, package' \in Contents \cup {None, Ruin}, SkillGoesOn,
         Undisturbed /\ (\A q \in Keepers \ {p} : ~Busy(q)) =>
           IF next.pc = "idle" THEN Explained(skill, package)' ELSE Halfway(next, skill, package)'
  PROVE  SkillInv'
<1>1. /\ keeper' = [keeper EXCEPT ![p] = next] /\ offer' = [offer EXCEPT ![p] = None]
      /\ UNCHANGED candidates
      /\ keeper \in [Keepers -> KeeperRecords] /\ offer \in [Keepers -> Offers \cup {None}]
  BY DEF StepWith, SkillInv, SkillTyped
<1>2. keeper'[p] = next /\ \A q \in Keepers \ {p} : keeper'[q] = keeper[q]
  BY <1>1
<1>3. ListedIsKnown'
  BY GoesOnKeeps DEF SkillInv
<1>4. SkillTyped'
  <2>1. keeper' \in [Keepers -> KeeperRecords] /\ offer' \in [Keepers -> Offers \cup {None}]
    BY <1>1
  <2>2. reader' = [pc |-> reader'.pc, listed |-> reader'.listed, got |-> reader'.got,
                   again |-> reader'.again]
    BY GoesOnKeeps DEF SkillInv
  <2>3. candidates' \in [Contents -> Bases \cup {None}]
    BY <1>1 DEF SkillInv, SkillTyped
  <2>4. \A q \in Keepers : Knows(keeper'[q])
    BY <1>2 DEF SkillInv, SkillTyped
  <2> QED
    BY <2>1, <2>2, <2>3, <2>4 DEF SkillTyped
<1>5. UpdatesWhatWasCompared'
  BY <1>1, <1>2 DEF SkillInv, UpdatesWhatWasCompared, Base
<1>6. OneAtATime'
  <2> SUFFICES ASSUME Undisturbed' PROVE OneAtATime'
    BY DEF OneAtATime
  <2>1. Undisturbed /\ \A q \in Keepers \ {p} : ~Busy(q)
    BY DEF StepWith, Crosses, Undisturbed
  <2>2. \A q \in Keepers \ {p} : ~Busy(q)'
    BY <1>2, <2>1 DEF Busy
  <2>3. Busy(p)' <=> next.pc # "idle"
    BY <1>2 DEF Busy
  <2>4. IF next.pc = "idle" THEN Explained(skill, package)' ELSE Halfway(next, skill, package)'
    BY <2>1
  <2>5. \A q, r \in Keepers : Busy(q)' /\ Busy(r)' => q = r
    BY <2>2
  <2>6. ASSUME NEW q \in Keepers, Busy(q)' PROVE Halfway(keeper[q], skill, package)'
    <3>1. q = p /\ next.pc # "idle"
      BY <2>2, <2>3, <2>6
    <3> QED
      BY <1>2, <2>4, <3>1 DEF Halfway, Explained
  <2>7. (\A q \in Keepers : ~Busy(q)') => Explained(skill, package)'
    BY <2>3, <2>4
  <2> QED
    BY <2>5, <2>6, <2>7 DEF OneAtATime
<1> QED
  BY <1>3, <1>4, <1>5, <1>6 DEF SkillInv

\* Offers, checks and reads leave the record and its package alone.
LEMMA QuietKeeps ==
  ASSUME SkillInv, UNCHANGED <<skill, package, backups>>,
         keeper' \in [Keepers -> KeeperRecords],
         \A p \in Keepers :
           \/ keeper'[p] = keeper[p]
           \/ keeper'[p].pc = "checking" /\ ~Busy(p) /\ keeper'[p].base # None
           \/ keeper'[p] = Free /\ (~Busy(p) \/ "died" \in flaws'),
         flaws' = flaws \/ flaws' = flaws \cup {"died"},
         candidates' \in [Contents -> Bases \cup {None}],
         \A h \in Contents : candidates[h] # None => candidates'[h] = candidates[h],
         offer' \in [Keepers -> Offers \cup {None}],
         reader' = [pc |-> reader'.pc, listed |-> reader'.listed, got |-> reader'.got,
                    again |-> reader'.again],
         ListedIsKnown'
  PROVE  SkillInv'
<1>1. SkillTyped'
  BY DEF SkillInv, SkillTyped, Free, Knows
<1>2. UpdatesWhatWasCompared'
  <2> SUFFICES ASSUME NEW p \in Keepers, keeper'[p].pc = "aside"
               PROVE  candidates'[keeper'[p].hash] = Base(keeper'[p].base)
    BY DEF UpdatesWhatWasCompared, Base
  <2>1. keeper'[p] = keeper[p]
    BY DEF Free
  <2>2. /\ candidates[keeper[p].hash] = Base(keeper[p].base)
        /\ keeper[p].hash \in Contents
    BY <2>1 DEF SkillInv, UpdatesWhatWasCompared, SkillTyped, KeeperRecords, Knows
  <2>3. candidates[keeper[p].hash] # None
    <3>1. keeper[p].base \in SkillRecords
      BY <2>1 DEF SkillInv, SkillTyped, KeeperRecords, Knows
    <3>2. Base(keeper[p].base) \in Bases
      BY <3>1 DEF Base, Bases, SkillRecords
    <3> QED
      BY <2>2, <3>2, SkillAssumption
  <2> QED
    BY <2>1, <2>2, <2>3
<1>3. OneAtATime'
  <2>1. \A p \in Keepers : Busy(p)' => keeper'[p] = keeper[p] /\ Busy(p)
    BY DEF Busy, Free
  <2> SUFFICES ASSUME Undisturbed' PROVE OneAtATime'
    BY DEF OneAtATime
  <2>2. Undisturbed /\ flaws' = flaws
    BY DEF Undisturbed
  <2>3. \A p \in Keepers : Busy(p) => Busy(p)'
    BY DEF Busy, Free, Undisturbed
  <2>4. Explained(skill, package) => Explained(skill, package)'
    BY <2>2 DEF Explained
  <2>5. ASSUME NEW p \in Keepers, Busy(p)' PROVE Halfway(keeper[p], skill, package)'
    <3>1. Halfway(keeper[p], skill, package) /\ keeper'[p] = keeper[p]
      BY <2>1, <2>2, <2>5 DEF SkillInv, OneAtATime
    <3>2. Explained(skill, keeper[p].held) => Explained(skill, keeper[p].held)'
      BY <2>2, <3>1 DEF Explained
    <3> QED
      BY <3>1, <3>2 DEF Halfway
  <2>6. /\ \A p, q \in Keepers : Busy(p)' /\ Busy(q)' => p = q
        /\ (\A p \in Keepers : ~Busy(p)') => Explained(skill, package)'
    BY <2>1, <2>2, <2>3, <2>4 DEF SkillInv, OneAtATime
  <2> QED
    BY <2>5, <2>6 DEF OneAtATime
<1> QED
  BY <1>1, <1>2, <1>3 DEF SkillInv

\* The steps that change the record or the package
LEMMA ChangesKeep ==
  ASSUME SkillInv, NEW p \in Keepers,
         \/ Toggle(p) \/ Place(p) \/ Add(p) \/ SetAside(p) \/ SwapIn(p) \/ SwapFails(p)
         \/ Replace(p) \/ Hold(p) \/ Forget(p) \/ Rollback(p) \/ RollbackFails(p)
  PROVE  SkillInv'
<1>1. /\ skill \in SkillRecords \cup {None} /\ package \in Contents \cup {None, Ruin}
      /\ keeper \in [Keepers -> KeeperRecords] /\ keeper[p] \in KeeperRecords /\ Knows(keeper[p])
      /\ offer[p] \in Offers \cup {None}
  BY DEF SkillInv, SkillTyped
<1>2. None \notin Contents /\ None \notin SkillRecords /\ Ruin # None /\ Ruin \notin Contents
  BY SkillAssumption
<1>3. Free \in KeeperRecords /\ Knows(Free) /\ Free.pc = "idle"
  BY DEF Free, KeeperRecords, Knows
<1>4. ASSUME Undisturbed, \A q \in Keepers \ {p} : ~Busy(q)
      PROVE  IF Busy(p) THEN Halfway(keeper[p], skill, package) ELSE Explained(skill, package)
  BY <1>4 DEF SkillInv, OneAtATime
<1>0. ASSUME NEW next, Step(p, next)
      PROVE  StepWith(p, next, {}) /\ backups' = backups /\ flaws \subseteq flaws'
  BY <1>0 DEF Step, StepWith
<1>5. CASE Toggle(p)
  <2>1. PICK enabled : enabled = ~skill.enabled
    OBVIOUS
  <2>2. PICK next : next = [skill EXCEPT !.enabled = enabled, !.rev = skill.rev + 1]
    OBVIOUS
  <2>3. /\ skill' = next /\ UNCHANGED <<package, reader>> /\ Step(p, Free) /\ ~Busy(p)
        /\ skill \in SkillRecords
    BY <1>1, <1>3, <1>5, <2>1, <2>2 DEF Toggle, Agreed, Unchanged, Busy, Free
  <2>4. enabled \in BOOLEAN
    <3>1. skill.enabled = TRUE \/ skill.enabled = FALSE
      BY <2>3 DEF SkillRecords
    <3>2. ASSUME skill.enabled = TRUE PROVE enabled = FALSE
      BY <2>1, <3>2
    <3>3. ASSUME skill.enabled = FALSE PROVE enabled = TRUE
      BY <2>1, <3>3
    <3> QED
      BY <3>1, <3>2, <3>3
  <2>5. next \in SkillRecords /\ next.rev = skill.rev + 1 /\ next.hash = skill.hash
    <3>1. next = [hash |-> skill.hash, rev |-> skill.rev + 1, enabled |-> enabled]
      BY <2>2, <2>3 DEF SkillRecords
    <3> QED
      BY <2>3, <2>4, <3>1 DEF SkillRecords
  <2>6. SkillGoesOn
    BY <1>2, <2>3, <2>5 DEF SkillGoesOn
  <2>7. Undisturbed /\ (\A q \in Keepers \ {p} : ~Busy(q)) => Explained(skill, package)'
    <3>1. backups' = backups /\ flaws \subseteq flaws'
      BY <1>0, <2>3
    <3>2. skill' # None /\ skill # None /\ skill'.hash = skill.hash /\ package' = package
      BY <1>2, <2>3, <2>5
    <3>3. Explained(skill, package) => Explained(skill, package)'
      BY <3>1, <3>2 DEF Explained
    <3> QED
      BY <1>4, <2>3, <3>3
  <2> QED
    BY <1>1, <1>3, <2>3, <2>5, <2>6, <2>7, <1>0, OperationKeeps
<1>6. CASE Place(p)
  <2>1. PICK next : next = [Free EXCEPT !.pc = "placed", !.hash = offer[p].hash]
    OBVIOUS
  <2>2. /\ skill = None /\ package' = offer[p].hash /\ UNCHANGED <<skill, reader>>
        /\ Step(p, next) /\ offer[p].hash \in Contents
    BY <1>1, <1>6, <2>1 DEF Place, Agreed, Offers
  <2>3. /\ next \in KeeperRecords /\ next.pc = "placed" /\ next.hash = package' /\ next.held = None
        /\ Knows(next)
    BY <1>2, <2>1, <2>2 DEF Free, KeeperRecords, Knows
  <2>4. SkillGoesOn /\ Halfway(next, skill, package)'
    BY <2>2, <2>3 DEF SkillGoesOn, Halfway
  <2> QED
    BY <1>1, <2>2, <2>3, <2>4, <1>0, OperationKeeps
<1>7. CASE Add(p)
  <2>1. PICK record : record = [hash |-> keeper[p].hash, rev |-> 1, enabled |-> TRUE]
    OBVIOUS
  <2>2. /\ keeper[p].pc = "placed" /\ skill = None /\ skill' = record /\ UNCHANGED package
        /\ reader' = [reader EXCEPT !.again = reader # NoRead] /\ Step(p, Free) /\ Busy(p)
    BY <1>7, <2>1 DEF Add, Busy
  <2>3. record \in SkillRecords /\ record.hash = keeper[p].hash
    BY <1>1, <2>1, <2>2 DEF SkillRecords, KeeperRecords, Knows
  <2>4. SkillGoesOn
    BY <2>2 DEF SkillGoesOn
  <2>5. Undisturbed /\ (\A q \in Keepers \ {p} : ~Busy(q)) => Explained(skill, package)'
    BY <1>2, <1>4, <2>2, <2>3 DEF Explained, Halfway
  <2> QED
    BY <1>1, <1>3, <2>2, <2>3, <2>4, <2>5, <1>0, OperationKeeps
<1>8. CASE SetAside(p)
  <2>1. PICK next : next = [Free EXCEPT !.pc = "aside", !.hash = offer[p].hash, !.held = package,
                                       !.base = skill]
    OBVIOUS
  <2>2. /\ skill # None /\ package = skill.hash /\ candidates[offer[p].hash] = Base(skill)
        /\ package' = None /\ UNCHANGED <<skill, reader>> /\ Step(p, next)
        /\ offer[p].hash \in Contents
    BY <1>1, <1>8, <2>1 DEF SetAside, Agreed, SameBase, Validated, Offers
  <2>3. /\ next \in KeeperRecords /\ next.pc = "aside" /\ next.hash = offer[p].hash
        /\ next.held = package /\ next.base = skill /\ Knows(next)
    BY <1>1, <1>2, <2>1, <2>2 DEF Free, KeeperRecords, Knows
  <2>4. SkillGoesOn /\ Halfway(next, skill, package)'
    BY <2>2, <2>3 DEF SkillGoesOn, Halfway
  <2> QED
    BY <1>1, <2>2, <2>3, <2>4, <1>0, OperationKeeps
<1>9. CASE SwapIn(p)
  <2>1. PICK next : next = [keeper[p] EXCEPT !.pc = "swapped"]
    OBVIOUS
  <2>2. /\ keeper[p].pc = "aside" /\ package' = keeper[p].hash /\ UNCHANGED <<skill, reader>>
        /\ Step(p, next) /\ Busy(p)
    BY <1>9, <2>1 DEF SwapIn, Busy
  <2>3. /\ next \in KeeperRecords /\ next.pc = "swapped" /\ next.hash = keeper[p].hash
        /\ next.held = keeper[p].held /\ next.base = keeper[p].base /\ Knows(next)
    BY <1>1, <2>1, <2>2 DEF KeeperRecords, Knows
  <2>4. SkillGoesOn
    BY <2>2 DEF SkillGoesOn
  <2>5. Undisturbed /\ (\A q \in Keepers \ {p} : ~Busy(q)) => Halfway(next, skill, package)'
    BY <1>4, <2>2, <2>3 DEF Halfway
  <2>6. package' \in Contents \cup {None, Ruin}
    BY <1>1, <2>2 DEF KeeperRecords
  <2> QED
    BY <1>1, <2>2, <2>3, <2>4, <2>5, <2>6, <1>0, OperationKeeps
<1>10. CASE Replace(p)
  <2>1. PICK record : record = [hash |-> keeper[p].hash, rev |-> skill.rev + 1,
                                enabled |-> keeper[p].base.enabled]
    OBVIOUS
  <2>2. /\ keeper[p].pc = "swapped" /\ skill # None /\ skill' = record /\ UNCHANGED <<package, reader>>
        /\ Step(p, Free) /\ Busy(p)
    BY <1>10, <2>1 DEF Replace, Busy
  <2>3. /\ record \in SkillRecords /\ record.hash = keeper[p].hash /\ record.rev = skill.rev + 1
    BY <1>1, <2>1, <2>2 DEF SkillRecords, KeeperRecords, Knows
  <2>4. SkillGoesOn
    BY <1>2, <2>2, <2>3 DEF SkillGoesOn
  <2>5. Undisturbed /\ (\A q \in Keepers \ {p} : ~Busy(q)) => Explained(skill, package)'
    BY <1>2, <1>4, <2>2, <2>3 DEF Explained, Halfway
  <2> QED
    BY <1>1, <1>3, <2>2, <2>3, <2>4, <2>5, <1>0, OperationKeeps
<1>11. CASE Hold(p)
  <2>1. PICK next : next = [Free EXCEPT !.pc = "held", !.held = package]
    OBVIOUS
  <2>2. /\ skill # None /\ package' = None /\ UNCHANGED <<skill, reader>> /\ Step(p, next) /\ ~Busy(p)
    BY <1>3, <1>11, <2>1 DEF Hold, Agreed, Unchanged, Busy
  <2>3. next \in KeeperRecords /\ next.pc = "held" /\ next.held = package /\ Knows(next)
    BY <1>1, <2>1 DEF Free, KeeperRecords, Knows
  <2>4. SkillGoesOn
    BY <2>2 DEF SkillGoesOn
  <2>5. Undisturbed /\ (\A q \in Keepers \ {p} : ~Busy(q)) => Halfway(next, skill, package)'
    <3>1. backups' = backups /\ flaws \subseteq flaws'
      BY <1>0, <2>2
    <3>2. Explained(skill, package) => Explained(skill, next.held)'
      BY <2>2, <2>3, <3>1 DEF Explained
    <3>3. Explained(skill, package) => Halfway(next, skill, package)'
      BY <2>2, <2>3, <3>2 DEF Halfway
    <3> QED
      BY <1>4, <2>2, <3>3
  <2> QED
    BY <1>1, <2>2, <2>3, <2>4, <2>5, <1>0, OperationKeeps
<1>12. CASE Forget(p)
  <2>1. /\ keeper[p].pc = "held" /\ skill' = None /\ UNCHANGED <<package, reader>> /\ Step(p, Free)
        /\ Busy(p)
    BY <1>12 DEF Forget, Busy
  <2>2. SkillGoesOn
    BY <2>1 DEF SkillGoesOn
  <2>3. Undisturbed /\ (\A q \in Keepers \ {p} : ~Busy(q)) => Explained(skill, package)'
    BY <1>4, <2>1 DEF Explained, Halfway
  <2> QED
    BY <1>1, <1>3, <2>1, <2>2, <2>3, <1>0, OperationKeeps
<1>13. CASE Rollback(p)
  <2>1. /\ keeper[p].pc \in {"placed", "swapped", "held"} /\ package' = PutBack(p)
        /\ UNCHANGED <<skill, reader>> /\ Step(p, Free) /\ Busy(p)
    BY <1>13 DEF Rollback, Busy
  <2>2. SkillGoesOn /\ package' \in Contents \cup {None, Ruin}
    BY <1>1, <2>1 DEF SkillGoesOn, KeeperRecords, PutBack
  <2>3. ASSUME Undisturbed, \A q \in Keepers \ {p} : ~Busy(q) PROVE Explained(skill, package)'
    <3>1. Halfway(keeper[p], skill, package) /\ flaws \subseteq flaws' /\ backups' = backups
      BY <1>0, <1>4, <2>1, <2>3
    <3>2. CASE keeper[p].pc \in {"placed", "swapped"}
      BY <2>1, <3>1, <3>2 DEF Halfway, Explained, PutBack
    <3>3. CASE keeper[p].pc = "held"
      <4>1. package' = keeper[p].held /\ Explained(skill, keeper[p].held)
        BY <2>1, <3>1, <3>3 DEF Halfway, PutBack
      <4> QED
        BY <2>1, <3>1, <4>1 DEF Explained
    <3> QED
      BY <2>1, <3>2, <3>3
  <2> QED
    BY <1>1, <1>3, <2>1, <2>2, <2>3, <1>0, OperationKeeps
<1>14. CASE SwapFails(p)
  <2>1. /\ keeper[p].pc = "aside" /\ StepWith(p, Free, {"lost"}) /\ Busy(p)
        /\ UNCHANGED <<skill, package, backups, reader>> /\ "lost" \in flaws'
    BY <1>14 DEF SwapFails, EndsBadly, StepWith, Busy
  <2>2. SkillGoesOn
    BY <2>1 DEF SkillGoesOn
  <2>3. Undisturbed /\ (\A q \in Keepers \ {p} : ~Busy(q)) => Explained(skill, package)'
    BY <1>4, <2>1 DEF Explained, Halfway
  <2> QED
    BY <1>1, <1>3, <2>1, <2>2, <2>3, OperationKeeps
<1>15. CASE RollbackFails(p)
  <2>1. /\ keeper[p].pc \in {"placed", "swapped", "held"} /\ package' \in Leftovers(p)
        /\ keeper[p].pc = "held" => keeper[p].held # None
        /\ backups' = backups \cup ({keeper[p].held} \ {None})
        /\ StepWith(p, Free, {"stuck"}) /\ Busy(p) /\ flaws \subseteq flaws' /\ "stuck" \in flaws'
        /\ UNCHANGED <<skill, reader>>
    BY <1>15 DEF RollbackFails, EndsBadly, StepWith, Busy
  <2>2. SkillGoesOn /\ package' \in Contents \cup {None, Ruin}
    BY <1>1, <2>1 DEF SkillGoesOn, Leftovers
  <2>3. ASSUME Undisturbed, \A q \in Keepers \ {p} : ~Busy(q) PROVE Explained(skill, package)'
    <3>1. Halfway(keeper[p], skill, package)
      BY <1>4, <2>1, <2>3
    <3>2. CASE keeper[p].pc = "placed"
      <4>1. skill' = None /\ package' # None
        BY <1>2, <2>1, <3>1, <3>2, <1>1 DEF Halfway, Leftovers, Knows
      <4> QED
        BY <2>1, <4>1 DEF Explained
    <3>3. CASE keeper[p].pc = "swapped"
      <4>1. skill # None /\ keeper[p].held = skill.hash
        BY <3>1, <3>3 DEF Halfway
      <4>2. skill.hash # None
        BY <1>1, <1>2, <4>1 DEF SkillRecords
      <4> QED
        BY <2>1, <4>1, <4>2 DEF Explained
    <3>4. CASE keeper[p].pc = "held"
      <4>1. /\ skill # None /\ Explained(skill, keeper[p].held) /\ keeper[p].held \in backups'
            /\ backups \subseteq backups'
        BY <2>1, <3>1, <3>4 DEF Halfway
      <4>2. skill.hash \in backups'
        BY <2>1, <3>4, <4>1 DEF Explained
      <4> QED
        BY <2>1, <4>1, <4>2 DEF Explained
    <3> QED
      BY <2>1, <3>2, <3>3, <3>4
  <2> QED
    BY <1>1, <1>3, <2>1, <2>2, <2>3, OperationKeeps
<1> QED
  BY <1>5, <1>6, <1>7, <1>8, <1>9, <1>10, <1>11, <1>12, <1>13, <1>14, <1>15

\* Offers, and the check of an update
LEMMA OffersKeep ==
  ASSUME SkillInv, NEW p \in Keepers,
         OfferInstall(p) \/ OfferChange(p) \/ BeginCheck(p) \/ Freeze(p) \/ Withdraw(p) \/ KeeperDies(p)
  PROVE  SkillInv'
<1>1. /\ UNCHANGED <<skill, package, backups, reader>>
      /\ skill \in SkillRecords \cup {None}
      /\ keeper \in [Keepers -> KeeperRecords] /\ keeper[p] \in KeeperRecords /\ Knows(keeper[p])
      /\ offer \in [Keepers -> Offers \cup {None}]
      /\ candidates \in [Contents -> Bases \cup {None}]
  BY DEF OfferInstall, OfferChange, BeginCheck, Freeze, Withdraw, KeeperDies, Offered, SkillInv,
     SkillTyped
<1>2. ListedIsKnown' /\ reader' = [pc |-> reader'.pc, listed |-> reader'.listed, got |-> reader'.got,
                                  again |-> reader'.again]
  BY <1>1 DEF SkillInv, SkillTyped, ListedIsKnown, LoadsWhatIsListed, Base
<1>3. Free \in KeeperRecords
  BY DEF Free, KeeperRecords
<1>4. CASE OfferInstall(p) \/ OfferChange(p) \/ Withdraw(p)
  <2>1. UNCHANGED <<keeper, candidates, flaws>>
    BY <1>4 DEF OfferInstall, OfferChange, Withdraw, Offered
  <2>2. PICK made \in Offers \cup {None} : offer' = [offer EXCEPT ![p] = made]
    <3>1. CASE OfferInstall(p)
      BY <3>1 DEF OfferInstall, Offered, Offers
    <3>2. CASE OfferChange(p)
      BY <1>1, <3>2 DEF OfferChange, Offered, Offers, SkillRecords
    <3>3. CASE Withdraw(p)
      BY <3>3 DEF Withdraw, Offered
    <3> QED
      BY <1>4, <3>1, <3>2, <3>3
  <2> QED
    BY <1>1, <1>2, <2>1, <2>2, QuietKeeps
<1>5. CASE BeginCheck(p)
  <2>1. PICK next : next = [Free EXCEPT !.pc = "checking", !.base = skill]
    OBVIOUS
  <2>2. /\ keeper[p] = Free /\ skill # None /\ UNCHANGED <<candidates, offer, flaws>>
        /\ keeper' = [keeper EXCEPT ![p] = next]
    BY <1>5, <2>1 DEF BeginCheck, Validated
  <2>3. next \in KeeperRecords /\ next.pc = "checking" /\ next.base # None
    BY <1>1, <2>1, <2>2 DEF Free, KeeperRecords
  <2>4. ~Busy(p)
    BY <2>2 DEF Free, Busy
  <2> QED
    BY <1>1, <1>2, <2>2, <2>3, <2>4, QuietKeeps
<1>6. CASE Freeze(p)
  <2>1. ~Busy(p) /\ keeper' = [keeper EXCEPT ![p] = Free] /\ UNCHANGED flaws
    BY <1>6 DEF Freeze, Busy, Offered
  <2>2. Base(keeper[p].base) \in Bases
    BY <1>1, <1>6 DEF Freeze, Knows, KeeperRecords, SkillRecords, Base, Bases
  <2>3. /\ candidates' \in [Contents -> Bases \cup {None}]
        /\ \A h \in Contents : candidates[h] # None => candidates'[h] = candidates[h]
    BY <1>1, <1>6, <2>2 DEF Freeze
  <2>4. PICK made \in Offers \cup {None} : offer' = [offer EXCEPT ![p] = made] \/ offer' = offer
    BY <1>1, <1>6 DEF Freeze, Offered, Offers
  <2> QED
    BY <1>1, <1>2, <1>3, <2>1, <2>3, <2>4, QuietKeeps
<1>7. CASE KeeperDies(p)
  <2>1. /\ keeper' = [keeper EXCEPT ![p] = Free] /\ UNCHANGED <<candidates, offer>>
        /\ flaws' = flaws \cup IF Busy(p) THEN {"died"} ELSE {}
    BY <1>7 DEF KeeperDies
  <2> QED
    BY <1>1, <1>2, <1>3, <2>1, QuietKeeps
<1> QED
  BY <1>4, <1>5, <1>6, <1>7

\* A Session lists the skill, loads it and is done with it.
LEMMA ReadsKeep ==
  ASSUME SkillInv, List \/ Load \/ Finish
  PROVE  SkillInv'
<1>1. /\ UNCHANGED <<skill, package, backups, candidates, keeper, offer, flaws>>
      /\ skill \in SkillRecords \cup {None}
      /\ keeper \in [Keepers -> KeeperRecords]
      /\ offer \in [Keepers -> Offers \cup {None}]
      /\ candidates \in [Contents -> Bases \cup {None}]
      /\ reader = [pc |-> reader.pc, listed |-> reader.listed, got |-> reader.got,
                   again |-> reader.again]
  BY DEF List, Load, Finish, SkillInv, SkillTyped
<1>2. ListedIsKnown' /\ reader' = [pc |-> reader'.pc, listed |-> reader'.listed, got |-> reader'.got,
                                  again |-> reader'.again]
  <2>1. CASE List
    <3>1. Base(skill) \in Bases
      BY <1>1, <2>1 DEF List, Base, Bases, SkillRecords
    <3>2. /\ reader'.pc = "listed" /\ reader'.listed = Base(skill)
          /\ reader' = [pc |-> reader'.pc, listed |-> reader'.listed, got |-> reader'.got,
                        again |-> reader'.again]
      BY <2>1 DEF List, NoRead
    <3> QED
      BY <1>1, <3>1, <3>2 DEF ListedIsKnown, LoadsWhatIsListed, Base
  <2>2. CASE Load /\ StillListed /\ Intact(skill)
    <3>1. /\ reader.pc = "listed" /\ reader' = [reader EXCEPT !.pc = "loaded", !.got = package]
          /\ skill # None /\ skill.rev = reader.listed.rev /\ package = skill.hash
      BY <2>2 DEF Load, StillListed, Intact
    <3>2. skill.rev \in Nat /\ reader.listed \in Bases
      BY <1>1, <3>1 DEF SkillRecords, SkillInv, ListedIsKnown
    <3>3. reader.again \/ skill.hash = reader.listed.hash
      BY <3>1, <3>2 DEF SkillInv, ListedIsKnown, Base, Bases
    <3>4. /\ reader'.pc = "loaded" /\ reader'.got = package /\ reader'.listed = reader.listed
          /\ reader'.again = reader.again
          /\ reader' = [pc |-> reader'.pc, listed |-> reader'.listed, got |-> reader'.got,
                        again |-> reader'.again]
      BY <1>1, <3>1
    <3> QED
      BY <3>1, <3>3, <3>4 DEF ListedIsKnown, LoadsWhatIsListed
  <2>3. CASE reader' = NoRead
    BY <2>3 DEF NoRead, ListedIsKnown, LoadsWhatIsListed
  <2> QED
    BY <2>1, <2>2, <2>3 DEF Load, Finish
<1> QED
  BY <1>1, <1>2, QuietKeeps

\* The invariant of a Skill's files and records holds in every reachable state.
LEMMA SkillInvHolds == SkillSpec => []SkillInv
<1>1. SkillInit => SkillInv
  <2> SUFFICES ASSUME SkillInit PROVE SkillInv
    OBVIOUS
  <2>1. SkillTyped
    BY DEF SkillInit, SkillTyped, Free, KeeperRecords, NoRead, Knows
  <2>2. OneAtATime
    BY DEF SkillInit, OneAtATime, Busy, Free, Explained
  <2>3. UpdatesWhatWasCompared /\ ListedIsKnown
    BY DEF SkillInit, UpdatesWhatWasCompared, ListedIsKnown, LoadsWhatIsListed, NoRead, Free
  <2> QED
    BY <2>1, <2>2, <2>3 DEF SkillInv
<1>2. SkillInv /\ [SkillNext]_skillVars => SkillInv'
  <2> SUFFICES ASSUME SkillInv, [SkillNext]_skillVars PROVE SkillInv'
    OBVIOUS
  <2>1. CASE UNCHANGED skillVars
    BY <2>1 DEF skillVars, SkillInv, SkillTyped, OneAtATime, Undisturbed, Busy, Halfway, Explained,
       UpdatesWhatWasCompared, ListedIsKnown, LoadsWhatIsListed, Base
  <2> QED
    BY <2>1, ChangesKeep, OffersKeep, ReadsKeep DEF SkillNext
<1>3. QED
  BY <1>1, <1>2, PTL DEF SkillSpec

\* However many processes manage the skill, fail and die: its directory is what the registry
\* says, or the error of the operation that failed explains it, unless a process died inside
\* an operation or two crossed; an update replaces what was compared, and a Session loads the
\* content that was listed.
THEOREM SkillsStayWhole == SkillSpec => []SkillsAreWhole
<1>1. SkillInv => SkillsAreWhole
  <2> SUFFICES ASSUME SkillInv PROVE SkillsAreWhole
    OBVIOUS
  <2>1. OnlyKnownMismatches
    BY DEF SkillInv, OneAtATime, Undisturbed, OnlyKnownMismatches
  <2> QED
    BY <2>1 DEF SkillInv, ListedIsKnown, SkillsAreWhole
<1>2. QED
  BY <1>1, SkillInvHolds, PTL

-------------------------------------------------------------------------------
\* McpServers.

McpTasks ==
  [pc : {"idle", "open", "publish", "use", "tested"},
   why : {"none", "load", "call", "test", "enable"},
   rec : Registrations \cup {None}, tool : Nat, conn : 0..MaxConnections, wanted : BOOLEAN]

RegistryTyped ==
  /\ server \in Registrations \cup {None}
  /\ installs \in Seq(Nat)
  /\ \A i \in DOMAIN installs : installs[i] <= i
  /\ server # None => server.config \in DOMAIN installs

McpTyped ==
  /\ connections \in [1..MaxConnections -> [rev : Nat, config : Nat]]
  /\ cache \in 0..MaxConnections
  /\ mcpTask \in [Tasks -> McpTasks]
  /\ \A t \in Tasks : mcpTask[t].pc # "idle" => mcpTask[t].rec # None
  /\ \A t \in Tasks : mcpTask[t].pc = "idle" => mcpTask[t] = MIdle

\* A revision and a configuration that somebody has in hand
SeenBy(t, r, c) ==
  /\ mcpTask[t].rec # None
  /\ r = mcpTask[t].rec.rev
  /\ c = mcpTask[t].rec.config \/ (mcpTask[t].why = "call" /\ c = mcpTask[t].tool)

SeenIn(k, r, c) ==
  connections[k].config # 0 /\ connections[k].rev = r /\ connections[k].config = c

SeenLoaded(r, c) == loaded # None /\ loaded.rev = r /\ loaded.config = c

SeenRegistered(r, c) == server # None /\ server.rev = r /\ server.config = c

Seen(r, c) ==
  \/ SeenRegistered(r, c)
  \/ SeenLoaded(r, c)
  \/ \E k \in 1..MaxConnections : SeenIn(k, r, c)
  \/ \E t \in Tasks : SeenBy(t, r, c)

\* A revision tells one configuration of an installation from the others, and the registered
\* one is the last.
RevisionsTell ==
  /\ \A r, c : Seen(r, c) => r \in Nat /\ c \in DOMAIN installs
  /\ \A r, c, d : Seen(r, c) /\ Seen(r, d) /\ installs[c] = installs[d] => c = d
  /\ server # None =>
       \A r, c : Seen(r, c) /\ installs[c] = installs[server.config] => r <= server.rev

\* What a task opened or found has the revision of its record.
ConnectionFits(t) ==
  Alive(mcpTask[t].conn) =>
    /\ mcpTask[t].pc \in {"publish", "use"} => connections[mcpTask[t].conn].rev = mcpTask[t].rec.rev
    /\ mcpTask[t].pc = "publish" => connections[mcpTask[t].conn].config = mcpTask[t].rec.config

\* Whoever may cache, and whoever may enable, has the record that is registered.
RecordIsCurrent(t) ==
  \/ mishap = "foreign"
  \/ ~(Opening(t) /\ mcpTask[t].wanted) /\ mcpTask[t].why # "enable"
  \/ server # None /\ mcpTask[t].rec.config = server.config

McpInv ==
  /\ RegistryTyped
  /\ McpTyped
  /\ RevisionsTell
  /\ \A t \in Tasks : ConnectionFits(t)
  /\ \A t \in Tasks : RecordIsCurrent(t)
  /\ \A t, u \in Tasks : mcpTask[t].why = "enable" /\ mcpTask[u].why = "enable" => t = u
  /\ CacheIsCurrent
  /\ NoConnectionLeaks
  /\ EnabledWasTested

\* Nothing new is in hand.
LEMMA TellKeeps ==
  ASSUME RevisionsTell, UNCHANGED <<server, installs>>, \A r, c : Seen(r, c)' => Seen(r, c)
  PROVE  RevisionsTell'
BY DEF RevisionsTell

\* The registry changes: a configuration is new, and a revision of its installation too.
LEMMA RegistryKeeps ==
  ASSUME RegistryTyped, RevisionsTell,
         \/ \E enabled \in BOOLEAN : Upserted(enabled)
         \/ server # None /\ \E value \in BOOLEAN : EnabledAs(value)
         \/ server # None /\ Removed,
         \A r, c : Seen(r, c)' => Seen(r, c) \/ SeenRegistered(r, c)'
  PROVE  RegistryTyped' /\ RevisionsTell'
<1>1. PICK n \in Nat : n = Len(installs) /\ DOMAIN installs = 1..n
  BY DEF RegistryTyped
<1>2. \A r, c : Seen(r, c) => r \in Nat /\ c \in 1..n
  BY <1>1 DEF RevisionsTell
<1>3. ASSUME NEW enabled \in BOOLEAN, Upserted(enabled), server = None
      PROVE  RegistryTyped' /\ RevisionsTell'
  <2>1. /\ server' = [config |-> n + 1, enabled |-> enabled, rev |-> 1]
        /\ installs' = Append(installs, n + 1)
    BY <1>1, <1>3 DEF Upserted, NewConfig, Registered
  <2>2. /\ installs' \in Seq(Nat) /\ DOMAIN installs' = 1..(n + 1)
        /\ installs'[n + 1] = n + 1
        /\ \A i \in 1..n : installs'[i] = installs[i] /\ installs[i] <= i
    BY <1>1, <2>1 DEF RegistryTyped
  <2>3. RegistryTyped'
    BY <2>1, <2>2 DEF RegistryTyped, Registrations
  <2>4. \A r, c : Seen(r, c)' => Seen(r, c) \/ (r = 1 /\ c = n + 1)
    BY <2>1 DEF SeenRegistered
  <2>5. \A r, c : Seen(r, c)' => r \in Nat /\ c \in 1..(n + 1)
    BY <1>2, <2>4
  <2>6. \A r, c, d : Seen(r, c)' /\ Seen(r, d)' /\ installs'[c] = installs'[d] => c = d
    BY <1>2, <2>2, <2>4 DEF RevisionsTell, RegistryTyped
  <2>7. \A r, c : Seen(r, c)' /\ installs'[c] = installs'[server'.config] => r <= server'.rev
    BY <1>2, <2>1, <2>2, <2>4 DEF RegistryTyped
  <2> QED
    BY <2>2, <2>3, <2>5, <2>6, <2>7 DEF RevisionsTell
<1>4. ASSUME NEW enabled \in BOOLEAN, Upserted(enabled), server # None
      PROVE  RegistryTyped' /\ RevisionsTell'
  <2>1. PICK rev \in Nat \ {0} : rev = server.rev
    BY <1>4 DEF RegistryTyped, Registrations
  <2>2. PICK config \in 1..n : config = server.config
    BY <1>1, <1>4 DEF RegistryTyped
  <2>3. /\ server' = [config |-> n + 1, enabled |-> enabled, rev |-> rev + 1]
        /\ installs' = Append(installs, installs[config])
    BY <1>1, <1>4, <2>1, <2>2 DEF Upserted, NewConfig, Registered
  <2>4. /\ installs' \in Seq(Nat) /\ DOMAIN installs' = 1..(n + 1)
        /\ installs'[n + 1] = installs[config]
        /\ \A i \in 1..n : installs'[i] = installs[i] /\ installs[i] <= i /\ installs[i] \in Nat
    <3>1. \A i \in 1..n : installs[i] <= i /\ installs[i] \in Nat
      BY <1>1 DEF RegistryTyped
    <3>2. installs \in Seq(Nat) /\ installs[config] \in Nat
      BY <2>2, <3>1 DEF RegistryTyped
    <3> QED
      BY <1>1, <2>3, <3>1, <3>2
  <2>5. RegistryTyped'
    <3>1. installs[config] <= n + 1
      BY <2>4
    <3> QED
      BY <2>3, <2>4, <3>1 DEF RegistryTyped, Registrations
  <2>6. \A r, c : Seen(r, c)' => Seen(r, c) \/ (r = rev + 1 /\ c = n + 1)
    BY <2>3 DEF SeenRegistered
  <2>7. \A r, c : Seen(r, c) /\ installs[c] = installs[config] => r <= rev
    BY <1>4, <2>1, <2>2 DEF RevisionsTell
  <2>8. \A r, c : Seen(r, c)' => r \in Nat /\ c \in 1..(n + 1)
    BY <1>2, <2>6
  <2>9. \A r, c, d : Seen(r, c)' /\ Seen(r, d)' /\ installs'[c] = installs'[d] => c = d
    <3> SUFFICES ASSUME NEW r, NEW c, NEW d, Seen(r, c)', Seen(r, d)', installs'[c] = installs'[d]
                 PROVE  c = d
      OBVIOUS
    <3>1. CASE Seen(r, c) /\ Seen(r, d)
      BY <1>2, <2>4, <3>1 DEF RevisionsTell
    <3>2. \A i : Seen(rev + 1, i) => installs'[i] # installs'[n + 1]
      <4> SUFFICES ASSUME NEW i, Seen(rev + 1, i), installs'[i] = installs'[n + 1]
                   PROVE  FALSE
        OBVIOUS
      <4>1. i \in 1..n /\ installs[i] = installs[config]
        BY <1>2, <2>4
      <4>2. rev + 1 <= rev
        BY <2>7, <4>1
      <4> QED
        BY <4>2
    <3>3. ~(Seen(r, c) /\ Seen(r, d)) => c = d
      BY <2>6, <3>2
    <3> QED
      BY <3>1, <3>3
  <2>10. \A r, c : Seen(r, c)' /\ installs'[c] = installs'[server'.config] => r <= server'.rev
    <3> SUFFICES ASSUME NEW r, NEW c, Seen(r, c)', installs'[c] = installs'[n + 1]
                 PROVE  r <= rev + 1
      BY <2>3
    <3>1. CASE Seen(r, c)
      BY <1>2, <2>4, <2>7, <3>1
    <3> QED
      BY <2>6, <3>1
  <2> QED
    BY <2>4, <2>5, <2>8, <2>9, <2>10 DEF RevisionsTell
<1>5. ASSUME server # None, NEW value \in BOOLEAN, EnabledAs(value)
      PROVE  RegistryTyped' /\ RevisionsTell'
  <2>1. PICK rev \in Nat \ {0} : rev = server.rev
    BY <1>5 DEF RegistryTyped, Registrations
  <2>2. PICK config \in 1..n : config = server.config
    BY <1>1, <1>5 DEF RegistryTyped
  <2>3. UNCHANGED installs
    BY <1>5 DEF EnabledAs
  <2>4. CASE UNCHANGED server
    <3>1. \A r, c : Seen(r, c)' => Seen(r, c)
      BY <2>4 DEF SeenRegistered, Seen
    <3> QED
      BY <2>3, <2>4, <3>1, TellKeeps DEF RegistryTyped
  <2>5. CASE server' = [config |-> config, enabled |-> value, rev |-> rev + 1]
    <3>1. RegistryTyped'
      BY <1>1, <2>3, <2>5 DEF RegistryTyped, Registrations
    <3>2. \A r, c : Seen(r, c)' => Seen(r, c) \/ (r = rev + 1 /\ c = config)
      BY <2>5 DEF SeenRegistered
    <3>3. \A r, c : Seen(r, c) /\ installs[c] = installs[config] => r <= rev
      BY <1>5, <2>1, <2>2 DEF RevisionsTell
    <3>4. \A r, c : Seen(r, c)' => r \in Nat /\ c \in 1..n
      BY <1>2, <3>2
    <3>5. \A r, c, d : Seen(r, c)' /\ Seen(r, d)' /\ installs[c] = installs[d] => c = d
      <4> SUFFICES ASSUME NEW r, NEW c, NEW d, Seen(r, c)', Seen(r, d)', installs[c] = installs[d]
                   PROVE  c = d
        OBVIOUS
      <4>1. CASE Seen(r, c) /\ Seen(r, d)
        BY <4>1 DEF RevisionsTell
      <4>2. CASE r = rev + 1 /\ c = config /\ Seen(r, d)
        BY <3>3, <4>2
      <4>3. CASE r = rev + 1 /\ d = config /\ Seen(r, c)
        BY <3>3, <4>3
      <4> QED
        BY <3>2, <4>1, <4>2, <4>3
    <3>6. \A r, c : Seen(r, c)' /\ installs[c] = installs[config] => r <= rev + 1
      BY <1>2, <3>2, <3>3
    <3> QED
      BY <1>1, <2>3, <2>5, <3>1, <3>4, <3>5, <3>6 DEF RevisionsTell
  <2> QED
    BY <1>5, <2>1, <2>2, <2>4, <2>5 DEF EnabledAs, Registered
<1>6. CASE server # None /\ Removed
  <2>1. server' = None /\ UNCHANGED installs
    BY <1>6 DEF Removed
  <2>2. \A r, c : Seen(r, c)' => Seen(r, c)
    BY <2>1 DEF SeenRegistered
  <2> QED
    BY <2>1, <2>2 DEF RegistryTyped, RevisionsTell
<1> QED
  BY <1>3, <1>4, <1>5, <1>6

\* Of the other tasks at most what they are opening becomes unwanted, and connections end.
OthersGoOn(t) ==
  \A u \in Tasks \ {t} :
    /\ mcpTask'[u].pc = mcpTask[u].pc /\ mcpTask'[u].why = mcpTask[u].why
    /\ mcpTask'[u].rec = mcpTask[u].rec /\ mcpTask'[u].tool = mcpTask[u].tool
    /\ mcpTask'[u].conn = mcpTask[u].conn
    /\ mcpTask'[u].pc = "idle" => mcpTask'[u] = mcpTask[u]
    /\ Opening(u) => (mcpTask'[u].wanted => mcpTask[u].wanted)

OnlyEnds == \A k \in 1..MaxConnections : connections'[k] = connections[k] \/ connections'[k].config = 0

EndsAt(k) == k # 0 => connections'[k].config = 0

\* Closing ends the connections named and leaves the others alone.
LEMMA ClosedEffect ==
  ASSUME McpTyped, NEW cs, connections' = Closed(cs)
  PROVE  /\ connections' \in [1..MaxConnections -> [rev : Nat, config : Nat]]
         /\ OnlyEnds
         /\ \A k \in cs \cap 0..MaxConnections : EndsAt(k)
<1>1. DOMAIN connections = 1..MaxConnections /\ Ended \in [rev : Nat, config : Nat]
  BY DEF McpTyped, Ended
<1>2. \A k \in 1..MaxConnections : connections'[k] = IF k \in cs THEN Ended ELSE connections[k]
  BY <1>1 DEF Closed
<1>3. connections' = [k \in 1..MaxConnections |-> IF k \in cs THEN Ended ELSE connections[k]]
  BY <1>1 DEF Closed
<1>4. connections' \in [1..MaxConnections -> [rev : Nat, config : Nat]]
  BY <1>1, <1>3 DEF McpTyped
<1>5. \A k \in cs \cap 0..MaxConnections : EndsAt(k)
  BY <1>2, McpAssumption DEF EndsAt, Ended
<1> QED
  BY <1>2, <1>4, <1>5 DEF OnlyEnds, Ended

\* So does the end of an owner task.
LEMMA GoneEffect ==
  ASSUME McpTyped, NEW cs, connections' = Gone(cs)
  PROVE  /\ connections' \in [1..MaxConnections -> [rev : Nat, config : Nat]]
         /\ OnlyEnds
         /\ \A k \in cs \cap 0..MaxConnections : EndsAt(k)
<1>1. /\ DOMAIN connections = 1..MaxConnections
      /\ \A k \in 1..MaxConnections : connections[k] \in [rev : Nat, config : Nat]
  BY DEF McpTyped
<1>2. connections' = [k \in 1..MaxConnections |->
                        IF k \in cs THEN [connections[k] EXCEPT !.config = 0] ELSE connections[k]]
  BY <1>1 DEF Gone
<1>3. \A k \in 1..MaxConnections :
        /\ connections'[k] \in [rev : Nat, config : Nat]
        /\ k \in cs => connections'[k].config = 0
        /\ k \notin cs => connections'[k] = connections[k]
  BY <1>1, <1>2
<1>4. connections' \in [1..MaxConnections -> [rev : Nat, config : Nat]]
  BY <1>2, <1>3
<1>5. \A k \in cs \cap 0..MaxConnections : EndsAt(k)
  BY <1>3, McpAssumption DEF EndsAt
<1> QED
  BY <1>3, <1>4, <1>5 DEF OnlyEnds

\* Invalidating ends what is cached, and what others are opening becomes unwanted.
LEMMA InvalidatedEffect ==
  ASSUME McpTyped, NEW t \in Tasks, NEW next \in McpTasks, NEW cs, Invalidated(t, next, cs)
  PROVE  /\ mcpTask' \in [Tasks -> McpTasks]
         /\ mcpTask'[t] = next
         /\ OthersGoOn(t)
         /\ connections' \in [1..MaxConnections -> [rev : Nat, config : Nat]]
         /\ OnlyEnds
         /\ \A k \in (cs \cup {cache}) \cap 0..MaxConnections : EndsAt(k)
         /\ cache' = 0
         /\ \A u \in Tasks \ {t} : Opening(u) => ~mcpTask'[u].wanted
<1>1. /\ mcpTask' = [u \in Tasks |-> IF u = t THEN next
                                     ELSE [mcpTask[u] EXCEPT !.wanted = ~Opening(u)]]
      /\ connections' = Closed(cs \cup {cache}) /\ cache' = 0
  BY DEF Invalidated
<1>2. ASSUME NEW u \in Tasks \ {t}
      PROVE  /\ mcpTask'[u] \in McpTasks
             /\ mcpTask'[u].pc = mcpTask[u].pc /\ mcpTask'[u].why = mcpTask[u].why
             /\ mcpTask'[u].rec = mcpTask[u].rec /\ mcpTask'[u].tool = mcpTask[u].tool
             /\ mcpTask'[u].conn = mcpTask[u].conn
             /\ mcpTask'[u].pc = "idle" => mcpTask'[u] = mcpTask[u]
             /\ Opening(u) => ~mcpTask'[u].wanted
  <2>1. mcpTask[u] \in McpTasks
    BY DEF McpTyped
  <2>2. CASE Opening(u)
    <3>1. mcpTask'[u] = [mcpTask[u] EXCEPT !.wanted = ~Opening(u)]
      BY <1>1
    <3>2. (~Opening(u)) = FALSE
      BY <2>2
    <3>3. mcpTask'[u] = [mcpTask[u] EXCEPT !.wanted = FALSE]
      BY <3>1, <3>2, Zenon
    <3>4. mcpTask[u].pc # "idle"
      BY <2>2 DEF Opening
    <3> QED
      BY <2>1, <3>3, <3>4 DEF McpTasks
  <2>3. CASE ~Opening(u)
    <3>1. mcpTask'[u] = [mcpTask[u] EXCEPT !.wanted = ~Opening(u)]
      BY <1>1
    <3>2. (~Opening(u)) = TRUE
      BY <2>3
    <3>3. mcpTask'[u] = [mcpTask[u] EXCEPT !.wanted = TRUE]
      BY <3>1, <3>2, Zenon
    <3>4. mcpTask[u].pc = "idle" => mcpTask'[u] = mcpTask[u]
      <4>1. mcpTask[u].pc = "idle" => mcpTask[u] = MIdle
        BY DEF McpTyped
      <4>2. mcpTask[u].pc = "idle" => mcpTask[u].wanted = TRUE
        BY <4>1 DEF MIdle
      <4> QED
        BY <2>1, <3>3, <4>2 DEF McpTasks
    <3> QED
      BY <2>1, <2>3, <3>3, <3>4 DEF McpTasks
  <2> QED
    BY <2>2, <2>3
<1>3. mcpTask' \in [Tasks -> McpTasks] /\ mcpTask'[t] = next
  <2>1. \A u \in Tasks : mcpTask'[u] \in McpTasks
    BY <1>1, <1>2
  <2>2. mcpTask' = [u \in Tasks |-> mcpTask'[u]]
    BY <1>1
  <2> QED
    BY <1>1, <2>1, <2>2
<1>4. OthersGoOn(t)
  BY <1>2 DEF OthersGoOn
<1>5. /\ connections' \in [1..MaxConnections -> [rev : Nat, config : Nat]]
      /\ OnlyEnds
      /\ \A k \in (cs \cup {cache}) \cap 0..MaxConnections : EndsAt(k)
  BY <1>1, ClosedEffect
<1> QED
  BY <1>1, <1>2, <1>3, <1>4, <1>5

\* Where one task changes and connections only end, nothing new is in hand but what is registered.
LEMMA SeenShrinks ==
  ASSUME NEW t \in Tasks, OthersGoOn(t), OnlyEnds,
         \A r, c : SeenLoaded(r, c)' => Seen(r, c),
         \A r, c : SeenBy(t, r, c)' => Seen(r, c)
  PROVE  \A r, c : Seen(r, c)' => Seen(r, c) \/ SeenRegistered(r, c)'
<1>1. \A r, c : \A u \in Tasks \ {t} : SeenBy(u, r, c)' => SeenBy(u, r, c)
  BY DEF OthersGoOn, SeenBy
<1>2. \A r, c : \A k \in 1..MaxConnections : SeenIn(k, r, c)' => SeenIn(k, r, c)
  BY DEF OnlyEnds, SeenIn
<1> QED
  BY <1>1, <1>2 DEF Seen

\* A task is done with its connection: one it was about to cache is closed, and the cached one
\* only if nothing is cached any more.
LEMMA ClosingKeeps ==
  ASSUME McpTyped, \A u \in Tasks : ConnectionFits(u), NoConnectionLeaks,
         NEW t \in Tasks, OthersGoOn(t), OnlyEnds, UNCHANGED managerOpen,
         mcpTask' \in [Tasks -> McpTasks],
         connections' \in [1..MaxConnections -> [rev : Nat, config : Nat]],
         mcpTask'[t] = MIdle \/ (mcpTask'[t].pc = "tested" /\ mcpTask'[t].rec # None),
         mcpTask[t].pc = "publish" => EndsAt(mcpTask[t].conn),
         cache' = cache \/ (cache' = 0 /\ EndsAt(cache))
  PROVE  McpTyped' /\ (\A u \in Tasks : ConnectionFits(u)') /\ NoConnectionLeaks'
<1>1. McpTyped'
  <2>1. cache' \in 0..MaxConnections
    BY McpAssumption DEF McpTyped
  <2>2. \A u \in Tasks :
          /\ mcpTask'[u].pc # "idle" => mcpTask'[u].rec # None
          /\ mcpTask'[u].pc = "idle" => mcpTask'[u] = MIdle
    <3>1. CASE mcpTask'[t] = MIdle
      BY <3>1 DEF McpTyped, OthersGoOn, MIdle
    <3>2. CASE mcpTask'[t].pc = "tested" /\ mcpTask'[t].rec # None
      BY <3>2 DEF McpTyped, OthersGoOn
    <3> QED
      BY <3>1, <3>2
  <2> QED
    BY <2>1, <2>2 DEF McpTyped
<1>2. \A u \in Tasks : ConnectionFits(u)'
  <2>1. ConnectionFits(t)'
    BY DEF ConnectionFits, MIdle
  <2>2. ASSUME NEW u \in Tasks \ {t}
        PROVE  ConnectionFits(u)'
    <3>1. mcpTask[u].conn \in 0..MaxConnections
      BY DEF McpTyped, McpTasks
    <3> QED
      BY <3>1 DEF ConnectionFits, OthersGoOn, OnlyEnds, Alive
  <2> QED
    BY <2>1, <2>2
<1>3. NoConnectionLeaks'
  <2> SUFFICES ASSUME NEW k \in 1..MaxConnections, connections'[k].config # 0
               PROVE  \/ managerOpen /\ k = cache'
                      \/ \E u \in Tasks : mcpTask'[u].pc = "publish" /\ mcpTask'[u].conn = k
    BY <1>1 DEF NoConnectionLeaks, Alive, McpTyped
  <2>1. k # 0 /\ Alive(k) /\ k \in DOMAIN connections
    BY DEF OnlyEnds, Alive, McpTyped
  <2>2. CASE managerOpen /\ k = cache
    BY <2>1, <2>2 DEF EndsAt
  <2>3. ASSUME NEW u \in Tasks, mcpTask[u].pc = "publish", mcpTask[u].conn = k
        PROVE  \E v \in Tasks : mcpTask'[v].pc = "publish" /\ mcpTask'[v].conn = k
    <3>1. u # t
      BY <2>1, <2>3 DEF EndsAt
    <3> QED
      BY <2>3, <3>1 DEF OthersGoOn
  <2> QED
    BY <2>1, <2>2, <2>3 DEF NoConnectionLeaks
<1> QED
  BY <1>1, <1>2, <1>3

\* A task ends, or its test does, and nothing is registered.
LEMMA TaskEndKeeps ==
  ASSUME McpInv, NEW t \in Tasks, OthersGoOn(t), OnlyEnds, UNCHANGED <<registryVars, managerOpen>>,
         mcpTask' \in [Tasks -> McpTasks],
         connections' \in [1..MaxConnections -> [rev : Nat, config : Nat]],
         \/ mcpTask'[t] = MIdle
         \/ /\ mcpTask'[t].pc = "tested" /\ mcpTask[t].pc # "idle"
            /\ mcpTask'[t].rec = mcpTask[t].rec /\ mcpTask'[t].why = mcpTask[t].why
            /\ mcpTask'[t].tool = mcpTask[t].tool,
         mcpTask[t].pc = "publish" => EndsAt(mcpTask[t].conn),
         cache' = cache \/ (cache' = 0 /\ EndsAt(cache)),
         \A r, c : SeenLoaded(r, c)' => Seen(r, c)
  PROVE  McpInv'
<1>1. /\ McpTyped /\ RegistryTyped /\ RevisionsTell /\ NoConnectionLeaks /\ CacheIsCurrent
      /\ \A u \in Tasks : ConnectionFits(u) /\ RecordIsCurrent(u)
  BY DEF McpInv
<1>2. mcpTask'[t] = MIdle \/ (mcpTask'[t].pc = "tested" /\ mcpTask'[t].rec # None)
  BY <1>1 DEF McpTyped
<1>3. McpTyped' /\ (\A u \in Tasks : ConnectionFits(u)') /\ NoConnectionLeaks'
  BY <1>1, <1>2, ClosingKeeps
<1>4. RevisionsTell' /\ RegistryTyped'
  <2>1. \A r, c : SeenBy(t, r, c)' => SeenBy(t, r, c)
    BY DEF SeenBy, MIdle
  <2>2. \A r, c : Seen(r, c)' => Seen(r, c) \/ SeenRegistered(r, c)'
    BY <2>1, SeenShrinks DEF Seen
  <2>3. \A r, c : Seen(r, c)' => Seen(r, c)
    BY <2>2 DEF Seen, SeenRegistered, registryVars
  <2> QED
    BY <1>1, <2>3, TellKeeps DEF RegistryTyped, registryVars
<1>5. mcpTask'[t].why = "enable" => mcpTask[t].why = "enable" /\ mcpTask'[t].rec = mcpTask[t].rec
  BY DEF MIdle
<1>6. \A u \in Tasks : RecordIsCurrent(u)'
  <2>1. RecordIsCurrent(t)'
    BY <1>1, <1>2, <1>5 DEF RecordIsCurrent, Opening, registryVars, MIdle
  <2> QED
    BY <1>1, <2>1 DEF RecordIsCurrent, Opening, registryVars, OthersGoOn
<1>7. \A u, v \in Tasks : mcpTask'[u].why = "enable" /\ mcpTask'[v].why = "enable" => u = v
  BY <1>5 DEF McpInv, OthersGoOn
<1>8. CacheIsCurrent'
  <2>1. Alive(cache)' => Alive(cache) /\ cache' = cache /\ connections'[cache] = connections[cache]
    BY <1>1, McpAssumption DEF Alive, EndsAt, OnlyEnds, McpTyped
  <2> QED
    BY <1>1, <2>1 DEF CacheIsCurrent, registryVars
<1>9. EnabledWasTested'
  BY DEF McpInv, EnabledWasTested, registryVars
<1> QED
  BY <1>3, <1>4, <1>6, <1>7, <1>8, <1>9 DEF McpInv

\* A change of the registration invalidates what is cached and what is being opened.
LEMMA ManageKeeps ==
  ASSUME McpInv, NEW t \in Tasks, UpsertServer(t) \/ SetServerEnabled(t) \/ RemoveServer(t)
  PROVE  McpInv'
<1>1. /\ McpTyped /\ RegistryTyped /\ RevisionsTell /\ NoConnectionLeaks
      /\ \A u \in Tasks : ConnectionFits(u)
  BY DEF McpInv
<1>2. /\ Invalidated(t, MIdle, {}) /\ mcpTask[t].pc = "idle"
      /\ \A u \in Tasks : mcpTask[u].why # "enable"
      /\ UNCHANGED <<mishap, loaded, managerOpen>> /\ proof' = 0
      /\ \/ \E enabled \in BOOLEAN : Upserted(enabled)
         \/ server # None /\ \E value \in BOOLEAN : EnabledAs(value)
         \/ server # None /\ Removed
  BY DEF UpsertServer, SetServerEnabled, RemoveServer, Manage, Manageable
<1>3. MIdle \in McpTasks
  BY McpAssumption DEF MIdle, McpTasks
<1>4. /\ mcpTask' \in [Tasks -> McpTasks] /\ mcpTask'[t] = MIdle /\ OthersGoOn(t)
      /\ connections' \in [1..MaxConnections -> [rev : Nat, config : Nat]]
      /\ OnlyEnds /\ EndsAt(cache) /\ cache' = 0
      /\ \A u \in Tasks \ {t} : Opening(u) => ~mcpTask'[u].wanted
  BY <1>1, <1>2, <1>3, InvalidatedEffect DEF McpTyped
<1>5. McpTyped' /\ (\A u \in Tasks : ConnectionFits(u)') /\ NoConnectionLeaks'
  BY <1>1, <1>2, <1>4, ClosingKeeps
<1>6. RevisionsTell' /\ RegistryTyped'
  <2>1. \A r, c : SeenBy(t, r, c)' => Seen(r, c)
    BY <1>4 DEF SeenBy, MIdle
  <2>2. \A r, c : SeenLoaded(r, c)' => Seen(r, c)
    BY <1>2 DEF SeenLoaded, Seen
  <2>3. \A r, c : Seen(r, c)' => Seen(r, c) \/ SeenRegistered(r, c)'
    BY <1>4, <2>1, <2>2, SeenShrinks
  <2> QED
    BY <1>1, <1>2, <2>3, RegistryKeeps
<1>7. \A u \in Tasks : mcpTask'[u].why # "enable" /\ ~(Opening(u)' /\ mcpTask'[u].wanted)
  BY <1>2, <1>4 DEF OthersGoOn, Opening, MIdle
<1>8. \A u \in Tasks : RecordIsCurrent(u)'
  BY <1>7 DEF RecordIsCurrent
<1>9. CacheIsCurrent' /\ EnabledWasTested'
  BY <1>2, <1>4 DEF CacheIsCurrent, EnabledWasTested, Alive
<1> QED
  BY <1>5, <1>6, <1>7, <1>8, <1>9 DEF McpInv

\* What is enabled is what was tested: nobody could change it in between.
LEMMA EnableKeeps ==
  ASSUME McpInv, NEW t \in Tasks, EnableTested(t)
  PROVE  McpInv'
<1>1. /\ McpTyped /\ RegistryTyped /\ RevisionsTell /\ NoConnectionLeaks
      /\ \A u \in Tasks : ConnectionFits(u)
      /\ RecordIsCurrent(t)
  BY DEF McpInv
<1>2. /\ Invalidated(t, MIdle, {}) /\ mcpTask[t].pc = "tested" /\ mcpTask[t].why = "enable"
      /\ server # None /\ EnabledAs(TRUE)
      /\ UNCHANGED <<mishap, loaded, managerOpen>> /\ proof' = mcpTask[t].rec.config
  BY DEF EnableTested
<1>3. MIdle \in McpTasks
  BY McpAssumption DEF MIdle, McpTasks
<1>4. /\ mcpTask' \in [Tasks -> McpTasks] /\ mcpTask'[t] = MIdle /\ OthersGoOn(t)
      /\ connections' \in [1..MaxConnections -> [rev : Nat, config : Nat]]
      /\ OnlyEnds /\ EndsAt(cache) /\ cache' = 0
      /\ \A u \in Tasks \ {t} : Opening(u) => ~mcpTask'[u].wanted
  BY <1>1, <1>2, <1>3, InvalidatedEffect DEF McpTyped
<1>5. McpTyped' /\ (\A u \in Tasks : ConnectionFits(u)') /\ NoConnectionLeaks'
  BY <1>1, <1>2, <1>4, ClosingKeeps
<1>6. RevisionsTell' /\ RegistryTyped'
  <2>1. \A r, c : SeenBy(t, r, c)' => Seen(r, c)
    BY <1>4 DEF SeenBy, MIdle
  <2>2. \A r, c : SeenLoaded(r, c)' => Seen(r, c)
    BY <1>2 DEF SeenLoaded, Seen
  <2>3. \A r, c : Seen(r, c)' => Seen(r, c) \/ SeenRegistered(r, c)'
    BY <1>4, <2>1, <2>2, SeenShrinks
  <2> QED
    BY <1>1, <1>2, <2>3, RegistryKeeps
<1>7. \A u \in Tasks : mcpTask'[u].why # "enable" /\ ~(Opening(u)' /\ mcpTask'[u].wanted)
  BY <1>2, <1>4 DEF McpInv, OthersGoOn, Opening, MIdle
<1>8. \A u \in Tasks : RecordIsCurrent(u)'
  BY <1>7 DEF RecordIsCurrent
<1>9. CacheIsCurrent'
  BY <1>4 DEF CacheIsCurrent, Alive
<1>10. EnabledWasTested'
  <2>1. server'.config = server.config
    BY <1>2 DEF EnabledAs, Registered
  <2>2. mishap # "foreign" => mcpTask[t].rec.config = server.config
    BY <1>1, <1>2 DEF RecordIsCurrent
  <2> QED
    BY <1>2, <2>1, <2>2 DEF EnabledWasTested
<1> QED
  BY <1>5, <1>6, <1>7, <1>8, <1>9, <1>10 DEF McpInv

\* A task fails, is cancelled, or has what it wanted.
LEMMA EndingsKeep ==
  ASSUME McpInv, NEW t \in Tasks,
         \/ OpenFails(t) \/ Superfluous(t) \/ UseFails(t) \/ Cancel(t)
         \/ Discovered(t) \/ Called(t) \/ EndTest(t) \/ Tested(t)
  PROVE  McpInv'
<1>1. /\ McpTyped /\ mcpTask[t] \in McpTasks /\ ConnectionFits(t)
      /\ mcpTask \in [Tasks -> McpTasks] /\ cache \in 0..MaxConnections
      /\ connections \in [1..MaxConnections -> [rev : Nat, config : Nat]]
      /\ UNCHANGED <<registryVars, managerOpen>>
  BY DEF McpInv, McpTyped, OpenFails, Superfluous, UseFails, Fail, Cancel, Discovered, Called, EndTest,
     Tested
<1>2. MIdle \in McpTasks
  BY McpAssumption DEF MIdle, McpTasks
<1>3. ASSUME NEW next \in McpTasks, mcpTask' = [mcpTask EXCEPT ![t] = next]
      PROVE  mcpTask' \in [Tasks -> McpTasks] /\ mcpTask'[t] = next /\ OthersGoOn(t)
  BY <1>1, <1>3 DEF OthersGoOn
<1>4. ASSUME NEW cs \in SUBSET (0..MaxConnections), Fail(t, cs),
             mcpTask[t].pc = "publish" => mcpTask[t].conn \in cs
      PROVE  McpInv'
  <2>1. UNCHANGED loaded
    BY <1>4 DEF Fail
  <2>2. \A r, c : SeenLoaded(r, c)' => Seen(r, c)
    BY <2>1 DEF SeenLoaded, Seen
  <2>3. CASE Invalidated(t, MIdle, cs)
    <3>1. /\ mcpTask' \in [Tasks -> McpTasks] /\ mcpTask'[t] = MIdle /\ OthersGoOn(t)
          /\ connections' \in [1..MaxConnections -> [rev : Nat, config : Nat]]
          /\ OnlyEnds /\ cache' = 0
          /\ \A k \in (cs \cup {cache}) \cap 0..MaxConnections : EndsAt(k)
      BY <1>1, <1>2, <2>3, InvalidatedEffect
    <3>2. EndsAt(cache) /\ (mcpTask[t].pc = "publish" => EndsAt(mcpTask[t].conn))
      BY <1>1, <1>4, <3>1
    <3> QED
      BY <1>1, <2>2, <3>1, <3>2, TaskEndKeeps
  <2>4. CASE connections' = Closed(cs) /\ mcpTask' = [mcpTask EXCEPT ![t] = MIdle] /\ UNCHANGED cache
    <3>1. /\ connections' \in [1..MaxConnections -> [rev : Nat, config : Nat]]
          /\ OnlyEnds
          /\ \A k \in cs \cap 0..MaxConnections : EndsAt(k)
      BY <1>1, <2>4, ClosedEffect
    <3>2. mcpTask[t].pc = "publish" => EndsAt(mcpTask[t].conn)
      BY <1>4, <3>1
    <3>3. mcpTask' \in [Tasks -> McpTasks] /\ mcpTask'[t] = MIdle /\ OthersGoOn(t)
      BY <1>2, <1>3, <2>4
    <3> QED
      BY <1>1, <2>2, <2>4, <3>1, <3>2, <3>3, TaskEndKeeps
  <2> QED
    BY <1>4, <2>3, <2>4 DEF Fail
<1>5. CASE OpenFails(t) \/ UseFails(t)
  <2>1. Fail(t, {}) /\ mcpTask[t].pc # "publish"
    BY <1>5 DEF OpenFails, UseFails
  <2> QED
    BY <1>4, <2>1
<1>6. CASE Superfluous(t) \/ Cancel(t)
  <2>1. PICK k \in 0..MaxConnections : k = mcpTask[t].conn
    BY <1>1 DEF McpTasks
  <2>2. CASE Fail(t, {k})
    BY <1>4, <2>1, <2>2
  <2>3. CASE /\ connections' = Closed({k}) \/ (k = cache /\ connections' = Gone({k}))
             /\ mcpTask' = [mcpTask EXCEPT ![t] = MIdle]
             /\ UNCHANGED <<cache, loaded>>
    <3>1. /\ connections' \in [1..MaxConnections -> [rev : Nat, config : Nat]]
          /\ OnlyEnds
          /\ EndsAt(mcpTask[t].conn)
      BY <1>1, <2>1, <2>3, ClosedEffect, GoneEffect
    <3>2. mcpTask' \in [Tasks -> McpTasks] /\ mcpTask'[t] = MIdle /\ OthersGoOn(t)
      BY <1>2, <1>3, <2>3
    <3>3. \A r, c : SeenLoaded(r, c)' => Seen(r, c)
      BY <2>3 DEF SeenLoaded, Seen
    <3> QED
      BY <1>1, <2>3, <3>1, <3>2, <3>3, TaskEndKeeps
  <2> QED
    BY <1>6, <2>1, <2>2, <2>3 DEF Superfluous, Cancel
<1>7. ASSUME UNCHANGED <<connections, cache>>, mcpTask[t].pc \in {"use", "tested"},
             NEW next \in McpTasks, mcpTask' = [mcpTask EXCEPT ![t] = next],
             next = MIdle \/ next = [mcpTask[t] EXCEPT !.pc = "tested", !.conn = 0],
             \A r, c : SeenLoaded(r, c)' => Seen(r, c)
      PROVE  McpInv'
  <2>1. mcpTask' \in [Tasks -> McpTasks] /\ mcpTask'[t] = next /\ OthersGoOn(t)
    BY <1>3, <1>7
  <2>2. OnlyEnds /\ connections' \in [1..MaxConnections -> [rev : Nat, config : Nat]]
    BY <1>1, <1>7 DEF OnlyEnds
  <2>3. \/ mcpTask'[t] = MIdle
        \/ /\ mcpTask'[t].pc = "tested" /\ mcpTask[t].pc # "idle"
           /\ mcpTask'[t].rec = mcpTask[t].rec /\ mcpTask'[t].why = mcpTask[t].why
           /\ mcpTask'[t].tool = mcpTask[t].tool
    BY <1>1, <1>7, <2>1 DEF McpTasks
  <2>4. cache' = cache /\ mcpTask[t].pc # "publish"
    BY <1>7
  <2> QED
    BY <1>1, <1>7, <2>1, <2>2, <2>3, <2>4, TaskEndKeeps
<1>8. CASE Discovered(t)
  <2>1. /\ mcpTask[t].pc = "use" /\ Alive(mcpTask[t].conn) /\ UNCHANGED <<connections, cache>>
        /\ loaded' = [rev |-> mcpTask[t].rec.rev, config |-> connections[mcpTask[t].conn].config]
        /\ mcpTask' = [mcpTask EXCEPT ![t] = MIdle]
    BY <1>8 DEF Discovered
  <2>2. PICK k \in 1..MaxConnections : k = mcpTask[t].conn
    BY <1>1, <2>1 DEF Alive, McpTasks
  <2>3. SeenIn(k, loaded'.rev, loaded'.config)
    BY <1>1, <2>1, <2>2 DEF SeenIn, ConnectionFits, Alive
  <2>4. \A r, c : SeenLoaded(r, c)' => Seen(r, c)
    BY <2>3 DEF SeenLoaded, Seen
  <2> QED
    BY <1>2, <1>7, <2>1, <2>4
<1>9. CASE Called(t) \/ EndTest(t)
  <2>1. /\ mcpTask[t].pc \in {"use", "tested"} /\ UNCHANGED <<loaded, connections, cache>>
        /\ mcpTask' = [mcpTask EXCEPT ![t] = MIdle]
    BY <1>9 DEF Called, EndTest
  <2>2. \A r, c : SeenLoaded(r, c)' => Seen(r, c)
    BY <2>1 DEF SeenLoaded, Seen
  <2> QED
    BY <1>2, <1>7, <2>1, <2>2
<1>10. CASE Tested(t)
  <2>1. mcpTask[t].pc = "use" /\ UNCHANGED loaded
    BY <1>10 DEF Tested
  <2>2. \A r, c : SeenLoaded(r, c)' => Seen(r, c)
    BY <2>1 DEF SeenLoaded, Seen
  <2>3. CASE /\ mcpTask' = [mcpTask EXCEPT ![t].pc = "tested", ![t].conn = 0]
             /\ UNCHANGED <<connections, cache>>
    <3>1. PICK next : next = [mcpTask[t] EXCEPT !.pc = "tested", !.conn = 0]
      OBVIOUS
    <3>2. next \in McpTasks /\ mcpTask' = [mcpTask EXCEPT ![t] = next]
      <4>1. 0 \in 0..MaxConnections
        BY McpAssumption
      <4>2. next \in McpTasks
        BY <1>1, <3>1, <4>1 DEF McpTasks
      <4>3. mcpTask' = [mcpTask EXCEPT ![t] = next]
        BY <1>1, <2>3, <3>1
      <4> QED
        BY <4>2, <4>3
    <3> QED
      BY <1>7, <2>1, <2>2, <2>3, <3>1, <3>2
  <2>4. CASE Invalidated(t, [mcpTask[t] EXCEPT !.pc = "tested"], {})
    <3>1. PICK next : next = [mcpTask[t] EXCEPT !.pc = "tested"]
      OBVIOUS
    <3>2. /\ next \in McpTasks /\ next.pc = "tested" /\ next.rec = mcpTask[t].rec
          /\ next.why = mcpTask[t].why /\ next.tool = mcpTask[t].tool
      BY <1>1, <3>1 DEF McpTasks
    <3>3. Invalidated(t, next, {})
      BY <2>4, <3>1
    <3>4. /\ mcpTask' \in [Tasks -> McpTasks] /\ mcpTask'[t] = next /\ OthersGoOn(t)
          /\ connections' \in [1..MaxConnections -> [rev : Nat, config : Nat]]
          /\ OnlyEnds /\ cache' = 0 /\ EndsAt(cache)
      BY <1>1, <3>2, <3>3, InvalidatedEffect
    <3> QED
      BY <1>1, <2>1, <2>2, <3>2, <3>4, TaskEndKeeps
  <2> QED
    BY <1>10, <2>3, <2>4 DEF Tested
<1> QED
  BY <1>5, <1>6, <1>8, <1>9, <1>10

\* A task goes on with a connection, the cached one, a new one, or one it has yet to open.
LEMMA TaskGoesOnKeeps ==
  ASSUME McpInv, NEW t \in Tasks, NEW next \in McpTasks, mcpTask' = [mcpTask EXCEPT ![t] = next],
         next.pc \in {"open", "publish", "use"}, next.rec # None,
         UNCHANGED <<registryVars, loaded, managerOpen>>,
         connections' \in [1..MaxConnections -> [rev : Nat, config : Nat]],
         cache' \in 0..MaxConnections,
         \A r, c : Seen(r, c)' => Seen(r, c),
         \A u \in Tasks : ConnectionFits(u)',
         RecordIsCurrent(t)',
         next.why = "enable" => \A u \in Tasks \ {t} : mcpTask[u].why # "enable",
         CacheIsCurrent', NoConnectionLeaks'
  PROVE  McpInv'
<1>1. /\ mcpTask \in [Tasks -> McpTasks] /\ mcpTask'[t] = next
      /\ \A u \in Tasks \ {t} : mcpTask'[u] = mcpTask[u]
  BY DEF McpInv, McpTyped
<1>2. McpTyped' /\ RegistryTyped'
  BY <1>1 DEF McpInv, McpTyped, RegistryTyped, registryVars
<1>3. RevisionsTell'
  BY TellKeeps DEF McpInv, registryVars
<1>4. \A u \in Tasks : RecordIsCurrent(u)'
  BY <1>1 DEF McpInv, RecordIsCurrent, Opening, registryVars
<1>5. \A u, v \in Tasks : mcpTask'[u].why = "enable" /\ mcpTask'[v].why = "enable" => u = v
  BY <1>1 DEF McpInv
<1>6. EnabledWasTested'
  BY DEF McpInv, EnabledWasTested, registryVars
<1> QED
  BY <1>2, <1>3, <1>4, <1>5, <1>6 DEF McpInv

\* What a task starts with: the record as it is registered, and the tool of the snapshot.
LEMMA EnsureKeeps ==
  ASSUME McpInv, NEW t \in Tasks, LoadTools(t) \/ CallTool(t) \/ TestServer(t) \/ TestAndEnable(t)
  PROVE  McpInv'
<1>1. PICK why \in {"load", "call", "test", "enable"} :
        /\ EnsureConnection(t, why) /\ server # None /\ UNCHANGED registryVars
        /\ why = "call" => loaded # None /\ loaded.rev = server.rev
        /\ why = "enable" => Manageable
  BY DEF LoadTools, CallTool, SnapshotCurrent, TestServer, TestAndEnable
<1>2. PICK tool : tool = IF why = "call" THEN loaded.config ELSE 0
  OBVIOUS
<1>3. PICK begun : begun = [MIdle EXCEPT !.why = why, !.rec = server, !.tool = tool]
  OBVIOUS
<1>4. /\ server \in Registrations /\ RevisionsTell /\ McpTyped
      /\ mcpTask \in [Tasks -> McpTasks] /\ cache \in 0..MaxConnections
      /\ connections \in [1..MaxConnections -> [rev : Nat, config : Nat]]
      /\ installs \in Seq(Nat)
  BY <1>1 DEF McpInv, McpTyped, RegistryTyped
<1>5. why = "call" => Seen(server.rev, tool) /\ tool \in Nat
  <2>1. why = "call" => Seen(server.rev, tool)
    BY <1>1, <1>2 DEF Seen, SeenLoaded
  <2> QED
    BY <1>4, <2>1 DEF RevisionsTell
<1>6. tool \in Nat /\ 0 \in 0..MaxConnections
  BY <1>2, <1>5, McpAssumption
<1>7. /\ begun = [pc |-> "idle", why |-> why, rec |-> server, tool |-> tool, conn |-> 0,
                  wanted |-> TRUE]
      /\ mcpTask[t].pc = "idle" /\ UNCHANGED <<loaded, managerOpen>>
      /\ \/ /\ mcpTask' = [mcpTask EXCEPT ![t] = [begun EXCEPT !.pc = "use", !.conn = cache]]
            /\ UNCHANGED <<connections, cache>>
            /\ Alive(cache) /\ connections[cache].rev = server.rev
         \/ /\ mcpTask' = [mcpTask EXCEPT ![t] = [begun EXCEPT !.pc = "open"]]
            /\ connections' = Closed({cache}) /\ cache' = 0
  BY <1>1, <1>2, <1>3 DEF EnsureConnection, MIdle
<1>8. PICK next :
        /\ mcpTask' = [mcpTask EXCEPT ![t] = next]
        /\ \/ /\ next = [pc |-> "use", why |-> why, rec |-> server, tool |-> tool, conn |-> cache,
                         wanted |-> TRUE]
              /\ UNCHANGED <<connections, cache>>
              /\ Alive(cache) /\ connections[cache].rev = server.rev
           \/ /\ next = [pc |-> "open", why |-> why, rec |-> server, tool |-> tool, conn |-> 0,
                         wanted |-> TRUE]
              /\ connections' = Closed({cache}) /\ cache' = 0
  BY <1>7
<1>9. /\ next \in McpTasks /\ next.pc \in {"open", "use"} /\ next.rec = server /\ next.why = why
      /\ next.tool = tool
  <2>1. PICK pc \in {"open", "use"}, conn \in 0..MaxConnections :
          next = [pc |-> pc, why |-> why, rec |-> server, tool |-> tool, conn |-> conn, wanted |-> TRUE]
    BY <1>4, <1>6, <1>8
  <2>2. server \in Registrations \cup {None}
    BY <1>4
  <2>3. next \in McpTasks
    BY <1>6, <2>1, <2>2 DEF McpTasks
  <2> QED
    BY <2>1, <2>3
<1>10. /\ connections' \in [1..MaxConnections -> [rev : Nat, config : Nat]]
       /\ OnlyEnds
       /\ (cache' = cache /\ connections' = connections) \/ (cache' = 0 /\ EndsAt(cache))
  BY <1>4, <1>8, ClosedEffect DEF OnlyEnds
<1>11. mcpTask'[t] = next /\ OthersGoOn(t)
  BY <1>4, <1>8 DEF OthersGoOn
<1>12. \A r, c : Seen(r, c)' => Seen(r, c)
  <2>1. \A r, c : SeenBy(t, r, c)' => Seen(r, c)
    BY <1>1, <1>5, <1>9, <1>11 DEF SeenBy, Seen, SeenRegistered
  <2>2. \A r, c : SeenLoaded(r, c)' => Seen(r, c)
    BY <1>7 DEF SeenLoaded, Seen
  <2>3. \A r, c : Seen(r, c)' => Seen(r, c) \/ SeenRegistered(r, c)'
    BY <1>10, <1>11, <2>1, <2>2, SeenShrinks
  <2> QED
    BY <1>1, <2>3 DEF Seen, SeenRegistered, registryVars
<1>13. \A u \in Tasks : ConnectionFits(u)'
  <2>1. ConnectionFits(t)'
    BY <1>8, <1>9, <1>11 DEF ConnectionFits, Alive
  <2>2. ASSUME NEW u \in Tasks \ {t}
        PROVE  ConnectionFits(u)'
    <3>1. mcpTask[u].conn \in 0..MaxConnections /\ ConnectionFits(u)
      BY <1>4 DEF McpInv, McpTasks
    <3> QED
      BY <1>10, <1>11, <3>1 DEF ConnectionFits, OthersGoOn, OnlyEnds, Alive
  <2> QED
    BY <2>1, <2>2
<1>14. RecordIsCurrent(t)'
  BY <1>1, <1>9, <1>11 DEF RecordIsCurrent, registryVars
<1>15. CacheIsCurrent'
  <2>1. CASE cache' = cache /\ connections' = connections
    BY <1>1, <2>1 DEF McpInv, CacheIsCurrent, Alive, registryVars
  <2>2. CASE cache' = 0
    BY <2>2 DEF CacheIsCurrent, Alive
  <2> QED
    BY <1>10, <2>1, <2>2
<1>16. NoConnectionLeaks'
  <2> SUFFICES ASSUME NEW k \in 1..MaxConnections, connections'[k].config # 0
               PROVE  \/ managerOpen /\ k = cache'
                      \/ \E u \in Tasks : mcpTask'[u].pc = "publish" /\ mcpTask'[u].conn = k
    BY <1>7, <1>10 DEF NoConnectionLeaks, Alive
  <2>1. k # 0 /\ Alive(k) /\ k \in DOMAIN connections
    BY <1>4, <1>10 DEF OnlyEnds, Alive
  <2>2. CASE managerOpen /\ k = cache
    BY <1>10, <2>1, <2>2 DEF EndsAt
  <2>3. ASSUME NEW u \in Tasks, mcpTask[u].pc = "publish", mcpTask[u].conn = k
        PROVE  \E v \in Tasks : mcpTask'[v].pc = "publish" /\ mcpTask'[v].conn = k
    BY <1>7, <1>11, <2>3 DEF OthersGoOn
  <2> QED
    BY <2>1, <2>2, <2>3 DEF McpInv, NoConnectionLeaks
<1>17. why = "enable" => \A u \in Tasks \ {t} : mcpTask[u].why # "enable"
  BY <1>1 DEF Manageable
<1>18. cache' \in 0..MaxConnections /\ next.rec # None
  BY <1>1, <1>4, <1>6, <1>9, <1>10
<1> QED
  BY <1>1, <1>7, <1>8, <1>9, <1>10, <1>12, <1>13, <1>14, <1>15, <1>16, <1>17, <1>18, TaskGoesOnKeeps

\* A connection is opened, which is nobody's yet.
LEMMA OpenKeeps ==
  ASSUME McpInv, NEW t \in Tasks, Open(t)
  PROVE  McpInv'
<1>1. PICK k \in DOMAIN connections :
        /\ Unused(k)
        /\ connections' = [connections EXCEPT ![k] =
             [rev |-> mcpTask[t].rec.rev, config |-> mcpTask[t].rec.config]]
        /\ mcpTask' = [mcpTask EXCEPT ![t].pc = "publish", ![t].conn = k]
  BY DEF Open
<1>2. /\ mcpTask[t].pc = "open" /\ UNCHANGED <<registryVars, loaded, cache, managerOpen>>
  BY DEF Open
<1>3. /\ mcpTask \in [Tasks -> McpTasks] /\ mcpTask[t] \in McpTasks /\ mcpTask[t].rec # None
      /\ connections \in [1..MaxConnections -> [rev : Nat, config : Nat]]
      /\ cache \in 0..MaxConnections
  BY <1>2 DEF McpInv, McpTyped
<1>4. mcpTask[t].rec \in Registrations /\ k \in 1..MaxConnections
  BY <1>1, <1>3 DEF McpTasks
<1>5. PICK opened : opened = [rev |-> mcpTask[t].rec.rev, config |-> mcpTask[t].rec.config]
  OBVIOUS
<1>6. /\ opened \in [rev : Nat, config : Nat]
      /\ connections' = [connections EXCEPT ![k] = opened]
  BY <1>1, <1>4, <1>5 DEF Registrations
<1>7. PICK next : next = [mcpTask[t] EXCEPT !.pc = "publish", !.conn = k]
  OBVIOUS
<1>8. /\ next \in McpTasks /\ next.pc = "publish" /\ next.conn = k
      /\ next.rec = mcpTask[t].rec /\ next.why = mcpTask[t].why /\ next.tool = mcpTask[t].tool
      /\ next.wanted = mcpTask[t].wanted
  <2>1. k \in 0..MaxConnections
    BY <1>4
  <2> QED
    BY <1>3, <1>7, <2>1 DEF McpTasks
<1>9. mcpTask' = [mcpTask EXCEPT ![t] = next]
  BY <1>1, <1>3, <1>7
<1>10. /\ mcpTask'[t] = next /\ \A u \in Tasks \ {t} : mcpTask'[u] = mcpTask[u]
       /\ connections'[k] = opened
       /\ \A j \in 1..MaxConnections \ {k} : connections'[j] = connections[j]
       /\ connections' \in [1..MaxConnections -> [rev : Nat, config : Nat]]
  BY <1>3, <1>4, <1>6, <1>9
<1>11. k # cache /\ \A u \in Tasks : mcpTask[u].conn # k
  BY <1>1 DEF Unused
<1>12. \A r, c : Seen(r, c)' => Seen(r, c)
  <2>1. \A r, c : SeenBy(t, r, c)' => SeenBy(t, r, c)
    BY <1>8, <1>10 DEF SeenBy
  <2>2. \A r, c : \A u \in Tasks \ {t} : SeenBy(u, r, c)' => SeenBy(u, r, c)
    BY <1>10 DEF SeenBy
  <2>3. \A r, c : SeenIn(k, r, c)' => SeenBy(t, r, c)
    BY <1>3, <1>5, <1>10 DEF SeenIn, SeenBy
  <2>4. \A r, c : \A j \in 1..MaxConnections \ {k} : SeenIn(j, r, c)' => SeenIn(j, r, c)
    BY <1>10 DEF SeenIn
  <2>5. \A r, c : (SeenLoaded(r, c)' => SeenLoaded(r, c)) /\ (SeenRegistered(r, c)' => SeenRegistered(r, c))
    BY <1>2 DEF SeenLoaded, SeenRegistered, registryVars
  <2> QED
    BY <2>1, <2>2, <2>3, <2>4, <2>5 DEF Seen
<1>13. \A u \in Tasks : ConnectionFits(u)'
  <2>1. ConnectionFits(t)'
    BY <1>5, <1>8, <1>10 DEF ConnectionFits
  <2>2. ASSUME NEW u \in Tasks \ {t}
        PROVE  ConnectionFits(u)'
    <3>1. mcpTask[u].conn \in 0..MaxConnections /\ mcpTask[u].conn # k /\ ConnectionFits(u)
      BY <1>3, <1>11 DEF McpInv, McpTasks
    <3> QED
      BY <1>10, <3>1 DEF ConnectionFits, Alive
  <2> QED
    BY <2>1, <2>2
<1>14. RecordIsCurrent(t)'
  <2>1. RecordIsCurrent(t)
    BY DEF McpInv
  <2> QED
    BY <1>2, <1>8, <1>10, <2>1 DEF RecordIsCurrent, Opening, registryVars
<1>15. CacheIsCurrent'
  BY <1>2, <1>3, <1>10, <1>11 DEF McpInv, CacheIsCurrent, Alive, registryVars
<1>16. NoConnectionLeaks'
  <2> SUFFICES ASSUME NEW j \in 1..MaxConnections, connections'[j].config # 0
               PROVE  \/ managerOpen /\ j = cache
                      \/ \E u \in Tasks : mcpTask'[u].pc = "publish" /\ mcpTask'[u].conn = j
    BY <1>2, <1>10 DEF NoConnectionLeaks, Alive
  <2>1. CASE j = k
    BY <1>8, <1>10, <2>1
  <2>2. CASE j # k
    <3>1. Alive(j) /\ j \in DOMAIN connections
      BY <1>3, <1>10, <2>2 DEF Alive
    <3>2. \A u \in Tasks : mcpTask[u].pc = "publish" => u # t
      BY <1>2
    <3> QED
      BY <1>10, <3>1, <3>2 DEF McpInv, NoConnectionLeaks
  <2> QED
    BY <2>1, <2>2
<1>17. next.why = "enable" => \A u \in Tasks \ {t} : mcpTask[u].why # "enable"
  BY <1>8 DEF McpInv
<1> QED
  BY <1>2, <1>3, <1>8, <1>9, <1>10, <1>12, <1>13, <1>14, <1>15, <1>16, <1>17, TaskGoesOnKeeps

\* What was opened is cached in place of what is cached, or closed when that has its revision.
LEMMA PublishKeeps ==
  ASSUME McpInv, NEW t \in Tasks, Publish(t)
  PROVE  McpInv'
<1>1. PICK new : new = mcpTask[t].conn
  OBVIOUS
<1>2. /\ mcpTask[t].pc = "publish" /\ managerOpen /\ mcpTask[t].wanted
      /\ UNCHANGED <<registryVars, loaded, managerOpen>>
  BY DEF Publish, StillWanted
<1>3. /\ mcpTask \in [Tasks -> McpTasks] /\ mcpTask[t] \in McpTasks /\ mcpTask[t].rec # None
      /\ connections \in [1..MaxConnections -> [rev : Nat, config : Nat]]
      /\ cache \in 0..MaxConnections /\ new \in 0..MaxConnections
      /\ McpTyped /\ ConnectionFits(t) /\ RecordIsCurrent(t) /\ CacheIsCurrent
  BY <1>1, <1>2 DEF McpInv, McpTyped, McpTasks
<1>4. PICK conn \in 0..MaxConnections :
        /\ \/ /\ conn = cache /\ cache # 0 /\ connections[cache].rev = mcpTask[t].rec.rev
              /\ connections' = Closed({new}) /\ cache' = cache
           \/ conn = new /\ connections' = Closed({cache}) /\ cache' = new
        /\ mcpTask' = [mcpTask EXCEPT ![t] = [mcpTask[t] EXCEPT !.pc = "use", !.conn = conn]]
  <2>1. CASE cache # 0 /\ connections[cache].rev = mcpTask[t].rec.rev
    BY <1>1, <1>3, <2>1 DEF Publish
  <2>2. CASE ~(cache # 0 /\ connections[cache].rev = mcpTask[t].rec.rev)
    <3>1. /\ connections' = Closed({cache}) /\ cache' = new
          /\ mcpTask' = [mcpTask EXCEPT ![t].pc = "use"]
      BY <1>1, <2>2 DEF Publish
    <3>2. [mcpTask[t] EXCEPT !.pc = "use"] = [mcpTask[t] EXCEPT !.pc = "use", !.conn = new]
      BY <1>1, <1>3 DEF McpTasks
    <3> QED
      BY <1>3, <3>1, <3>2
  <2> QED
    BY <2>1, <2>2
<1>5. PICK next : next = [mcpTask[t] EXCEPT !.pc = "use", !.conn = conn]
  OBVIOUS
<1>6. /\ next \in McpTasks /\ next.pc = "use" /\ next.conn = conn
      /\ next.rec = mcpTask[t].rec /\ next.why = mcpTask[t].why /\ next.tool = mcpTask[t].tool
      /\ next.wanted = mcpTask[t].wanted
  BY <1>3, <1>5 DEF McpTasks
<1>7. mcpTask' = [mcpTask EXCEPT ![t] = next]
  BY <1>4, <1>5
<1>8. /\ mcpTask'[t] = next /\ \A u \in Tasks \ {t} : mcpTask'[u] = mcpTask[u]
  BY <1>3, <1>7
<1>9. /\ connections' \in [1..MaxConnections -> [rev : Nat, config : Nat]] /\ OnlyEnds
      /\ \A j \in 1..MaxConnections : j \notin {new, cache} => connections'[j] = connections[j]
      /\ cache' \in 0..MaxConnections
      /\ conn = new \/ EndsAt(new)
      /\ conn = cache \/ EndsAt(cache)
      /\ cache' = conn
  <2>1. CASE connections' = Closed({new})
    BY <1>3, <1>4, <2>1, ClosedEffect DEF Closed
  <2>2. CASE connections' = Closed({cache})
    BY <1>3, <1>4, <2>2, ClosedEffect DEF Closed
  <2>3. cache' = conn /\ (conn = new \/ EndsAt(new)) /\ (conn = cache \/ EndsAt(cache))
    BY <1>3, <1>4, ClosedEffect
  <2> QED
    BY <1>3, <1>4, <2>1, <2>2, <2>3
<1>10. \A r, c : Seen(r, c)' => Seen(r, c)
  <2>1. \A r, c : SeenBy(t, r, c)' => Seen(r, c)
    BY <1>6, <1>8 DEF SeenBy, Seen
  <2>2. \A r, c : SeenLoaded(r, c)' => Seen(r, c)
    BY <1>2 DEF SeenLoaded, Seen
  <2>3. \A r, c : Seen(r, c)' => Seen(r, c) \/ SeenRegistered(r, c)'
    <3>1. OthersGoOn(t)
      BY <1>8 DEF OthersGoOn
    <3> QED
      BY <1>9, <2>1, <2>2, <3>1, SeenShrinks
  <2> QED
    BY <1>2, <2>3 DEF Seen, SeenRegistered, registryVars
<1>11. connections[conn].rev = mcpTask[t].rec.rev \/ ~Alive(conn)
  BY <1>1, <1>2, <1>3, <1>4 DEF ConnectionFits
<1>12. \A u \in Tasks : ConnectionFits(u)'
  <2>1. ConnectionFits(t)'
    BY <1>6, <1>8, <1>9, <1>11 DEF ConnectionFits, Alive, OnlyEnds
  <2>2. ASSUME NEW u \in Tasks \ {t}
        PROVE  ConnectionFits(u)'
    <3>1. mcpTask[u].conn \in 0..MaxConnections /\ ConnectionFits(u)
      BY <1>3 DEF McpInv, McpTasks
    <3> QED
      BY <1>8, <1>9, <3>1 DEF ConnectionFits, OnlyEnds, Alive
  <2> QED
    BY <2>1, <2>2
<1>13. RecordIsCurrent(t)'
  BY <1>2, <1>3, <1>6, <1>8 DEF RecordIsCurrent, Opening, registryVars
<1>14. CacheIsCurrent'
  <2>1. CASE conn = cache
    <3>1. Alive(cache)' => Alive(cache) /\ connections'[cache] = connections[cache]
      BY <1>3, <1>9, <2>1 DEF Alive, OnlyEnds
    <3> QED
      BY <1>2, <1>3, <1>9, <2>1, <3>1 DEF CacheIsCurrent, registryVars
  <2>2. CASE conn = new
    <3>1. Alive(new)' => Alive(new) /\ connections'[new] = connections[new]
      BY <1>3, <1>9 DEF Alive, OnlyEnds
    <3>2. Alive(new) => connections[new].config = mcpTask[t].rec.config
      BY <1>1, <1>2, <1>3 DEF ConnectionFits
    <3>3. mishap = "foreign" \/ (server # None /\ mcpTask[t].rec.config = server.config)
      BY <1>2, <1>3 DEF RecordIsCurrent, Opening
    <3>4. cache' = new /\ server' = server /\ mishap' = mishap
      BY <1>2, <1>9, <2>2 DEF registryVars
    <3> QED
      BY <3>1, <3>2, <3>3, <3>4 DEF CacheIsCurrent, Alive
  <2> QED
    BY <1>4, <2>1, <2>2
<1>15. NoConnectionLeaks'
  <2> SUFFICES ASSUME NEW j \in 1..MaxConnections, connections'[j].config # 0
               PROVE  \/ managerOpen /\ j = cache'
                      \/ \E u \in Tasks : mcpTask'[u].pc = "publish" /\ mcpTask'[u].conn = j
    BY <1>2, <1>9 DEF NoConnectionLeaks, Alive
  <2>1. j # 0 /\ Alive(j) /\ j \in DOMAIN connections
    BY <1>3, <1>9 DEF OnlyEnds, Alive
  <2>2. CASE j = cache
    BY <1>2, <1>9, <2>1, <2>2 DEF EndsAt
  <2>3. ASSUME NEW u \in Tasks, mcpTask[u].pc = "publish", mcpTask[u].conn = j
        PROVE  \/ managerOpen /\ j = cache'
               \/ \E v \in Tasks : mcpTask'[v].pc = "publish" /\ mcpTask'[v].conn = j
    <3>1. CASE u = t
      BY <1>1, <1>2, <1>9, <2>1, <2>3, <3>1 DEF EndsAt
    <3> QED
      BY <1>8, <2>3, <3>1
  <2> QED
    BY <2>1, <2>2, <2>3 DEF McpInv, NoConnectionLeaks
<1>16. next.why = "enable" => \A u \in Tasks \ {t} : mcpTask[u].why # "enable"
  BY <1>6 DEF McpInv
<1> QED
  BY <1>2, <1>3, <1>6, <1>7, <1>9, <1>10, <1>12, <1>13, <1>14, <1>15, <1>16, TaskGoesOnKeeps

\* Connections end without a task's doing.
LEMMA EndedKeeps ==
  ASSUME McpInv, OnlyEnds, UNCHANGED <<server, installs, proof, loaded, mcpTask>>,
         connections' \in [1..MaxConnections -> [rev : Nat, config : Nat]],
         mishap' = "foreign" \/ (mishap # "foreign" /\ mishap' # "foreign") \/ mishap' = mishap,
         \/ UNCHANGED <<cache, managerOpen>>
         \/ cache' = 0 /\ EndsAt(cache)
  PROVE  McpInv'
<1>1. /\ McpTyped /\ mcpTask \in [Tasks -> McpTasks] /\ cache \in 0..MaxConnections
      /\ connections \in [1..MaxConnections -> [rev : Nat, config : Nat]]
  BY DEF McpInv, McpTyped
<1>2. McpTyped' /\ RegistryTyped'
  BY McpAssumption DEF McpInv, McpTyped, RegistryTyped
<1>3. RevisionsTell'
  <2>1. \A r, c : Seen(r, c)' => Seen(r, c)
    BY DEF Seen, SeenRegistered, SeenLoaded, SeenIn, SeenBy, OnlyEnds
  <2> QED
    BY <2>1, TellKeeps DEF McpInv
<1>4. \A u \in Tasks : ConnectionFits(u)'
  <2> SUFFICES ASSUME NEW u \in Tasks
               PROVE  ConnectionFits(u)'
    OBVIOUS
  <2>1. mcpTask[u].conn \in 0..MaxConnections /\ ConnectionFits(u)
    BY <1>1 DEF McpInv, McpTasks
  <2> QED
    BY <2>1 DEF ConnectionFits, OnlyEnds, Alive
<1>5. \A u \in Tasks : RecordIsCurrent(u)'
  BY DEF McpInv, RecordIsCurrent, Opening
<1>6. CacheIsCurrent'
  BY <1>1 DEF McpInv, CacheIsCurrent, Alive, OnlyEnds
<1>7. NoConnectionLeaks'
  <2> SUFFICES ASSUME NEW j \in 1..MaxConnections, connections'[j].config # 0
               PROVE  \/ managerOpen' /\ j = cache'
                      \/ \E u \in Tasks : mcpTask[u].pc = "publish" /\ mcpTask[u].conn = j
    BY DEF NoConnectionLeaks, Alive
  <2>1. j # 0 /\ Alive(j) /\ j \in DOMAIN connections
    BY <1>1 DEF OnlyEnds, Alive
  <2> QED
    BY <2>1 DEF McpInv, NoConnectionLeaks, EndsAt
<1>8. EnabledWasTested'
  BY DEF McpInv, EnabledWasTested
<1> QED
  BY <1>2, <1>3, <1>4, <1>5, <1>6, <1>7, <1>8 DEF McpInv

\* Another process changes the registration.
LEMMA ElsewhereKeeps ==
  ASSUME McpInv, Elsewhere
  PROVE  McpInv'
<1>1. /\ mishap' = "foreign" /\ UNCHANGED <<proof, loaded, connections, cache, mcpTask, managerOpen>>
      /\ \/ \E enabled \in BOOLEAN : Upserted(enabled)
         \/ server # None /\ \E value \in BOOLEAN : EnabledAs(value)
         \/ server # None /\ Removed
  BY DEF Elsewhere
<1>2. \A r, c : Seen(r, c)' => Seen(r, c) \/ SeenRegistered(r, c)'
  BY <1>1 DEF Seen, SeenLoaded, SeenIn, SeenBy
<1>3. RegistryTyped' /\ RevisionsTell'
  BY <1>1, <1>2, RegistryKeeps DEF McpInv
<1>4. McpTyped' /\ NoConnectionLeaks' /\ \A u \in Tasks : ConnectionFits(u)'
  BY <1>1 DEF McpInv, McpTyped, NoConnectionLeaks, ConnectionFits, Alive
<1>5. (\A u \in Tasks : RecordIsCurrent(u)') /\ CacheIsCurrent' /\ EnabledWasTested'
  BY <1>1 DEF RecordIsCurrent, CacheIsCurrent, EnabledWasTested
<1> QED
  BY <1>1, <1>3, <1>4, <1>5 DEF McpInv

\* The invariant of the capability holds.
LEMMA McpInvHolds == McpSpec => []McpInv
<1>1. McpInit => McpInv
  <2> SUFFICES ASSUME McpInit
               PROVE  McpInv
    OBVIOUS
  <2>1. RegistryTyped
    BY DEF McpInit, RegistryTyped
  <2>2. McpTyped
    <3>1. MIdle \in McpTasks /\ Ended \in [rev : Nat, config : Nat]
      BY McpAssumption DEF MIdle, McpTasks, Ended
    <3> QED
      BY <3>1, McpAssumption DEF McpInit, McpTyped, MIdle
  <2>3. \A r, c : ~Seen(r, c)
    BY DEF McpInit, Seen, SeenRegistered, SeenLoaded, SeenIn, SeenBy, MIdle, Ended
  <2>4. RevisionsTell
    BY <2>3 DEF McpInit, RevisionsTell
  <2>5. \A u \in Tasks : ConnectionFits(u) /\ RecordIsCurrent(u) /\ mcpTask[u].why # "enable"
    BY DEF McpInit, ConnectionFits, RecordIsCurrent, Opening, Alive, MIdle
  <2>6. CacheIsCurrent /\ NoConnectionLeaks /\ EnabledWasTested
    BY DEF McpInit, CacheIsCurrent, NoConnectionLeaks, EnabledWasTested, Alive, Ended
  <2> QED
    BY <2>1, <2>2, <2>4, <2>5, <2>6 DEF McpInv
<1>2. McpInv /\ [McpNext]_mcpVars => McpInv'
  <2> SUFFICES ASSUME McpInv, [McpNext]_mcpVars
               PROVE  McpInv'
    OBVIOUS
  <2>1. ASSUME NEW t \in Tasks, Management(t)
        PROVE  McpInv'
    BY <2>1, ManageKeeps, EnableKeeps, EndingsKeep, EnsureKeeps DEF Management
  <2>2. ASSUME NEW t \in Tasks, Connecting(t)
        PROVE  McpInv'
    BY <2>2, EndingsKeep, EnsureKeeps, OpenKeeps, PublishKeeps DEF Connecting
  <2>3. McpTyped /\ connections \in [1..MaxConnections -> [rev : Nat, config : Nat]]
        /\ cache \in 0..MaxConnections
    BY DEF McpInv, McpTyped
  <2>4. CASE OwnerEnds
    <3>1. PICK k \in DOMAIN connections : connections' = Gone({k})
      BY <2>4 DEF OwnerEnds
    <3>2. OnlyEnds /\ connections' \in [1..MaxConnections -> [rev : Nat, config : Nat]]
      BY <2>3, <3>1, GoneEffect
    <3> QED
      BY <2>4, <3>2, EndedKeeps DEF OwnerEnds
  <2>5. CASE CloseManager
    <3>1. /\ OnlyEnds /\ connections' \in [1..MaxConnections -> [rev : Nat, config : Nat]]
          /\ EndsAt(cache)
      BY <2>3, <2>5, ClosedEffect DEF CloseManager
    <3> QED
      BY <2>5, <3>1, EndedKeeps DEF CloseManager, registryVars
  <2>6. CASE UNCHANGED mcpVars
    <3>1. OnlyEnds /\ connections' = connections
      BY <2>6 DEF mcpVars, OnlyEnds
    <3> QED
      BY <2>3, <2>6, <3>1, EndedKeeps DEF mcpVars, registryVars
  <2> QED
    BY <2>1, <2>2, <2>4, <2>5, <2>6, ElsewhereKeeps DEF McpNext
<1>3. QED
  BY <1>1, <1>2, PTL DEF McpSpec

\* For any number of tasks, connections and configurations, and however a change, a close, a
\* broken transport and a cancellation fall into what is opened and tested (client_manager.py,
\* application.py): what runs is cached, what is cached is current, and what is called or
\* enabled is what was loaded or tested.
THEOREM ConnectionsStayCurrent == McpSpec => []ServersAreCurrent
<1>1. McpInv => ServersAreCurrent
  <2> SUFFICES ASSUME McpInv, NEW t \in Tasks, Calling(t)
               PROVE  LET c == connections[mcpTask[t].conn].config
                      IN  c = mcpTask[t].tool \/ installs[c] # installs[mcpTask[t].tool]
    BY DEF McpInv, ServersAreCurrent, OnlyReinstallSwitches
  <2>1. PICK k : k = mcpTask[t].conn
    OBVIOUS
  <2>2. /\ mcpTask[t].rec # None /\ k \in 1..MaxConnections
        /\ connections[k].config # 0 /\ connections[k].rev = mcpTask[t].rec.rev
    BY <2>1 DEF McpInv, McpTyped, McpTasks, Calling, ConnectionFits, Alive
  <2>3. Seen(mcpTask[t].rec.rev, connections[k].config)
    BY <2>2 DEF Seen, SeenIn
  <2>4. Seen(mcpTask[t].rec.rev, mcpTask[t].tool)
    BY <2>2 DEF Seen, SeenBy, Calling
  <2> QED
    BY <2>1, <2>3, <2>4 DEF McpInv, RevisionsTell
<1>2. QED
  BY <1>1, McpInvHolds, PTL

-------------------------------------------------------------------------------
\* WorkspaceVersions.

StepRecords ==
  [phase : {"waiting", "started", "done", "rejected"}, target : Nat, before : Nat \cup {None},
   wrote : Nat, base : SUBSET Nat, orderly : BOOLEAN]

VersionTyped ==
  /\ history \in Seq(SUBSET Nat)
  /\ steps \in Seq(StepRecords)
  /\ marks \in [0..Len(steps) -> Nat \cup {None, Lost}]
  /\ sync \in SUBSET (0..Len(steps))
  /\ turn \in {"idle", "opening", "deciding", "closing"}
  /\ rescue \in Rescues \cup {None}

\* Only what is complete is marked, and never with a version that is yet to come.
MarksAreTrue ==
  /\ \A i \in 0..Len(steps) : marks[i] \in Nat => marks[i] <= Latest
  /\ \A i \in 0..Len(steps) : marks[i] # None => i = 0 \/ Settled(i)
  /\ \A i \in sync : marks[i] = None /\ (i = 0 \/ Settled(i))
  /\ turn \in {"idle", "deciding"} => sync = {}

\* What a branch keeps was complete, and what it adds is marked after it began.
BranchIsTrue ==
  rescue # None =>
    /\ rescue.version <= Latest /\ rescue.kept <= Len(steps)
    /\ \A i \in 1..rescue.kept : Settled(i)
    /\ rescue.kept = Len(steps) => rescue.version = Latest
    /\ \A i \in (rescue.kept + 1)..Len(steps) : marks[i] \in Nat => rescue.version <= marks[i]

\* Whose operation was the last: a complete Step's that is marked with it if it is marked at
\* all, or the branch's.
LastOperation ==
  \/ Latest = 0
  \/ rescue # None /\ rescue.version = Latest
  \/ \E i \in 1..Len(steps) : Settled(i) /\ (marks[i] \in Nat => marks[i] = Latest)

\* A Step that was orderly was committed in the version a restore of it goes back to.
CommittedInBaseline(k) ==
  steps[k].orderly =>
    /\ marks[k - 1] \in Nat
    /\ BranchBaseline(k - 1, k) \in 0..Latest
    /\ steps[k].base = InEffect(BranchBaseline(k - 1, k))

\* A call writes, or restores an earlier one.
WritesOrRestores(k) ==
  /\ steps[k].target < k
  /\ steps[k].wrote # 0 => steps[k].target = 0
  /\ steps[k].before # None => steps[k].target # 0 /\ steps[k].before <= Latest

UndoneIsTrue ==
  undone # None =>
    /\ undone.target \in 1..Len(steps)
    /\ steps[undone.target].orderly => undone.left = steps[undone.target].base

VersionInv ==
  /\ VersionTyped
  /\ MarksAreTrue
  /\ BranchIsTrue
  /\ LastOperation
  /\ \A k \in 1..Len(steps) : CommittedInBaseline(k) /\ WritesOrRestores(k)
  /\ UndoneIsTrue

\* The history keeps what it has.
LEMMA HistoryGrows ==
  ASSUME VersionTyped, NEW effects \in SUBSET Nat,
         history' = history \/ history' = Grown(effects)
  PROVE  /\ history' \in Seq(SUBSET Nat) /\ Latest \in Nat /\ Latest' \in {Latest, Latest + 1}
         /\ history' # history => Latest' = Latest + 1
         /\ \A v \in 0..Latest : InEffect(v)' = InEffect(v)
<1>1. history \in Seq(SUBSET Nat) /\ Latest \in Nat
  BY DEF VersionTyped, Latest
<1>2. CASE history' = history
  BY <1>1, <1>2 DEF Latest, InEffect
<1>3. CASE history' = Grown(effects)
  BY <1>1, <1>3 DEF Latest, InEffect, Grown
<1> QED
  BY <1>2, <1>3

\* What is in effect in a version is a set of writes.
LEMMA EffectsTyped ==
  ASSUME VersionTyped, NEW v \in 0..Latest
  PROVE  InEffect(v) \in SUBSET Nat
BY DEF VersionTyped, Latest, InEffect

\* A turn goes on: what a sync is to record is complete, and has no mark.
LEMMA TurnKeeps ==
  ASSUME VersionInv, UNCHANGED <<history, steps, marks, rescue, undone>>,
         turn' \in {"idle", "opening", "deciding", "closing"},
         \/ sync' = {i \in CompleteSteps : marks[i] = None} /\ turn' \in {"opening", "closing"}
         \/ sync' = sync /\ sync = {}
  PROVE  VersionInv'
<1>1. sync' \in SUBSET (0..Len(steps))
  BY DEF VersionInv, VersionTyped, CompleteSteps
<1>2. VersionTyped'
  BY <1>1 DEF VersionInv, VersionTyped
<1>3. MarksAreTrue'
  BY DEF VersionInv, MarksAreTrue, CompleteSteps, Settled, Latest
<1>4. BranchIsTrue' /\ LastOperation' /\ UndoneIsTrue'
  BY DEF VersionInv, BranchIsTrue, LastOperation, UndoneIsTrue, Settled, Latest
<1>5. \A k \in 1..Len(steps) : CommittedInBaseline(k)' /\ WritesOrRestores(k)'
  BY DEF VersionInv, CommittedInBaseline, WritesOrRestores, BranchBaseline, InEffect, Latest
<1> QED
  BY <1>2, <1>3, <1>4, <1>5 DEF VersionInv

\* A mark is recorded where there was none, as the latest version or as lost.
LEMMA RecordKeeps ==
  ASSUME VersionInv, RecordStepVersion
  PROVE  VersionInv'
<1>1. PICK i \in sync :
        /\ sync' = sync \ {i}
        /\ marks' = [marks EXCEPT ![i] = Latest] \/ marks' = [marks EXCEPT ![i] = Lost]
  BY DEF RecordStepVersion
<1>2. UNCHANGED <<history, steps, turn, rescue, undone>>
  BY DEF RecordStepVersion
<1>3. PICK n \in Nat : n = Len(steps) /\ steps \in Seq(StepRecords)
  BY DEF VersionInv, VersionTyped
<1>4. PICK h \in Nat : h = Latest
  BY DEF VersionInv, VersionTyped, Latest
<1>5. PICK mark \in {h, Lost} : marks' = [marks EXCEPT ![i] = mark]
  BY <1>1, <1>4
<1>6. /\ marks \in [0..n -> Nat \cup {None, Lost}] /\ i \in 0..n
      /\ marks[i] = None /\ (i = 0 \/ Settled(i)) /\ None \notin Nat
  BY <1>3, FaultsAssumption DEF VersionInv, VersionTyped, MarksAreTrue
<1>7. /\ marks' \in [0..n -> Nat \cup {None, Lost}]
      /\ marks'[i] = mark /\ (mark \in Nat => mark = h)
      /\ \A j \in 0..n \ {i} : marks'[j] = marks[j]
      /\ \A j \in 0..n : marks[j] \in Nat => marks'[j] = marks[j]
  BY <1>5, <1>6 DEF Lost
<1>8. VersionTyped'
  BY <1>1, <1>2, <1>3, <1>7 DEF VersionInv, VersionTyped
<1>9. MarksAreTrue'
  BY <1>1, <1>2, <1>3, <1>4, <1>6, <1>7 DEF VersionInv, VersionTyped, MarksAreTrue, Settled, Latest
<1>10. BranchIsTrue'
  <2>1. rescue # None => rescue.version \in Nat /\ rescue.kept \in Nat /\ rescue.version <= h
    BY <1>4 DEF VersionInv, VersionTyped, BranchIsTrue, Rescues
  <2>2. rescue # None =>
          \A j \in (rescue.kept + 1)..n : marks'[j] \in Nat => rescue.version <= marks'[j]
    <3> SUFFICES ASSUME rescue # None, NEW j \in (rescue.kept + 1)..n, marks'[j] \in Nat
                 PROVE  rescue.version <= marks'[j]
      OBVIOUS
    <3>1. CASE j = i
      BY <1>7, <2>1, <3>1
    <3>2. CASE j # i
      BY <1>3, <1>7, <2>1, <3>2 DEF VersionInv, BranchIsTrue
    <3> QED
      BY <3>1, <3>2
  <2> QED
    BY <1>2, <1>3, <2>1, <2>2 DEF VersionInv, BranchIsTrue, Settled, Latest
<1>11. LastOperation'
  BY <1>2, <1>3, <1>4, <1>7 DEF VersionInv, LastOperation, Settled, Latest
<1>12. ASSUME NEW k \in 1..n
       PROVE  CommittedInBaseline(k)' /\ WritesOrRestores(k)'
  <2>1. k - 1 \in 0..n
    OBVIOUS
  <2>2. CommittedInBaseline(k) /\ WritesOrRestores(k)
    BY <1>3 DEF VersionInv
  <2>3. marks[k - 1] \in Nat => BranchBaseline(k - 1, k)' = BranchBaseline(k - 1, k)
    BY <1>2, <1>7, <2>1 DEF BranchBaseline
  <2> QED
    BY <1>2, <1>7, <2>1, <2>2, <2>3 DEF CommittedInBaseline, WritesOrRestores, InEffect, Latest
<1>13. UndoneIsTrue'
  BY <1>2 DEF VersionInv, UndoneIsTrue
<1> QED
  BY <1>2, <1>3, <1>8, <1>9, <1>10, <1>11, <1>12, <1>13 DEF VersionInv

\* A call that has not ended goes on: at its end it may have made a version.
LEMMA CallKeeps ==
  ASSUME VersionInv, NEW i \in 1..Len(steps), ~Settled(i),
         NEW new \in StepRecords, steps' = [steps EXCEPT ![i] = new],
         new.target = steps[i].target, new.base = steps[i].base, new.orderly = steps[i].orderly,
         new.wrote # 0 => new.target = 0, new.before # None => new.target # 0 /\ new.before <= Latest,
         NEW effects \in SUBSET Nat, history' = history \/ (history' = Grown(effects) /\ new.phase = "done"),
         UNCHANGED <<marks, sync, turn, rescue>>,
         \/ UNCHANGED undone
         \/ UndoneIsTrue'
  PROVE  VersionInv'
<1>1. PICK n \in Nat : n = Len(steps) /\ steps \in Seq(StepRecords)
  BY DEF VersionInv, VersionTyped
<1>2. /\ steps' \in Seq(StepRecords) /\ Len(steps') = n /\ steps'[i] = new /\ i \in 1..n
      /\ \A j \in 1..n \ {i} : steps'[j] = steps[j]
  BY <1>1
<1>3. /\ history' \in Seq(SUBSET Nat) /\ Latest \in Nat /\ Latest' \in {Latest, Latest + 1}
      /\ history' # history => Latest' = Latest + 1
      /\ \A v \in 0..Latest : InEffect(v)' = InEffect(v)
  BY HistoryGrows DEF VersionInv
<1>4. \A j \in 1..n : Settled(j) => Settled(j)' /\ j # i
  BY <1>2 DEF Settled
<1>5. marks \in [0..n -> Nat \cup {None, Lost}] /\ marks[i] = None /\ marks[i] \notin Nat
  BY <1>1, <1>2, FaultsAssumption DEF VersionInv, VersionTyped, MarksAreTrue
<1>6. VersionTyped'
  BY <1>1, <1>2, <1>3 DEF VersionInv, VersionTyped
<1>7. MarksAreTrue'
  <2>1. \A j \in 0..n : marks[j] \in Nat => marks[j] <= Latest'
    BY <1>1, <1>3 DEF VersionInv, MarksAreTrue
  <2>2. \A j \in 0..n : marks[j] # None => j = 0 \/ Settled(j)'
    BY <1>1, <1>4 DEF VersionInv, MarksAreTrue
  <2>3. \A j \in sync : marks[j] = None /\ (j = 0 \/ Settled(j)')
    BY <1>1, <1>4 DEF VersionInv, MarksAreTrue, VersionTyped
  <2> QED
    BY <1>1, <1>2, <2>1, <2>2, <2>3 DEF VersionInv, MarksAreTrue
<1>8. BranchIsTrue'
  <2> SUFFICES ASSUME rescue # None
               PROVE  BranchIsTrue'
    BY DEF BranchIsTrue
  <2>1. /\ rescue.version \in Nat /\ rescue.kept \in Nat /\ rescue.kept <= n /\ rescue.version <= Latest
        /\ \A j \in 1..rescue.kept : Settled(j)
        /\ \A j \in (rescue.kept + 1)..n : marks[j] \in Nat => rescue.version <= marks[j]
    BY <1>1 DEF VersionInv, VersionTyped, BranchIsTrue, Rescues
  <2>2. ~(i \in 1..rescue.kept)
    BY <2>1
  <2>3. rescue.kept # n
    BY <1>2, <2>1, <2>2
  <2>4. \A j \in 1..rescue.kept : Settled(j)'
    BY <1>4, <2>1
  <2>5. rescue.version <= Latest'
    BY <1>3, <2>1
  <2> QED
    BY <1>2, <2>1, <2>3, <2>4, <2>5 DEF BranchIsTrue
<1>9. LastOperation'
  <2>1. CASE history' = history
    BY <1>1, <1>2, <1>4, <2>1 DEF VersionInv, LastOperation, Latest
  <2>2. CASE history' = Grown(effects) /\ new.phase = "done"
    BY <1>2, <1>5, <2>2 DEF LastOperation, Settled
  <2> QED
    BY <2>1, <2>2
<1>10. ASSUME NEW k \in 1..n
       PROVE  CommittedInBaseline(k)' /\ WritesOrRestores(k)'
  <2>1. CommittedInBaseline(k) /\ WritesOrRestores(k)
    BY <1>1 DEF VersionInv
  <2>2. steps'[k].orderly = steps[k].orderly /\ steps'[k].base = steps[k].base /\ steps'[k].target = steps[k].target
    BY <1>2
  <2>3. BranchBaseline(k - 1, k)' = BranchBaseline(k - 1, k)
    BY DEF BranchBaseline
  <2>4. \A v \in 0..Latest : v \in 0..Latest'
    BY <1>3
  <2>5. CommittedInBaseline(k)'
    BY <1>3, <2>1, <2>2, <2>3, <2>4 DEF CommittedInBaseline
  <2>6. WritesOrRestores(k)'
    <3>1. k \in 1..n /\ steps[k] \in StepRecords /\ steps'[k] \in StepRecords
      BY <1>1, <1>2
    <3>2. steps'[k].before # None => steps'[k].before <= Latest
      BY <1>2, <2>1 DEF WritesOrRestores
    <3>3. steps'[k].before # None => steps'[k].before <= Latest'
      BY <1>3, <3>1, <3>2 DEF StepRecords
    <3> QED
      BY <1>2, <2>1, <2>2, <3>3 DEF WritesOrRestores
  <2> QED
    BY <2>5, <2>6
<1>11. UndoneIsTrue'
  <2>1. CASE UNCHANGED undone
    BY <1>1, <1>2, <2>1 DEF VersionInv, UndoneIsTrue
  <2> QED
    BY <2>1
<1> QED
  BY <1>2, <1>6, <1>7, <1>8, <1>9, <1>10, <1>11 DEF VersionInv

\* A call starts, writes files, or restores an earlier Step.
LEMMA CallsKeep ==
  ASSUME VersionInv, NEW i, Authorize(i) \/ ToolWrites(i) \/ Restore(i)
  PROVE  VersionInv'
<1>1. PICK old \in StepRecords : old = steps[i] /\ i \in 1..Len(steps) /\ steps \in Seq(StepRecords)
  BY DEF Authorize, ToolWrites, Restore, VersionInv, VersionTyped
<1>2. WritesOrRestores(i) /\ VersionTyped /\ Latest \in Nat
  BY <1>1 DEF VersionInv, VersionTyped, Latest
<1>3. UNCHANGED <<marks, sync, turn, rescue>>
  BY DEF Authorize, ToolWrites, Restore
<1>4. CASE Authorize(i)
  <2>1. PICK phase \in {"started", "rejected"} : steps' = [steps EXCEPT ![i].phase = phase]
    BY <1>4 DEF Authorize
  <2>2. PICK new : new = [old EXCEPT !.phase = phase]
    OBVIOUS
  <2>3. /\ new \in StepRecords /\ new.target = old.target /\ new.base = old.base
        /\ new.orderly = old.orderly /\ new.wrote = old.wrote /\ new.before = old.before
    BY <2>2 DEF StepRecords
  <2>4. steps' = [steps EXCEPT ![i] = new]
    BY <1>1, <2>1, <2>2
  <2>5. ~Settled(i) /\ UNCHANGED <<history, undone>>
    BY <1>4 DEF Authorize, Settled
  <2>6. {} \in SUBSET Nat
    OBVIOUS
  <2> QED
    BY <1>1, <1>2, <1>3, <2>3, <2>4, <2>5, <2>6, CallKeeps DEF WritesOrRestores
<1>5. CASE ToolWrites(i)
  <2>1. /\ steps[i].phase = "started" /\ steps[i].target = 0
        /\ history' = Grown(InEffect(Latest) \cup {Latest + 1})
        /\ steps' = [steps EXCEPT ![i].phase = "done", ![i].wrote = Latest + 1]
        /\ UNCHANGED undone
    BY <1>5 DEF ToolWrites
  <2>2. PICK version \in Nat : version = Latest + 1
    BY <1>2
  <2>3. PICK new : new = [old EXCEPT !.phase = "done", !.wrote = version]
    OBVIOUS
  <2>4. /\ new \in StepRecords /\ new.target = old.target /\ new.base = old.base
        /\ new.orderly = old.orderly /\ new.before = old.before /\ new.phase = "done"
    BY <2>3 DEF StepRecords
  <2>5. steps' = [steps EXCEPT ![i] = new]
    BY <1>1, <2>1, <2>2, <2>3
  <2>6. InEffect(Latest) \cup {Latest + 1} \in SUBSET Nat
    BY <1>2, EffectsTyped
  <2>7. ~Settled(i)
    BY <2>1 DEF Settled
  <2>8. (new.wrote # 0 => new.target = 0) /\ (new.before # None => new.target # 0 /\ new.before <= Latest)
    BY <1>1, <1>2, <2>1, <2>4 DEF WritesOrRestores
  <2> QED
    BY <1>1, <1>3, <2>1, <2>4, <2>5, <2>6, <2>7, <2>8, CallKeeps
<1>6. CASE Restore(i)
  <2>1. PICK target \in Nat : target = steps[i].target /\ target \in 1..Len(steps) /\ target # i
    BY <1>1, <1>2, <1>6 DEF Restore, WritesOrRestores, StepRecords
  <2>2. PICK version : version = RestoredVersion(target)
    OBVIOUS
  <2>3. steps[i].phase = "started" /\ steps[i].target # 0 /\ ~Settled(i)
    BY <1>6 DEF Restore, Settled
  <2>4. CASE marks[target - 1] \in {None, Lost}
    <3>1. steps' = [steps EXCEPT ![i].phase = "done"] /\ UNCHANGED <<history, undone>>
      BY <1>6, <2>1, <2>4 DEF Restore
    <3>2. PICK new : new = [old EXCEPT !.phase = "done"]
      OBVIOUS
    <3>3. /\ new \in StepRecords /\ new.target = old.target /\ new.base = old.base
          /\ new.orderly = old.orderly /\ new.wrote = old.wrote /\ new.before = old.before
      BY <3>2 DEF StepRecords
    <3>4. steps' = [steps EXCEPT ![i] = new]
      BY <1>1, <3>1, <3>2
    <3>5. {} \in SUBSET Nat
      OBVIOUS
    <3>6. (new.wrote # 0 => new.target = 0) /\ (new.before # None => new.target # 0 /\ new.before <= Latest)
      BY <1>1, <1>2, <3>3 DEF WritesOrRestores
    <3> QED
      BY <1>1, <1>3, <2>3, <3>1, <3>3, <3>4, <3>5, <3>6, CallKeeps
  <2>5. CASE marks[target - 1] \notin {None, Lost}
    <3>1. /\ history' = IF version = Latest THEN history ELSE Grown(InEffect(version))
          /\ steps' = [steps EXCEPT ![i].phase = "done", ![i].before = Latest]
          /\ undone' = IF steps[target].wrote = 0 THEN None
                       ELSE [target |-> target, left |-> InEffect(version)]
      BY <1>6, <2>1, <2>2, <2>5 DEF Restore
    <3>2. PICK new : new = [old EXCEPT !.phase = "done", !.before = Latest]
      OBVIOUS
    <3>3. /\ new \in StepRecords /\ new.target = old.target /\ new.base = old.base
          /\ new.orderly = old.orderly /\ new.wrote = old.wrote /\ new.phase = "done"
          /\ new.before = Latest
      BY <1>2, <3>2 DEF StepRecords
    <3>4. steps' = [steps EXCEPT ![i] = new]
      BY <1>1, <3>1, <3>2
    <3>5. version \in 0..Latest
      <4>1. steps[target] \in StepRecords /\ WritesOrRestores(target) /\ target - 1 \in 0..Len(steps)
        BY <1>1, <2>1 DEF VersionInv
      <4>2. steps[target].before # None => steps[target].before \in 0..Latest
        BY <1>2, <4>1 DEF WritesOrRestores, StepRecords
      <4>3. marks[target - 1] \in 0..Latest
        BY <1>2, <2>5, <4>1 DEF VersionInv, VersionTyped, MarksAreTrue
      <4>4. rescue # None => rescue.version \in 0..Latest
        BY <1>2 DEF VersionInv, VersionTyped, BranchIsTrue, Rescues
      <4> QED
        BY <2>2, <4>2, <4>3, <4>4 DEF RestoredVersion, BranchBaseline
    <3>6. InEffect(version) \in SUBSET Nat
      BY <1>2, <3>5, EffectsTyped
    <3>7. steps'[target] = steps[target] /\ Len(steps') = Len(steps)
      BY <1>1, <2>1, <3>4
    <3>8. (new.wrote # 0 => new.target = 0) /\ (new.before # None => new.target # 0 /\ new.before <= Latest)
      BY <1>1, <1>2, <2>3, <3>3 DEF WritesOrRestores
    <3>9. UndoneIsTrue'
      <4> SUFFICES ASSUME steps[target].wrote # 0, steps[target].orderly
                   PROVE  InEffect(version) = steps[target].base
        BY <2>1, <3>1, <3>7 DEF UndoneIsTrue
      <4>1. CommittedInBaseline(target) /\ WritesOrRestores(target)
        BY <2>1 DEF VersionInv
      <4>2. version = BranchBaseline(target - 1, target)
        BY <2>2, <4>1 DEF WritesOrRestores, RestoredVersion
      <4> QED
        BY <4>1, <4>2 DEF CommittedInBaseline
    <3> QED
      BY <1>1, <1>3, <2>3, <3>1, <3>3, <3>4, <3>6, <3>8, <3>9, CallKeeps
  <2> QED
    BY <2>4, <2>5
<1> QED
  BY <1>4, <1>5, <1>6

\* A Step is committed: if everything before it is marked in order, its baseline is the latest
\* version.
LEMMA CommitKeeps ==
  ASSUME VersionInv, CommitDecision
  PROVE  VersionInv'
<1>1. PICK n \in Nat : n = Len(steps) /\ steps \in Seq(StepRecords)
  BY DEF VersionInv, VersionTyped
<1>2. VersionTyped /\ Latest \in Nat /\ sync = {}
  BY DEF VersionInv, VersionTyped, MarksAreTrue, Latest, CommitDecision
<1>3. PICK orderly \in BOOLEAN : orderly = Orderly
  BY DEF Orderly
<1>4. PICK target, new :
        /\ target \in {0} \cup {i \in 1..n : Settled(i)}
        /\ new = [phase |-> "waiting", target |-> target, before |-> None, wrote |-> 0,
                  base |-> InEffect(Latest), orderly |-> orderly]
        /\ steps' = Append(steps, new)
  <2>1. PICK target \in {0} \cup {i \in 1..n : Settled(i)} :
          steps' = Append(steps, [phase |-> "waiting", target |-> target, before |-> None,
                                  wrote |-> 0, base |-> InEffect(Latest), orderly |-> Orderly])
    BY <1>1 DEF CommitDecision
  <2>2. PICK new : new = [phase |-> "waiting", target |-> target, before |-> None, wrote |-> 0,
                          base |-> InEffect(Latest), orderly |-> orderly]
    OBVIOUS
  <2> QED
    BY <1>3, <2>1, <2>2
<1>5. new \in StepRecords
  <2>1. InEffect(Latest) \in SUBSET Nat
    BY <1>2, EffectsTyped
  <2>2. None \in Nat \cup {None} /\ target \in Nat
    BY <1>4
  <2> QED
    BY <1>3, <1>4, <2>1, <2>2 DEF StepRecords
<1>6. /\ steps' \in Seq(StepRecords) /\ Len(steps') = n + 1 /\ steps'[n + 1] = new
      /\ \A j \in 1..n : steps'[j] = steps[j]
  BY <1>1, <1>4, <1>5
<1>7. /\ marks \in [0..n -> Nat \cup {None, Lost}]
      /\ marks' = [i \in 0..(n + 1) |-> IF i \in 0..n THEN marks[i] ELSE None]
  BY <1>1 DEF VersionInv, VersionTyped, CommitDecision
<1>8. /\ marks' \in [0..(n + 1) -> Nat \cup {None, Lost}]
      /\ marks'[n + 1] = None /\ None \notin Nat
      /\ \A j \in 0..n : marks'[j] = marks[j]
  BY <1>7, FaultsAssumption
<1>9. /\ UNCHANGED <<history, rescue, undone>> /\ turn' = "closing"
      /\ sync' = {i \in CompleteSteps : marks[i] = None}
  BY DEF CommitDecision, BeginSync
<1>10. \A j \in 1..n : Settled(j)' <=> Settled(j)
  BY <1>6 DEF Settled
<1>11. CompleteSteps = {0} \cup {i \in 1..n : Settled(i)}
  BY <1>1 DEF CompleteSteps
<1>12. VersionTyped'
  <2>1. sync' \in SUBSET (0..(n + 1))
    BY <1>9, <1>11
  <2> QED
    BY <1>2, <1>6, <1>8, <1>9, <2>1 DEF VersionTyped
<1>13. MarksAreTrue'
  <2>1. \A i \in 0..(n + 1) : marks'[i] \in Nat => marks'[i] <= Latest
    BY <1>1, <1>8 DEF VersionInv, MarksAreTrue
  <2>2. \A i \in 0..(n + 1) : marks'[i] # None => i = 0 \/ Settled(i)'
    BY <1>1, <1>8, <1>10 DEF VersionInv, MarksAreTrue
  <2>3. \A i \in sync' : marks'[i] = None /\ (i = 0 \/ Settled(i)')
    BY <1>8, <1>9, <1>10, <1>11
  <2> QED
    BY <1>6, <1>9, <2>1, <2>2, <2>3 DEF MarksAreTrue, Latest
<1>14. BranchIsTrue'
  <2> SUFFICES ASSUME rescue # None
               PROVE  BranchIsTrue'
    BY <1>9 DEF BranchIsTrue
  <2>1. /\ rescue.version \in Nat /\ rescue.kept \in Nat /\ rescue.kept <= n /\ rescue.version <= Latest
        /\ \A j \in 1..rescue.kept : Settled(j)
        /\ \A j \in (rescue.kept + 1)..n : marks[j] \in Nat => rescue.version <= marks[j]
    BY <1>1, <1>2 DEF VersionInv, VersionTyped, BranchIsTrue, Rescues
  <2>2. \A j \in (rescue.kept + 1)..(n + 1) : marks'[j] \in Nat => rescue.version <= marks'[j]
    BY <1>8, <2>1
  <2>3. \A j \in 1..rescue.kept : Settled(j)'
    BY <1>10, <2>1
  <2> QED
    BY <1>6, <1>9, <2>1, <2>2, <2>3 DEF BranchIsTrue, Latest
<1>15. LastOperation'
  <2>1. \A j \in 1..n : j \in 1..(n + 1)
    OBVIOUS
  <2> QED
    BY <1>1, <1>6, <1>8, <1>9, <1>10, <2>1 DEF VersionInv, LastOperation, Latest
<1>16. ASSUME NEW k \in 1..n
       PROVE  CommittedInBaseline(k)' /\ WritesOrRestores(k)'
  <2>1. CommittedInBaseline(k) /\ WritesOrRestores(k) /\ k - 1 \in 0..n
    BY <1>1 DEF VersionInv
  <2>2. BranchBaseline(k - 1, k)' = BranchBaseline(k - 1, k)
    BY <1>8, <1>9, <2>1 DEF BranchBaseline
  <2> QED
    BY <1>6, <1>8, <1>9, <2>1, <2>2 DEF CommittedInBaseline, WritesOrRestores, InEffect, Latest
<1>17. CommittedInBaseline(n + 1)'
  <2> SUFFICES ASSUME Orderly
               PROVE  /\ marks[n] \in Nat
                      /\ BranchBaseline(n, n + 1)' = Latest
    BY <1>2, <1>3, <1>4, <1>6, <1>8, <1>9 DEF CommittedInBaseline, InEffect, Latest
  <2>1. \A j \in 0..n : marks[j] \in Nat /\ marks[j] <= Latest /\ marks[j] <= marks[n]
    BY <1>1, <1>2, <1>7 DEF Orderly
  <2>2. marks[n] \in Nat /\ marks'[n] = marks[n] /\ marks[n] <= Latest
    BY <1>8, <2>1
  <2>3. CASE rescue # None /\ rescue.kept = n
    BY <1>1, <1>9, <2>2, <2>3 DEF VersionInv, BranchIsTrue, BranchBaseline
  <2>4. CASE ~(rescue # None /\ rescue.kept = n)
    <3>1. rescue # None => rescue.kept \in Nat /\ rescue.kept < n /\ rescue.version \in Nat
      BY <1>1, <1>2, <2>4 DEF VersionInv, VersionTyped, BranchIsTrue, Rescues
    <3>2. BranchBaseline(n, n + 1)' = marks[n]
      BY <1>9, <2>2, <3>1 DEF BranchBaseline
    <3>3. CASE Latest = 0
      BY <2>2, <3>2, <3>3
    <3>4. CASE rescue # None /\ rescue.version = Latest
      <4>1. n \in (rescue.kept + 1)..n
        BY <3>1, <3>4
      <4>2. rescue.version <= marks[n]
        BY <1>1, <2>2, <3>4, <4>1 DEF VersionInv, BranchIsTrue
      <4> QED
        BY <1>2, <2>2, <3>2, <3>4, <4>2
    <3>5. ASSUME NEW j \in 1..n, marks[j] = Latest
          PROVE  BranchBaseline(n, n + 1)' = Latest
      <4>1. j \in 0..n
        OBVIOUS
      <4> QED
        BY <1>2, <2>1, <2>2, <3>2, <3>5, <4>1
    <3>6. \A j \in 1..n : marks[j] \in Nat
      BY <2>1
    <3> QED
      BY <1>1, <2>2, <3>3, <3>4, <3>5, <3>6 DEF VersionInv, LastOperation
  <2> QED
    BY <2>2, <2>3, <2>4
<1>18. WritesOrRestores(n + 1)'
  BY <1>4, <1>6 DEF WritesOrRestores
<1>19. UndoneIsTrue'
  BY <1>1, <1>6, <1>9 DEF VersionInv, UndoneIsTrue
<1>20. \A k \in 1..(n + 1) : CommittedInBaseline(k)' /\ WritesOrRestores(k)'
  <2>1. \A k \in 1..(n + 1) : k \in 1..n \/ k = n + 1
    OBVIOUS
  <2> QED
    BY <1>16, <1>17, <1>18, <2>1
<1> QED
  BY <1>6, <1>12, <1>13, <1>14, <1>15, <1>19, <1>20 DEF VersionInv

\* A branch begins: what it keeps is complete, and its own history begins at its latest version.
LEMMA ForkKeeps ==
  ASSUME VersionInv, NEW kept, Fork(kept)
  PROVE  VersionInv'
<1>1. PICK n \in Nat : n = Len(steps) /\ steps \in Seq(StepRecords)
  BY DEF VersionInv, VersionTyped
<1>2. /\ VersionTyped /\ Latest \in Nat /\ rescue = None /\ turn = "idle" /\ sync = {}
      /\ kept \in 1..n /\ \A i \in 1..kept : Settled(i)
      /\ marks[kept] \in 0..Latest /\ undone' = None /\ UNCHANGED <<sync, turn>>
  BY <1>1 DEF VersionInv, VersionTyped, MarksAreTrue, Latest, Fork
<1>3. PICK effects \in SUBSET Nat : history' = history \/ history' = Grown(effects)
  <2>1. InEffect(marks[kept]) \in SUBSET Nat
    BY <1>2, EffectsTyped
  <2> QED
    BY <2>1 DEF Fork
<1>4. /\ history' \in Seq(SUBSET Nat) /\ Latest' \in {Latest, Latest + 1}
      /\ \A v \in 0..Latest : InEffect(v)' = InEffect(v)
  BY <1>2, <1>3, HistoryGrows
<1>5. /\ steps' \in Seq(StepRecords) /\ Len(steps') = kept
      /\ \A j \in 1..kept : steps'[j] = steps[j]
  <2>1. steps' = SubSeq(steps, 1, kept)
    BY DEF Fork
  <2> QED
    BY <1>1, <1>2, <2>1
<1>6. /\ marks \in [0..n -> Nat \cup {None, Lost}] /\ marks' = [i \in 0..kept |-> marks[i]]
  BY <1>1, <1>2 DEF VersionTyped, Fork
<1>7. marks' \in [0..kept -> Nat \cup {None, Lost}] /\ \A j \in 0..kept : marks'[j] = marks[j] /\ j \in 0..n
  BY <1>2, <1>6
<1>8. /\ rescue' = [kept |-> kept, version |-> Latest'] /\ rescue' \in Rescues /\ rescue' # None
      /\ rescue'.kept = kept /\ rescue'.version = Latest'
  <2>1. rescue' = [kept |-> kept, version |-> Latest']
    BY DEF Fork, Latest
  <2>2. rescue' \in Rescues
    BY <1>2, <1>4, <2>1 DEF Rescues
  <2> QED
    BY <2>1, <2>2, WorkspaceVersionsAssumption
<1>9. \A j \in 1..kept : Settled(j)'
  BY <1>2, <1>5 DEF Settled
<1>10. VersionTyped'
  BY <1>2, <1>4, <1>5, <1>7, <1>8 DEF VersionTyped
<1>11. MarksAreTrue'
  <2>1. \A i \in 0..kept : marks'[i] \in Nat => marks'[i] <= Latest'
    BY <1>1, <1>2, <1>4, <1>7 DEF VersionInv, MarksAreTrue
  <2> QED
    BY <1>2, <1>5, <1>9, <2>1 DEF MarksAreTrue
<1>12. BranchIsTrue' /\ LastOperation' /\ UndoneIsTrue'
  BY <1>2, <1>4, <1>5, <1>8, <1>9 DEF BranchIsTrue, LastOperation, UndoneIsTrue
<1>13. ASSUME NEW k \in 1..kept
       PROVE  CommittedInBaseline(k)' /\ WritesOrRestores(k)'
  <2>1. CommittedInBaseline(k) /\ WritesOrRestores(k) /\ k - 1 \in 0..kept
    BY <1>1, <1>2 DEF VersionInv
  <2>2. BranchBaseline(k - 1, k) = marks[k - 1] /\ BranchBaseline(k - 1, k)' = marks[k - 1]
    BY <1>2, <1>7, <1>8, <2>1 DEF BranchBaseline
  <2>3. CommittedInBaseline(k)'
    BY <1>2, <1>4, <1>5, <1>7, <2>1, <2>2 DEF CommittedInBaseline
  <2>4. steps[k] \in StepRecords
    BY <1>1, <1>2
  <2>5. WritesOrRestores(k)'
    BY <1>2, <1>4, <1>5, <2>1, <2>4 DEF WritesOrRestores, StepRecords
  <2> QED
    BY <2>3, <2>5
<1> QED
  BY <1>5, <1>10, <1>11, <1>12, <1>13 DEF VersionInv

\* The invariant of the versions holds in every reachable state.
LEMMA VersionInvHolds == WorkspaceVersionsSpec => []VersionInv
<1>1. WorkspaceVersionsInit => VersionInv
  <2> SUFFICES ASSUME WorkspaceVersionsInit
               PROVE  VersionInv
    OBVIOUS
  <2>1. /\ history = << >> /\ steps = << >> /\ Len(steps) = 0 /\ Latest = 0
        /\ marks = [i \in 0..0 |-> None] /\ sync = {} /\ turn = "idle" /\ rescue = None /\ undone = None
    BY DEF WorkspaceVersionsInit, Latest
  <2>2. VersionTyped
    BY <2>1 DEF VersionTyped
  <2>3. MarksAreTrue /\ BranchIsTrue /\ LastOperation /\ UndoneIsTrue
    BY <2>1, FaultsAssumption DEF MarksAreTrue, BranchIsTrue, LastOperation, UndoneIsTrue
  <2> QED
    BY <2>1, <2>2, <2>3 DEF VersionInv
<1>2. VersionInv /\ [WorkspaceVersionsNext]_versionVars => VersionInv'
  <2> SUFFICES ASSUME VersionInv, [WorkspaceVersionsNext]_versionVars
               PROVE  VersionInv'
    OBVIOUS
  <2>1. CASE BeginStep \/ DecideStep \/ EndAdvance
    BY <2>1, TurnKeeps DEF BeginStep, DecideStep, EndAdvance, BeginSync
  <2>2. CASE UNCHANGED versionVars
    <3>1. UNCHANGED <<history, steps, marks, sync, turn, rescue, undone>>
      BY <2>2 DEF versionVars
    <3> QED
      BY <3>1 DEF VersionInv, VersionTyped, MarksAreTrue, BranchIsTrue, LastOperation, UndoneIsTrue,
         CommittedInBaseline, WritesOrRestores, BranchBaseline, Settled, InEffect, Latest
  <2> QED
    BY <2>1, <2>2, RecordKeeps, CommitKeeps, CallsKeep, ForkKeeps DEF WorkspaceVersionsNext
<1>3. QED
  BY <1>1, <1>2, PTL DEF WorkspaceVersionsSpec

\* For any number of Steps, however authorizations, writes, restores and the recording of
\* versions fall (workspace_versions.py): a Step that was committed with all before it marked
\* in order was committed in the version a restore of it goes back to.
THEOREM RestoresAreExact == WorkspaceVersionsSpec => []OrderlyRestoresAreExact
<1>1. VersionInv => OrderlyRestoresAreExact
  BY DEF VersionInv, UndoneIsTrue, OrderlyRestoresAreExact
<1>2. QED
  BY <1>1, VersionInvHolds, PTL

-------------------------------------------------------------------------------
\* LiveDisplay.  What a page is shown is followed through the pipe: after each signal that is
\* yet to be received, and after all of them, when it must be what the Worker does.

\* What the display signals of a Worker say, and its requests of the Host.
Signals ==
  [kind : {"preview"}, phase : {"started", "delta", "aborted"}, output : Nat]
  \cup [kind : {"thinking"}, phase : {"started", "delta", "finished", "aborted"}, output : Nat]
  \cup [kind : {"tool"}, phase : {"start", "end"}, output : Nat]
  \cup [kind : {"activity"}, phase : {"busy", "idle"}, output : Nat]
  \cup [kind : {"request", "abort"}, phase : {"llm", "output", "other"}, output : Nat]

Replies ==
  [kind : {"delta"}, phase : {"text", "thought"}, output : Nat]
  \cup [kind : {"response"}, op : {"llm", "output"}, phase : {"ok", "failed"}, output : Nat]

Routes == [kind : {"request"}, phase : {"llm", "output", "other"}, output : Nat]

Hubs ==
  [preview : Nat \cup {None}, text : Nat, thinking : Nat \cup {None}, tools : SUBSET Nat,
   running : BOOLEAN]

Records ==
  [preview : Nat \cup {None}, thinking : Nat \cup {None}, tools : SUBSET Nat, running : BOOLEAN]

DisplayTypeOK ==
  /\ process \in {"none", "alive", "dead"}
  /\ trigger \in Nat /\ requests \in Nat
  /\ stream \in {None, "starting", "asking", "heard", "answered", "silent", "again"}
  /\ heldBack \in BOOLEAN
  /\ slot \in Nat \cup {None} /\ thought \in Nat \cup {None}
  /\ delivering \in SUBSET [output : Nat, asked : BOOLEAN]
  /\ running \in SUBSET Nat
  /\ advertised \in BOOLEAN
  /\ toHost \in Seq(Signals) /\ toWorker \in Seq(Replies)
  /\ routes \in SUBSET Routes
  /\ active \in Routes \cup {None}
  /\ hub \in Hubs /\ shown \in Records

\* A signal that changes what is shown of its kind, and what it is then.
Changes(m, kind) == m.kind = kind /\ m.phase # "delta"

Value(m) ==
  IF m.kind = "activity" THEN m.phase ELSE IF m.phase = "started" THEN m.output ELSE None

Activity(on) == IF on THEN "busy" ELSE "idle"

\* What the hub h shows.
Now(h, kind) ==
  CASE kind = "preview" -> h.preview
    [] kind = "thinking" -> h.thinking
    [] OTHER -> Activity(h.running)

\* What the hub h shows is x when it has received what comes before i in the pipe q.
Shows(q, h, i, kind, x) ==
  \/ /\ Now(h, kind) = x
     /\ \A k \in 1..(i - 1) : ~Changes(q[k], kind)
  \/ \E j \in 1..(i - 1) :
       /\ Changes(q[j], kind) /\ Value(q[j]) = x
       /\ \A k \in (j + 1)..(i - 1) : ~Changes(q[k], kind)

Ends(q, h, kind, x) == Shows(q, h, Len(q) + 1, kind, x)

\* A chunk, and the end of a stream, finds the stream it belongs to; a preview that is withdrawn
\* may have been replaced by the final text.
Goes(m) == m.kind \in {"preview", "thinking"} /\ m.phase # "started"

Withdraws(m) == m.kind = "preview" /\ m.phase = "aborted"

Meets(q, h, i, m) ==
  \/ Shows(q, h, i, m.kind, m.output)
  \/ Withdraws(m) /\ Shows(q, h, i, "preview", None)

Streams(q, h) == \A i \in 1..Len(q) : Goes(q[i]) => Meets(q, h, i, q[i])

\* Nothing of the preview of an output but its end comes after the request to deliver it, or
\* while that is handled; the trigger t is decided on later.
Asks(m) == m.kind = "request" /\ m.phase = "output"

Continues(m, y) == m.kind = "preview" /\ m.phase # "aborted" /\ m.output = y

OutputsFollow(q, t, rs) ==
  /\ \A i \in 1..Len(q) : Asks(q[i]) =>
       /\ q[i].output < t
       /\ \A j \in (i + 1)..Len(q) : ~Continues(q[j], q[i].output)
  /\ \A r \in rs : r.phase = "output" =>
       /\ r.output < t
       /\ \A j \in 1..Len(q) : ~Continues(q[j], r.output)

\* A pipe from the Worker that is in order
PipeInOrder(q, h, t, rs) == q \in Seq(Signals) /\ Streams(q, h) /\ OutputsFollow(q, t, rs)

\* A tool that is shown and no longer runs, or will be, has its end in the pipe.
IsTool(m, phase, t) == m.kind = "tool" /\ m.phase = phase /\ m.output = t

ToolsEnd(q, h, ts) ==
  \A t \in Nat \ ts :
    /\ t \in h.tools => \E j \in 1..Len(q) : IsTool(q[j], "end", t)
    /\ \A i \in 1..Len(q) : IsTool(q[i], "start", t) =>
         \E j \in (i + 1)..Len(q) : IsTool(q[j], "end", t)

\* The stream has its preview, of the trigger.
Showing == {"starting", "asking", "heard", "answered"}

\* The emitter and the decision agree.
EmitterInStep ==
  /\ stream \in Showing => slot = trigger
  /\ stream = "silent" => slot = None
  /\ stream = None /\ slot # None => heldBack \/ \E d \in delivering : d.output = slot
  /\ thought # None => thought = trigger /\ stream = "asking"
  /\ stream # None => running = {}
  /\ \A d \in delivering : d.output < trigger
  /\ process # "alive" => Idle /\ ~advertised /\ thought = None /\ slot = None /\ toWorker = <<>>

\* The pipe r has the answer to the delivery of y.
Answering(r, y) ==
  \E i \in 1..Len(r) : r[i].kind = "response" /\ r[i].op = "output" /\ r[i].output = y

AnswersAreLate == \A y : Answering(toWorker, y) => y \in Nat /\ y < trigger

\* What the pipe leaves shown of a Worker that lives is what it does; without a stream that has
\* its preview, what the emitter still holds: an output that is yet to be delivered, or one of
\* a Step that was lost.
Left(q, h, s, r) ==
  \/ Ends(q, h, "preview", None)
  \/ s # None /\ ~Answering(r, s) /\ Ends(q, h, "preview", s)

PipeTellsTheWorker ==
  process = "alive" =>
    /\ Ends(toHost, hub, "thinking", thought)
    /\ Ends(toHost, hub, "activity", Activity(advertised))
    /\ stream \in Showing => Ends(toHost, hub, "preview", trigger)
    /\ stream \notin Showing =>
         Left(toHost, hub, slot, toWorker)
    /\ ToolsEnd(toHost, hub, running)

\* The Host's record of a Worker and the hub agree; nothing is left of one that was closed.
RecordIsTrue ==
  /\ hub.preview = shown.preview /\ hub.thinking = shown.thinking
  /\ hub.running = shown.running /\ hub.tools \subseteq shown.tools
  /\ process = "none" =>
       /\ toHost = <<>> /\ routes = {}
       /\ hub.preview = None /\ hub.thinking = None /\ hub.tools = {} /\ ~hub.running

DisplayInv ==
  /\ DisplayTypeOK
  /\ EmitterInStep /\ AnswersAreLate
  /\ PipeInOrder(toHost, hub, trigger, routes)
  /\ PipeTellsTheWorker
  /\ RecordIsTrue
  /\ EveryChunkHasItsStream

-------------------------------------------------------------------------------
\* The pipe

\* What is posted last changes nothing of what is shown before it, and decides what is shown
\* after it if it changes anything.
LEMMA PostShows ==
  ASSUME NEW q \in Seq(Signals), NEW m \in Signals, NEW h, NEW kind
  PROVE  /\ \A i \in 1..(Len(q) + 1) : \A x :
              Shows(Append(q, m), h, i, kind, x) <=> Shows(q, h, i, kind, x)
         /\ \A x : Ends(Append(q, m), h, kind, x) <=>
              IF Changes(m, kind) THEN Value(m) = x ELSE Ends(q, h, kind, x)
<1> DEFINE p == Append(q, m)
<1>1. /\ Len(p) = Len(q) + 1 /\ Len(q) \in Nat
      /\ \A i \in 1..Len(q) : p[i] = q[i]
      /\ p[Len(q) + 1] = m
  OBVIOUS
<1> HIDE DEF p
<1>2. ASSUME NEW i \in 1..(Len(q) + 1), NEW x
      PROVE  Shows(p, h, i, kind, x) <=> Shows(q, h, i, kind, x)
  <2>1. \A k \in 1..(i - 1) : p[k] = q[k]
    BY <1>1
  <2>2. \A j \in 1..(i - 1) : \A k \in (j + 1)..(i - 1) : k \in 1..(i - 1)
    BY <1>1
  <2>3. QED
    BY <2>1, <2>2 DEF Shows
<1>3. ASSUME NEW x
      PROVE  Ends(p, h, kind, x) <=>
               IF Changes(m, kind) THEN Value(m) = x ELSE Ends(q, h, kind, x)
  <2> DEFINE n == Len(q) + 1
  <2>1. /\ Len(p) + 1 - 1 = n /\ n - 1 = Len(q) /\ p[n] = m /\ n \in 1..n
        /\ \A k \in 1..n : k \in 1..Len(q) \/ k = n
        /\ \A k \in 1..Len(q) : k \in 1..n /\ p[k] = q[k]
        /\ \A j \in 1..Len(q) : \A k \in (j + 1)..n : k \in (j + 1)..Len(q) \/ k = n
        /\ \A j \in 1..Len(q) : \A k \in (j + 1)..Len(q) : k \in (j + 1)..n /\ k \in 1..Len(q)
        /\ \A j \in 1..Len(q) : n \in (j + 1)..n
        /\ \A k \in (n + 1)..n : FALSE
    BY <1>1
  <2> HIDE DEF n
  <2>2. CASE Changes(m, kind)
    BY <2>1, <2>2 DEF Ends, Shows
  <2>3. CASE ~Changes(m, kind)
    BY <2>1, <2>3 DEF Ends, Shows
  <2>4. QED
    BY <2>2, <2>3
<1>4. QED
  BY <1>2, <1>3 DEF p

\* Before anything in the pipe is received, the hub shows what it shows.
LEMMA FirstShows ==
  ASSUME NEW q, NEW h, NEW kind, NEW x
  PROVE  Shows(q, h, 1, kind, x) <=> Now(h, kind) = x
BY DEF Shows

\* When the first signal is received, what comes after it will be shown as before.
LEMMA TakeShows ==
  ASSUME NEW q \in Seq(Signals), q # <<>>, NEW h, NEW g, NEW kind,
         Now(g, kind) = IF Changes(Head(q), kind) THEN Value(Head(q)) ELSE Now(h, kind)
  PROVE  /\ \A i \in 1..Len(q) : \A x :
              Shows(q, h, i + 1, kind, x) => Shows(Tail(q), g, i, kind, x)
         /\ \A x : Ends(q, h, kind, x) => Ends(Tail(q), g, kind, x)
<1> DEFINE p == Tail(q)
<1>1. /\ Len(p) = Len(q) - 1 /\ Len(q) \in Nat \ {0}
      /\ \A i \in 1..Len(p) : p[i] = q[i + 1]
      /\ Head(q) = q[1]
  OBVIOUS
<1> HIDE DEF p
<1>2. ASSUME NEW i \in 1..Len(q), NEW x, Shows(q, h, i + 1, kind, x)
      PROVE  Shows(p, g, i, kind, x)
  <2>1. /\ \A k \in 1..(i - 1) : p[k] = q[k + 1] /\ k + 1 \in 1..((i + 1) - 1)
        /\ 1 \in 1..((i + 1) - 1)
        /\ \A k \in 1..(i - 1) : k + 1 \in (1 + 1)..((i + 1) - 1)
    BY <1>1
  <2>2. CASE Now(h, kind) = x /\ \A k \in 1..((i + 1) - 1) : ~Changes(q[k], kind)
    BY <1>1, <2>1, <2>2 DEF Shows
  <2>3. ASSUME NEW j \in 1..((i + 1) - 1), Changes(q[j], kind), Value(q[j]) = x,
               \A k \in (j + 1)..((i + 1) - 1) : ~Changes(q[k], kind)
        PROVE  Shows(p, g, i, kind, x)
    <3>1. CASE j = 1
      <4>1. Now(g, kind) = x
        BY <1>1, <2>3, <3>1
      <4>2. \A k \in 1..(i - 1) : ~Changes(p[k], kind)
        BY <2>1, <2>3, <3>1
      <4>3. QED
        BY <4>1, <4>2 DEF Shows
    <3>2. CASE j # 1
      <4>1. /\ j - 1 \in 1..(i - 1) /\ (j - 1) + 1 = j
            /\ \A k \in ((j - 1) + 1)..(i - 1) : k \in 1..(i - 1) /\ k + 1 \in (j + 1)..((i + 1) - 1)
        BY <3>2
      <4>2. p[j - 1] = q[j]
        BY <2>1, <4>1
      <4>3. QED
        BY <2>1, <2>3, <4>1, <4>2 DEF Shows
    <3>3. QED
      BY <3>1, <3>2
  <2>4. QED
    BY <1>2, <2>2, <2>3 DEF Shows
<1>3. Len(p) + 1 = Len(q) /\ Len(q) \in 1..Len(q)
  BY <1>1
<1>4. QED
  BY <1>2, <1>3 DEF Ends, p

\* A signal about the stream that is shown may be posted.
Fits(q, h, t, m) ==
  /\ m \in Signals
  /\ Goes(m) => \/ Ends(q, h, m.kind, m.output)
                \/ Withdraws(m) /\ Ends(q, h, "preview", None)
  /\ m.kind = "preview" /\ m.phase # "aborted" => m.output = t
  /\ Asks(m) => m.output < t

\* A signal that is posted
LEMMA Post ==
  ASSUME NEW q, NEW h, NEW t \in Nat, NEW rs, NEW m, PipeInOrder(q, h, t, rs), Fits(q, h, t, m)
  PROVE  PipeInOrder(Append(q, m), h, t, rs)
<1> DEFINE p == Append(q, m)
<1>0. q \in Seq(Signals) /\ m \in Signals /\ Streams(q, h) /\ OutputsFollow(q, t, rs)
  BY DEF PipeInOrder, Fits
<1>1. /\ Len(p) = Len(q) + 1 /\ Len(q) \in Nat
      /\ \A i \in 1..Len(q) : p[i] = q[i]
      /\ p[Len(q) + 1] = m
      /\ p \in Seq(Signals)
  BY <1>0
<1>2. \A i \in 1..Len(p) : i \in 1..Len(q) \/ i = Len(q) + 1
  BY <1>1
<1>3. Streams(p, h)
  <2> SUFFICES ASSUME NEW i \in 1..Len(p), Goes(p[i])
               PROVE  Meets(p, h, i, p[i])
    BY DEF Streams
  <2>1. i \in 1..(Len(q) + 1)
    BY <1>1
  <2>2. Meets(q, h, i, p[i])
    <3>1. CASE i \in 1..Len(q)
      BY <1>0, <1>1, <3>1 DEF Streams
    <3>2. CASE i = Len(q) + 1
      BY <1>1, <3>2 DEF Fits, Ends, Meets
    <3>3. QED
      BY <1>2, <3>1, <3>2
  <2>3. \A kind, x : Shows(q, h, i, kind, x) => Shows(p, h, i, kind, x)
    BY <1>0, <2>1, PostShows
  <2> HIDE DEF p
  <2>4. QED
    BY <2>2, <2>3 DEF Meets
<1> HIDE DEF p
<1>4. OutputsFollow(p, t, rs)
  <2>1. ASSUME NEW i \in 1..Len(p), Asks(p[i])
        PROVE  /\ p[i].output < t
               /\ \A j \in (i + 1)..Len(p) : ~Continues(p[j], p[i].output)
    <3>1. CASE i \in 1..Len(q)
      <4>1. q[i].output < t /\ q[i].output \in Nat
        <5>1. q[i] \in Signals
          BY <1>0, <3>1
        <5>2. QED
          BY <1>0, <1>1, <2>1, <3>1, <5>1 DEF OutputsFollow, Signals
      <4>2. \A j \in (i + 1)..Len(p) : j \in (i + 1)..Len(q) \/ j = Len(q) + 1
        BY <1>1
      <4>3. \A j \in (i + 1)..Len(q) : j \in 1..Len(q)
        BY <1>1
      <4>4. QED
        BY <1>0, <1>1, <2>1, <3>1, <4>1, <4>2, <4>3 DEF OutputsFollow, Fits, Continues
    <3>2. CASE i = Len(q) + 1
      <4>1. (i + 1)..Len(p) = {}
        BY <1>1, <3>2
      <4>2. QED
        BY <1>1, <2>1, <3>2, <4>1 DEF Fits
    <3>3. QED
      BY <1>2, <3>1, <3>2
  <2>2. ASSUME NEW r \in rs, r.phase = "output"
        PROVE  /\ r.output < t
               /\ \A j \in 1..Len(p) : ~Continues(p[j], r.output)
    <3>1. r.output < t /\ \A j \in 1..Len(q) : ~Continues(q[j], r.output)
      BY <1>0, <2>2 DEF OutputsFollow
    <3>2. ~Continues(m, r.output)
      BY <3>1 DEF Fits, Continues
    <3>3. QED
      BY <1>1, <1>2, <3>1, <3>2
  <2>3. QED
    BY <2>1, <2>2 DEF OutputsFollow
<1>5. QED
  BY <1>1, <1>3, <1>4 DEF PipeInOrder, p

\* A signal that is received: it finds the stream it belongs to.
Finds(h, m) ==
  Goes(m) => Now(h, m.kind) = m.output \/ (Withdraws(m) /\ Now(h, "preview") = None)

\* What is left of the pipe is in order.
LEMMA Take ==
  ASSUME NEW q, NEW h, NEW g, NEW t \in Nat, NEW rs, PipeInOrder(q, h, t, rs), q # <<>>,
         \A kind \in {"preview", "thinking", "activity"} :
           Now(g, kind) = IF Changes(Head(q), kind) THEN Value(Head(q)) ELSE Now(h, kind)
  PROVE  /\ Head(q) \in Signals
         /\ Finds(h, Head(q))
         /\ PipeInOrder(Tail(q), g, t, rs)
         /\ Head(q).kind = "request" => PipeInOrder(Tail(q), g, t, rs \cup {Head(q)})
<1> DEFINE p == Tail(q)
<1>0. q \in Seq(Signals) /\ Streams(q, h) /\ OutputsFollow(q, t, rs)
  BY DEF PipeInOrder
<1>1. /\ Len(p) = Len(q) - 1 /\ Len(q) \in Nat \ {0}
      /\ \A i \in 1..Len(p) : p[i] = q[i + 1] /\ i + 1 \in 1..Len(q) /\ i \in 1..Len(q)
      /\ Head(q) = q[1] /\ 1 \in 1..Len(q) /\ Head(q) \in Signals
      /\ p \in Seq(Signals)
  BY <1>0
<1>2. Finds(h, Head(q))
  <2>1. Goes(q[1]) => Meets(q, h, 1, q[1])
    BY <1>0, <1>1 DEF Streams
  <2>2. \A kind, x : Shows(q, h, 1, kind, x) <=> Now(h, kind) = x
    BY FirstShows
  <2>3. QED
    BY <1>1, <2>1, <2>2 DEF Finds, Meets
<1>3. Streams(p, g)
  <2> SUFFICES ASSUME NEW i \in 1..Len(p), Goes(p[i])
               PROVE  Meets(p, g, i, p[i])
    BY DEF Streams
  <2>1. Meets(q, h, i + 1, p[i])
    BY <1>0, <1>1 DEF Streams
  <2>2. p[i].kind \in {"preview", "thinking", "activity"}
    BY DEF Goes
  <2>3. ASSUME NEW kind \in {"preview", "thinking", "activity"}, NEW x, Shows(q, h, i + 1, kind, x)
        PROVE  Shows(p, g, i, kind, x)
    BY <1>0, <1>1, <2>3, TakeShows
  <2> HIDE DEF p
  <2>4. QED
    BY <2>1, <2>2, <2>3 DEF Meets
<1> HIDE DEF p
<1>4. OutputsFollow(p, t, rs)
  <2>1. ASSUME NEW i \in 1..Len(p), Asks(p[i])
        PROVE  /\ p[i].output < t
               /\ \A j \in (i + 1)..Len(p) : ~Continues(p[j], p[i].output)
    <3>1. \A j \in (i + 1)..Len(p) : j \in 1..Len(p) /\ j + 1 \in ((i + 1) + 1)..Len(q)
      BY <1>1
    <3>2. QED
      BY <1>0, <1>1, <2>1, <3>1 DEF OutputsFollow
  <2>2. QED
    BY <1>0, <1>1, <2>1 DEF OutputsFollow
<1>5. ASSUME Head(q).kind = "request"
      PROVE  OutputsFollow(p, t, rs \cup {Head(q)})
  <2>1. Head(q).phase = "output" =>
          /\ Head(q).output < t
          /\ \A j \in 2..Len(q) : ~Continues(q[j], Head(q).output)
    BY <1>0, <1>1, <1>5 DEF OutputsFollow, Asks
  <2>2. \A j \in 1..Len(p) : j + 1 \in 2..Len(q)
    BY <1>1
  <2>3. QED
    BY <1>1, <1>4, <2>1, <2>2 DEF OutputsFollow
<1>6. QED
  BY <1>1, <1>2, <1>3, <1>4, <1>5 DEF PipeInOrder, p

\* A later trigger, and fewer requests to handle, leave the pipe in order.
LEMMA StaysInOrder ==
  ASSUME NEW q, NEW h, NEW t \in Nat, NEW u \in Nat, t <= u, NEW rs \in SUBSET Routes, NEW ss,
         \A r \in ss : r.phase = "output" => r \in rs,
         PipeInOrder(q, h, t, rs)
  PROVE  PipeInOrder(q, h, u, ss)
<1>1. q \in Seq(Signals)
  BY DEF PipeInOrder
<1>2. \A i \in 1..Len(q) : Asks(q[i]) => q[i].output \in Nat
  <2> SUFFICES ASSUME NEW i \in 1..Len(q), Asks(q[i]) PROVE q[i].output \in Nat
    OBVIOUS
  <2>1. q[i] \in Signals
    BY <1>1
  <2>2. QED
    BY <2>1 DEF Signals
<1>3. \A r \in rs : r.output \in Nat
  BY DEF Routes
<1>4. OutputsFollow(q, u, ss)
  BY <1>2, <1>3 DEF PipeInOrder, OutputsFollow
<1>5. QED
  BY <1>1, <1>4 DEF PipeInOrder

\* What the end of a pipe says of tools, after a signal is posted or received.
LEMMA PostTools ==
  ASSUME NEW q \in Seq(Signals), NEW h, NEW ts, NEW m \in Signals, ToolsEnd(q, h, ts)
  PROVE  /\ (\A t : IsTool(m, "start", t) => t \in ts) => ToolsEnd(Append(q, m), h, ts)
         /\ \A t : IsTool(m, "end", t) => ToolsEnd(Append(q, m), h, ts \ {t})
<1> DEFINE p == Append(q, m)
<1>1. /\ Len(p) = Len(q) + 1 /\ Len(q) \in Nat
      /\ \A i \in 1..Len(q) : p[i] = q[i] /\ i \in 1..Len(p)
      /\ p[Len(q) + 1] = m /\ Len(q) + 1 \in 1..Len(p)
  OBVIOUS
<1>2. /\ \A i \in 1..Len(p) : i \in 1..Len(q) \/ i = Len(q) + 1
      /\ \A i \in 1..Len(q) : Len(q) + 1 \in (i + 1)..Len(p)
      /\ \A i \in 1..Len(q) : \A j \in (i + 1)..Len(q) : j \in (i + 1)..Len(p) /\ j \in 1..Len(q)
  BY <1>1
<1> HIDE DEF p
<1>3. ASSUME \A t : IsTool(m, "start", t) => t \in ts
      PROVE  ToolsEnd(p, h, ts)
  <2> SUFFICES ASSUME NEW t \in Nat \ ts
               PROVE  /\ t \in h.tools => \E j \in 1..Len(p) : IsTool(p[j], "end", t)
                      /\ \A i \in 1..Len(p) : IsTool(p[i], "start", t) =>
                           \E j \in (i + 1)..Len(p) : IsTool(p[j], "end", t)
    BY DEF ToolsEnd
  <2>1. /\ t \in h.tools => \E j \in 1..Len(q) : IsTool(q[j], "end", t)
        /\ \A i \in 1..Len(q) : IsTool(q[i], "start", t) =>
             \E j \in (i + 1)..Len(q) : IsTool(q[j], "end", t)
    BY DEF ToolsEnd
  <2>2. ~IsTool(m, "start", t)
    BY <1>3
  <2>3. QED
    BY <1>1, <1>2, <2>1, <2>2
<1>4. ASSUME NEW x, IsTool(m, "end", x)
      PROVE  ToolsEnd(p, h, ts \ {x})
  <2> SUFFICES ASSUME NEW t \in Nat \ (ts \ {x})
               PROVE  /\ t \in h.tools => \E j \in 1..Len(p) : IsTool(p[j], "end", t)
                      /\ \A i \in 1..Len(p) : IsTool(p[i], "start", t) =>
                           \E j \in (i + 1)..Len(p) : IsTool(p[j], "end", t)
    BY DEF ToolsEnd
  <2>1. ~IsTool(m, "start", t)
    BY <1>4 DEF IsTool
  <2>2. CASE t = x
    BY <1>1, <1>2, <1>4, <2>1, <2>2
  <2>3. CASE t # x
    <3>1. /\ t \in h.tools => \E j \in 1..Len(q) : IsTool(q[j], "end", t)
          /\ \A i \in 1..Len(q) : IsTool(q[i], "start", t) =>
               \E j \in (i + 1)..Len(q) : IsTool(q[j], "end", t)
      BY <2>3 DEF ToolsEnd
    <3>2. QED
      BY <1>1, <1>2, <2>1, <3>1
  <2>4. QED
    BY <2>2, <2>3
<1>5. QED
  BY <1>3, <1>4 DEF p

\* After one is received
LEMMA TakeTools ==
  ASSUME NEW q \in Seq(Signals), q # <<>>, NEW h, NEW g, NEW ts, ToolsEnd(q, h, ts),
         \A t \in g.tools :
           \/ t \in h.tools /\ ~IsTool(Head(q), "end", t)
           \/ IsTool(Head(q), "start", t)
  PROVE  ToolsEnd(Tail(q), g, ts)
<1> DEFINE p == Tail(q)
<1>1. /\ Len(p) = Len(q) - 1 /\ Len(q) \in Nat \ {0}
      /\ \A i \in 1..Len(p) : p[i] = q[i + 1] /\ i + 1 \in 1..Len(q)
      /\ Head(q) = q[1] /\ 1 \in 1..Len(q)
      /\ \A j \in 1..Len(q) : j = 1 \/ (j - 1 \in 1..Len(p) /\ p[j - 1] = q[j])
      /\ \A i \in 1..Len(p) : \A j \in ((i + 1) + 1)..Len(q) : j - 1 \in (i + 1)..Len(p) /\ j \in 1..Len(q) /\ j # 1
      /\ \A j \in (1 + 1)..Len(q) : j - 1 \in 1..Len(p) /\ j \in 1..Len(q) /\ j # 1
  OBVIOUS
<1> HIDE DEF p
<1>2. ASSUME NEW t \in Nat \ ts
      PROVE  /\ t \in g.tools => \E j \in 1..Len(p) : IsTool(p[j], "end", t)
             /\ \A i \in 1..Len(p) : IsTool(p[i], "start", t) =>
                  \E j \in (i + 1)..Len(p) : IsTool(p[j], "end", t)
  <2>1. /\ t \in h.tools => \E j \in 1..Len(q) : IsTool(q[j], "end", t)
        /\ \A i \in 1..Len(q) : IsTool(q[i], "start", t) =>
             \E j \in (i + 1)..Len(q) : IsTool(q[j], "end", t)
    BY DEF ToolsEnd
  <2>2. ASSUME t \in g.tools
        PROVE  \E j \in 1..Len(p) : IsTool(p[j], "end", t)
    <3>1. CASE IsTool(Head(q), "start", t)
      BY <1>1, <2>1, <3>1
    <3>2. CASE t \in h.tools /\ ~IsTool(Head(q), "end", t)
      BY <1>1, <2>1, <3>2
    <3>3. QED
      BY <2>2, <3>1, <3>2
  <2>3. ASSUME NEW i \in 1..Len(p), IsTool(p[i], "start", t)
        PROVE  \E j \in (i + 1)..Len(p) : IsTool(p[j], "end", t)
    <3>1. PICK j \in ((i + 1) + 1)..Len(q) : IsTool(q[j], "end", t)
      BY <1>1, <2>1, <2>3
    <3>2. j - 1 \in (i + 1)..Len(p) /\ p[j - 1] = q[j]
      BY <1>1
    <3>3. QED
      BY <3>1, <3>2
  <2>4. QED
    BY <2>2, <2>3
<1>3. QED
  BY <1>2 DEF ToolsEnd, p

-------------------------------------------------------------------------------
\* What the Worker posts

\* What the end of the pipe shows stays so.
Keeps(q, p, h, kinds) == \A kind \in kinds : \A x : Ends(q, h, kind, x) => Ends(p, h, kind, x)

ToolsKept(q, p, h) == \A ts : ToolsEnd(q, h, ts) => ToolsEnd(p, h, ts)

\* A signal of the preview of the trigger, or the end of another
LEMMA PostPreview ==
  ASSUME NEW q, NEW h, NEW t \in Nat, NEW rs, PipeInOrder(q, h, t, rs), NEW o \in Nat,
         NEW phase \in {"started", "delta", "aborted"},
         phase # "aborted" => o = t,
         phase = "delta" => Ends(q, h, "preview", o),
         phase = "aborted" => Ends(q, h, "preview", o) \/ Ends(q, h, "preview", None)
  PROVE  LET p == Append(q, Signal("preview", phase, o)) IN
         /\ PipeInOrder(p, h, t, rs)
         /\ Ends(p, h, "preview", IF phase = "aborted" THEN None ELSE o)
         /\ Keeps(q, p, h, {"thinking", "activity"}) /\ ToolsKept(q, p, h)
<1> DEFINE m == Signal("preview", phase, o)
<1>1. /\ m \in Signals /\ m.kind = "preview" /\ m.phase = phase /\ m.output = o
      /\ q \in Seq(Signals)
  BY DEF Signal, Signals, PipeInOrder
<1> HIDE DEF m
<1>2. PipeInOrder(Append(q, m), h, t, rs)
  <2>1. Fits(q, h, t, m)
    BY <1>1 DEF Fits, Goes, Withdraws, Asks
  <2>2. QED
    BY <2>1, Post
<1>3. Ends(Append(q, m), h, "preview", IF phase = "aborted" THEN None ELSE o)
  <2>1. Changes(m, "preview") <=> phase # "delta"
    BY <1>1 DEF Changes
  <2>2. Value(m) = IF phase = "started" THEN o ELSE None
    BY <1>1 DEF Value
  <2>3. QED
    BY <1>1, <2>1, <2>2, PostShows
<1>4. Keeps(q, Append(q, m), h, {"thinking", "activity"})
  <2>1. ~Changes(m, "thinking") /\ ~Changes(m, "activity")
    BY <1>1 DEF Changes
  <2>2. QED
    BY <1>1, <2>1, PostShows DEF Keeps
<1>5. ToolsKept(q, Append(q, m), h)
  <2>1. \A x : ~IsTool(m, "start", x)
    BY <1>1 DEF IsTool
  <2>2. QED
    BY <1>1, <2>1, PostTools DEF ToolsKept
<1>6. QED
  BY <1>2, <1>3, <1>4, <1>5 DEF m

\* One of the model's thinking
LEMMA PostThinking ==
  ASSUME NEW q, NEW h, NEW t \in Nat, NEW rs, PipeInOrder(q, h, t, rs), NEW o \in Nat,
         NEW phase \in {"started", "delta", "finished", "aborted"},
         phase # "started" => Ends(q, h, "thinking", o)
  PROVE  LET p == Append(q, Signal("thinking", phase, o)) IN
         /\ PipeInOrder(p, h, t, rs)
         /\ Ends(p, h, "thinking", IF phase \in {"finished", "aborted"} THEN None ELSE o)
         /\ Keeps(q, p, h, {"preview", "activity"}) /\ ToolsKept(q, p, h)
<1> DEFINE m == Signal("thinking", phase, o)
<1>1. /\ m \in Signals /\ m.kind = "thinking" /\ m.phase = phase /\ m.output = o
      /\ q \in Seq(Signals)
  BY DEF Signal, Signals, PipeInOrder
<1> HIDE DEF m
<1>2. PipeInOrder(Append(q, m), h, t, rs)
  <2>1. Fits(q, h, t, m)
    BY <1>1 DEF Fits, Goes, Asks
  <2>2. QED
    BY <2>1, Post
<1>3. Ends(Append(q, m), h, "thinking", IF phase \in {"finished", "aborted"} THEN None ELSE o)
  <2>1. Changes(m, "thinking") <=> phase # "delta"
    BY <1>1 DEF Changes
  <2>2. Value(m) = IF phase = "started" THEN o ELSE None
    BY <1>1 DEF Value
  <2>3. QED
    BY <1>1, <2>1, <2>2, PostShows
<1>4. Keeps(q, Append(q, m), h, {"preview", "activity"})
  <2>1. ~Changes(m, "preview") /\ ~Changes(m, "activity")
    BY <1>1 DEF Changes
  <2>2. QED
    BY <1>1, <2>1, PostShows DEF Keeps
<1>5. ToolsKept(q, Append(q, m), h)
  <2>1. \A x : ~IsTool(m, "start", x)
    BY <1>1 DEF IsTool
  <2>2. QED
    BY <1>1, <2>1, PostTools DEF ToolsKept
<1>6. QED
  BY <1>2, <1>3, <1>4, <1>5 DEF m

\* A signal that it is busy or idle
LEMMA PostActivity ==
  ASSUME NEW q, NEW h, NEW t \in Nat, NEW rs, PipeInOrder(q, h, t, rs),
         NEW phase \in {"busy", "idle"}
  PROVE  LET p == Append(q, Signal("activity", phase, 0)) IN
         /\ PipeInOrder(p, h, t, rs)
         /\ Ends(p, h, "activity", phase)
         /\ Keeps(q, p, h, {"preview", "thinking"}) /\ ToolsKept(q, p, h)
<1> DEFINE m == Signal("activity", phase, 0)
<1>1. /\ m \in Signals /\ m.kind = "activity" /\ m.phase = phase
      /\ q \in Seq(Signals)
  BY DEF Signal, Signals, PipeInOrder
<1> HIDE DEF m
<1>2. PipeInOrder(Append(q, m), h, t, rs)
  <2>1. Fits(q, h, t, m)
    BY <1>1 DEF Fits, Goes, Asks
  <2>2. QED
    BY <2>1, Post
<1>3. Ends(Append(q, m), h, "activity", phase)
  <2>1. Changes(m, "activity") /\ Value(m) = phase
    BY <1>1 DEF Changes, Value
  <2>2. QED
    BY <1>1, <2>1, PostShows
<1>4. Keeps(q, Append(q, m), h, {"preview", "thinking"})
  <2>1. ~Changes(m, "preview") /\ ~Changes(m, "thinking")
    BY <1>1 DEF Changes
  <2>2. QED
    BY <1>1, <2>1, PostShows DEF Keeps
<1>5. ToolsKept(q, Append(q, m), h)
  <2>1. \A x : ~IsTool(m, "start", x)
    BY <1>1 DEF IsTool
  <2>2. QED
    BY <1>1, <2>1, PostTools DEF ToolsKept
<1>6. QED
  BY <1>2, <1>3, <1>4, <1>5 DEF m

\* A request of the Host, its withdrawal, or a tool
LEMMA PostOther ==
  ASSUME NEW q, NEW h, NEW t \in Nat, NEW rs, PipeInOrder(q, h, t, rs), NEW m \in Signals,
         m.kind \in {"request", "abort", "tool"}, Asks(m) => m.output < t
  PROVE  LET p == Append(q, m) IN
         /\ PipeInOrder(p, h, t, rs)
         /\ Keeps(q, p, h, {"preview", "thinking", "activity"})
         /\ m.kind # "tool" => ToolsKept(q, p, h)
<1>1. q \in Seq(Signals)
  BY DEF PipeInOrder
<1>2. PipeInOrder(Append(q, m), h, t, rs)
  <2>1. Fits(q, h, t, m)
    BY DEF Fits, Goes
  <2>2. QED
    BY <2>1, Post
<1>3. Keeps(q, Append(q, m), h, {"preview", "thinking", "activity"})
  <2>1. \A kind \in {"preview", "thinking", "activity"} : ~Changes(m, kind)
    BY DEF Changes
  <2>2. QED
    BY <1>1, <2>1, PostShows DEF Keeps
<1>4. ASSUME m.kind # "tool"
      PROVE  ToolsKept(q, Append(q, m), h)
  <2>1. \A x : ~IsTool(m, "start", x)
    BY <1>4 DEF IsTool
  <2>2. QED
    BY <1>1, <2>1, PostTools DEF ToolsKept
<1>5. QED
  BY <1>2, <1>3, <1>4

\* Signals that are posted together
LEMMA Together ==
  ASSUME NEW q \in Seq(Signals), NEW a \in Signals, NEW b \in Signals
  PROVE  /\ q \o <<>> = q /\ q \o <<a>> = Append(q, a) /\ q \o <<a, b>> = Append(Append(q, a), b)
         /\ q \o (<<a>> \o <<b>>) = Append(Append(q, a), b)
<1>1. q \o <<>> = q /\ q \o <<a>> = Append(q, a) /\ q \o <<a, b>> = Append(Append(q, a), b)
  OBVIOUS
<1>2. q \o (<<a>> \o <<b>>) = Append(Append(q, a), b)
  OBVIOUS
<1>3. QED
  BY <1>1, <1>2

\* What is posted when the stream is withdrawn: nothing of it will be shown.
LEMMA WithdrawShows ==
  ASSUME NEW q, NEW h, NEW t \in Nat, NEW rs, PipeInOrder(q, h, t, rs),
         slot \in Nat \cup {None}, thought \in Nat \cup {None},
         slot # None => Ends(q, h, "preview", slot) \/ Ends(q, h, "preview", None),
         slot = None => Ends(q, h, "preview", None),
         Ends(q, h, "thinking", thought)
  PROVE  LET p == q \o Withdrawn IN
         /\ PipeInOrder(p, h, t, rs)
         /\ Ends(p, h, "thinking", None) /\ Ends(p, h, "preview", None)
         /\ Keeps(q, p, h, {"activity"}) /\ ToolsKept(q, p, h)
<1> DEFINE a == Signal("preview", "aborted", slot)
           b == Signal("thinking", "aborted", thought)
           r == IF slot = None THEN q ELSE Append(q, a)
           p == IF thought = None THEN r ELSE Append(r, b)
<1>0. q \in Seq(Signals) /\ None \notin Nat
  BY FaultsAssumption DEF PipeInOrder
<1>1. q \o Withdrawn = p
  <2>1. slot # None => a \in Signals
    BY DEF Signal, Signals
  <2>2. thought # None => b \in Signals
    BY DEF Signal, Signals
  <2> HIDE DEF a, b
  <2>3. Withdrawn = (IF slot = None THEN <<>> ELSE <<a>>) \o (IF thought = None THEN <<>> ELSE <<b>>)
    BY DEF Withdrawn, a, b
  <2>4. CASE slot = None /\ thought = None
    BY <1>0, <2>3, <2>4, Together
  <2>5. CASE slot = None /\ thought # None
    <3>1. Withdrawn = <<b>>
      BY <2>2, <2>3, <2>5
    <3>2. QED
      BY <1>0, <2>2, <2>5, <3>1, Together
  <2>6. CASE slot # None /\ thought = None
    <3>1. Withdrawn = <<a>>
      BY <2>1, <2>3, <2>6
    <3>2. QED
      BY <1>0, <2>1, <2>6, <3>1, Together
  <2>7. CASE slot # None /\ thought # None
    <3>1. Withdrawn = <<a>> \o <<b>>
      BY <2>3, <2>7
    <3>2. QED
      BY <1>0, <2>1, <2>2, <2>7, <3>1, Together
  <2>8. QED
    BY <2>4, <2>5, <2>6, <2>7
<1>2. /\ PipeInOrder(r, h, t, rs)
      /\ Ends(r, h, "preview", None)
      /\ Keeps(q, r, h, {"thinking", "activity"}) /\ ToolsKept(q, r, h)
  <2>1. CASE slot = None
    BY <2>1 DEF Keeps, ToolsKept
  <2>2. CASE slot # None
    <3>1. slot \in Nat
      BY <2>2
    <3>2. QED
      BY <2>2, <3>1, PostPreview
  <2>3. QED
    BY <2>1, <2>2
<1> HIDE DEF a, r
<1>3. /\ PipeInOrder(p, h, t, rs)
      /\ Ends(p, h, "thinking", None)
      /\ Keeps(r, p, h, {"preview", "activity"}) /\ ToolsKept(r, p, h)
  <2>1. Ends(r, h, "thinking", thought)
    BY <1>2 DEF Keeps
  <2>2. CASE thought = None
    BY <1>2, <2>1, <2>2 DEF Keeps, ToolsKept
  <2>3. CASE thought # None
    <3>1. thought \in Nat
      BY <2>3
    <3>2. QED
      BY <1>2, <2>1, <2>3, <3>1, PostThinking
  <2>4. QED
    BY <2>2, <2>3
<1> HIDE DEF p
<1>4. Ends(p, h, "preview", None)
  BY <1>2, <1>3 DEF Keeps
<1>5. Keeps(q, p, h, {"activity"}) /\ ToolsKept(q, p, h)
  BY <1>2, <1>3 DEF Keeps, ToolsKept
<1>6. QED
  BY <1>1, <1>3, <1>4, <1>5

-------------------------------------------------------------------------------
\* The Worker

\* The answers that are left in a pipe when one was read
LEMMA TailAnswers ==
  ASSUME NEW r \in Seq(Replies), r # <<>>
  PROVE  /\ Head(r) \in Replies /\ Tail(r) \in Seq(Replies)
         /\ \A y : Answering(Tail(r), y) => Answering(r, y)
         /\ Head(r).kind = "response" /\ Head(r).op = "output" => Answering(r, Head(r).output)
<1> DEFINE p == Tail(r)
<1>1. /\ Len(p) = Len(r) - 1 /\ Len(r) \in Nat \ {0}
      /\ \A i \in 1..Len(p) : p[i] = r[i + 1] /\ i + 1 \in 1..Len(r)
      /\ Head(r) = r[1] /\ 1 \in 1..Len(r)
      /\ Head(r) \in Replies /\ p \in Seq(Replies)
  OBVIOUS
<1> HIDE DEF p
<1>2. QED
  BY <1>1 DEF Answering, p

\* What is left shown stays so while the pipe says no more of the preview.
LEMMA LeftKeeps ==
  ASSUME NEW q, NEW p, NEW h, NEW x, NEW r, NEW u, Left(q, h, x, r), Keeps(q, p, h, {"preview"}),
         \A y : Answering(u, y) => Answering(r, y)
  PROVE  Left(p, h, x, u)
BY DEF Left, Keeps

\* What a Worker that lives can rely on
LEMMA AliveFacts ==
  ASSUME DisplayInv, process = "alive"
  PROVE  /\ PipeInOrder(toHost, hub, trigger, routes)
         /\ Ends(toHost, hub, "thinking", thought)
         /\ Ends(toHost, hub, "activity", Activity(advertised))
         /\ stream \in Showing => Ends(toHost, hub, "preview", trigger) /\ slot = trigger
         /\ stream \notin Showing =>
              Left(toHost, hub, slot, toWorker)
         /\ ToolsEnd(toHost, hub, running)
         /\ trigger \in Nat /\ None \notin Nat /\ None \notin Showing \cup {"silent", "again"}
         /\ DisplayTypeOK /\ EmitterInStep /\ AnswersAreLate /\ RecordIsTrue /\ ~strayed
BY FaultsAssumption, LiveDisplayAssumption
DEF DisplayInv, PipeTellsTheWorker, EmitterInStep, DisplayTypeOK, EveryChunkHasItsStream, Showing

\* What a step of a Worker that lives has to keep
LEMMA AliveKeeps ==
  ASSUME DisplayInv, process = "alive", UNCHANGED <<process, hub, shown, routes, active>>,
         DisplayTypeOK', EmitterInStep', AnswersAreLate', ~strayed',
         PipeInOrder(toHost', hub, trigger', routes),
         Ends(toHost', hub, "thinking", thought'),
         Ends(toHost', hub, "activity", Activity(advertised')),
         stream' \in Showing => Ends(toHost', hub, "preview", trigger'),
         stream' \notin Showing =>
           Left(toHost', hub, slot', toWorker'),
         ToolsEnd(toHost', hub, running')
  PROVE  DisplayInv'
<1>1. PipeTellsTheWorker'
  BY DEF PipeTellsTheWorker
<1>2. RecordIsTrue'
  BY DEF DisplayInv, RecordIsTrue
<1>3. PipeInOrder(toHost, hub, trigger, routes)'
  OBVIOUS
<1>4. EveryChunkHasItsStream'
  BY DEF EveryChunkHasItsStream
<1>5. QED
  BY <1>1, <1>2, <1>3, <1>4 DEF DisplayInv

\* A decision begins: its preview starts.
LEMMA BeginStreamKeeps ==
  ASSUME DisplayInv, BeginStream
  PROVE  DisplayInv'
<1> USE DEF turnVars, hostVars, displayVars, boundVars
<1>1. process = "alive"
  BY DEF BeginStream
<1>2. /\ stream \in {None, "again"} /\ running = {} /\ stream' = "starting" /\ slot' = trigger
      /\ heldBack' = FALSE
      /\ toHost' = Append(toHost, Signal("preview", "started", trigger))
      /\ UNCHANGED <<process, advertised, trigger, thought, delivering, running, toWorker,
                     routes, active, hub, shown, strayed, requests>>
  BY DEF BeginStream
<1>3. /\ PipeInOrder(toHost', hub, trigger, routes)
      /\ Ends(toHost', hub, "preview", trigger)
      /\ Keeps(toHost, toHost', hub, {"thinking", "activity"}) /\ ToolsKept(toHost, toHost', hub)
  BY <1>1, <1>2, AliveFacts, PostPreview
<1>4. /\ Ends(toHost', hub, "thinking", thought)
      /\ Ends(toHost', hub, "activity", Activity(advertised)) /\ ToolsEnd(toHost', hub, running)
  BY <1>1, <1>3, AliveFacts DEF Keeps, ToolsKept
<1>5. thought = None
  BY <1>1, <1>2, AliveFacts DEF EmitterInStep, Showing
<1>6. DisplayTypeOK'
  BY <1>1, <1>2, <1>3, AliveFacts DEF DisplayTypeOK, PipeInOrder
<1>7. EmitterInStep' /\ AnswersAreLate'
  BY <1>1, <1>2, <1>5, AliveFacts DEF EmitterInStep, AnswersAreLate, Showing
<1>8. stream' \in Showing
  BY <1>2 DEF Showing
<1>9. QED
  BY <1>1, <1>2, <1>3, <1>4, <1>6, <1>7, <1>8, AliveFacts, AliveKeeps

\* The model is asked.
LEMMA AskModelKeeps ==
  ASSUME DisplayInv, AskModel
  PROVE  DisplayInv'
<1> USE DEF turnVars, hostVars, displayVars, boundVars
<1> DEFINE m == Request("llm", trigger)
<1>1. process = "alive"
  BY DEF AskModel
<1>2. /\ stream = "starting" /\ stream' = "asking"
      /\ toHost' = Append(toHost, m)
      /\ UNCHANGED <<process, advertised, trigger, slot, heldBack, thought, delivering, running,
                     toWorker, routes, active, hub, shown, strayed, requests>>
  BY DEF AskModel
<1>3. m \in Signals /\ m.kind = "request" /\ ~Asks(m)
  BY <1>1, AliveFacts DEF Request, Signals, Asks
<1> HIDE DEF m
<1>4. /\ PipeInOrder(toHost', hub, trigger, routes)
      /\ Keeps(toHost, toHost', hub, {"preview", "thinking", "activity"})
      /\ ToolsKept(toHost, toHost', hub)
  BY <1>1, <1>2, <1>3, AliveFacts, PostOther
<1>5. stream \in Showing /\ stream' \in Showing
  BY <1>2 DEF Showing
<1>6. /\ Ends(toHost', hub, "preview", trigger) /\ Ends(toHost', hub, "thinking", thought)
      /\ Ends(toHost', hub, "activity", Activity(advertised)) /\ ToolsEnd(toHost', hub, running)
  BY <1>1, <1>4, <1>5, AliveFacts DEF Keeps, ToolsKept
<1>7. DisplayTypeOK'
  BY <1>1, <1>2, <1>4, AliveFacts DEF DisplayTypeOK, PipeInOrder
<1>8. EmitterInStep' /\ AnswersAreLate'
  BY <1>1, <1>2, <1>5, AliveFacts DEF EmitterInStep, AnswersAreLate
<1>9. QED
  BY <1>1, <1>2, <1>4, <1>5, <1>6, <1>7, <1>8, AliveFacts, AliveKeeps

\* A chunk arrives
LEMMA HearChunkKeeps ==
  ASSUME DisplayInv, HearChunk
  PROVE  DisplayInv'
<1> USE DEF turnVars, hostVars, displayVars, boundVars
<1>1. process = "alive" /\ toWorker # <<>>
  BY DEF HearChunk
<1>2. /\ toWorker' = Tail(toWorker)
      /\ UNCHANGED <<process, advertised, trigger, stream, slot, heldBack, delivering, running,
                     routes, active, hub, shown, requests>>
  BY DEF HearChunk
<1>3. /\ toWorker' \in Seq(Replies)
      /\ \A y : Answering(toWorker', y) => Answering(toWorker, y)
  BY <1>1, <1>2, AliveFacts, TailAnswers DEF DisplayTypeOK
<1>4. /\ PipeInOrder(toHost', hub, trigger, routes)
      /\ Ends(toHost', hub, "thinking", thought')
      /\ Keeps(toHost, toHost', hub, {"activity", "preview"}) /\ ToolsKept(toHost, toHost', hub)
      /\ thought' \in {thought, trigger} /\ (thought' # thought => stream = "asking")
      /\ ~strayed'
  <2>1. CASE UNCHANGED <<toHost, thought, strayed>>
    BY <1>1, <2>1, AliveFacts DEF Keeps, ToolsKept
  <2>2. CASE Asking /\ HearText
    <3>1. slot = trigger /\ Ends(toHost, hub, "preview", trigger)
      BY <1>1, <2>2, AliveFacts DEF Asking, Showing
    <3>2. /\ toHost' = Append(toHost, Signal("preview", "delta", trigger))
          /\ UNCHANGED <<thought, strayed>>
      BY <2>2, <3>1 DEF HearText
    <3> DEFINE p == Append(toHost, Signal("preview", "delta", trigger))
    <3>3. /\ PipeInOrder(p, hub, trigger, routes) /\ Ends(p, hub, "preview", trigger)
          /\ Keeps(toHost, p, hub, {"thinking", "activity"}) /\ ToolsKept(toHost, p, hub)
      BY <1>1, <3>1, AliveFacts, PostPreview
    <3> HIDE DEF p
    <3>4. Keeps(toHost, p, hub, {"preview"})
      <4>1. ~Changes(Signal("preview", "delta", trigger), "preview")
        BY DEF Changes, Signal
      <4>2. Signal("preview", "delta", trigger) \in Signals /\ toHost \in Seq(Signals)
        BY <1>1, AliveFacts DEF Signal, Signals, PipeInOrder
      <4>3. QED
        BY <4>1, <4>2, PostShows DEF Keeps, p
    <3>5. toHost' = p
      BY <3>2 DEF p
    <3>6. Ends(p, hub, "thinking", thought')
      BY <1>1, <3>2, <3>3, AliveFacts DEF Keeps
    <3>7. QED
      BY <1>1, <3>2, <3>3, <3>4, <3>5, <3>6, AliveFacts DEF Keeps
  <2>3. CASE Asking /\ HearThought
    <3>1. thought \in {None, trigger} /\ stream = "asking" /\ ~strayed'
      BY <1>1, <2>3, AliveFacts DEF EmitterInStep, Asking, HearThought
    <3> DEFINE q == Append(toHost, Signal("thinking", "started", trigger))
               p == Append(q, Signal("thinking", "delta", trigger))
               r == Append(toHost, Signal("thinking", "delta", trigger))
    <3>2. CASE thought = None
      <4>1. Signal("thinking", "started", trigger) \in Signals
            /\ Signal("thinking", "delta", trigger) \in Signals
        BY <1>1, AliveFacts DEF Signal, Signals
      <4>2. toHost' = p /\ thought' = trigger
        BY <1>1, <2>3, <3>2, <4>1, AliveFacts, Together DEF HearThought, PipeInOrder
      <4>3. /\ PipeInOrder(q, hub, trigger, routes) /\ Ends(q, hub, "thinking", trigger)
            /\ Keeps(toHost, q, hub, {"preview", "activity"}) /\ ToolsKept(toHost, q, hub)
        BY <1>1, AliveFacts, PostThinking
      <4> HIDE DEF q
      <4>4. /\ PipeInOrder(p, hub, trigger, routes) /\ Ends(p, hub, "thinking", trigger)
            /\ Keeps(q, p, hub, {"preview", "activity"}) /\ ToolsKept(q, p, hub)
        BY <1>1, <4>3, AliveFacts, PostThinking
      <4> HIDE DEF p
      <4>5. QED
        BY <3>1, <4>2, <4>3, <4>4 DEF Keeps, ToolsKept
    <3>3. CASE thought = trigger
      <4>1. toHost' = r /\ thought' = trigger
        BY <1>1, <2>3, <3>3, AliveFacts DEF HearThought
      <4>2. /\ PipeInOrder(r, hub, trigger, routes) /\ Ends(r, hub, "thinking", trigger)
            /\ Keeps(toHost, r, hub, {"preview", "activity"}) /\ ToolsKept(toHost, r, hub)
        BY <1>1, <3>3, AliveFacts, PostThinking
      <4> HIDE DEF r
      <4>3. QED
        BY <3>1, <4>1, <4>2
    <3>4. QED
      BY <3>1, <3>2, <3>3
  <2>4. QED
    BY <2>1, <2>2, <2>3 DEF HearChunk
<1>5. /\ Ends(toHost', hub, "activity", Activity(advertised))
      /\ stream \in Showing => Ends(toHost', hub, "preview", trigger)
      /\ stream \notin Showing =>
           Left(toHost', hub, slot, toWorker')
      /\ ToolsEnd(toHost', hub, running)
  <2>1. Keeps(toHost, toHost', hub, {"preview"})
    BY <1>4 DEF Keeps
  <2>2. stream \notin Showing => Left(toHost', hub, slot, toWorker')
    BY <1>1, <1>3, <2>1, AliveFacts, LeftKeeps
  <2>3. QED
    BY <1>1, <1>4, <2>2, AliveFacts DEF Keeps, ToolsKept
<1>6. DisplayTypeOK'
  BY <1>1, <1>2, <1>3, <1>4, AliveFacts DEF DisplayTypeOK, PipeInOrder
<1>7. EmitterInStep' /\ AnswersAreLate'
  BY <1>1, <1>2, <1>3, <1>4, AliveFacts DEF EmitterInStep, AnswersAreLate
<1>8. QED
  BY <1>1, <1>2, <1>4, <1>5, <1>6, <1>7, AliveFacts, AliveKeeps

\* The model's answer, or its failure, is heard.
LEMMA RepliedFacts ==
  ASSUME DisplayInv, NEW op, NEW phase, Replied(op, phase)
  PROVE  /\ process = "alive" /\ toWorker # <<>> /\ toWorker' = Tail(toWorker)
         /\ toWorker' \in Seq(Replies) /\ Head(toWorker) \in Replies
         /\ \A y : Answering(toWorker', y) => Answering(toWorker, y)
         /\ UNCHANGED <<process, advertised, trigger, routes, active, hub, shown, requests>>
         /\ AnswersAreLate'
<1> USE DEF hostVars, displayVars, boundVars
<1>1. /\ process = "alive" /\ toWorker # <<>> /\ toWorker' = Tail(toWorker)
      /\ UNCHANGED <<process, advertised, trigger, routes, active, hub, shown, requests>>
  BY DEF Replied
<1>2. toWorker \in Seq(Replies)
  BY DEF DisplayInv, DisplayTypeOK
<1>3. /\ toWorker' \in Seq(Replies) /\ Head(toWorker) \in Replies
      /\ \A y : Answering(toWorker', y) => Answering(toWorker, y)
  BY <1>1, <1>2, TailAnswers
<1>4. QED
  BY <1>1, <1>3 DEF DisplayInv, AnswersAreLate

\* The model has answered.
LEMMA HearAnswerKeeps ==
  ASSUME DisplayInv, HearAnswer
  PROVE  DisplayInv'
<1> USE DEF turnVars
<1>1. /\ Replied("llm", "ok") /\ stream = "asking" /\ stream' = "heard" /\ thought' = None
      /\ UNCHANGED <<slot, heldBack, delivering, running>>
      /\ strayed' = (thought \notin {None, trigger})
      /\ toHost' = toHost \o EndThinking
  BY DEF HearAnswer, Asking
<1>2. /\ process = "alive"
      /\ UNCHANGED <<process, advertised, trigger, routes, active, hub, shown, requests>>
      /\ AnswersAreLate' /\ toWorker' \in Seq(Replies)
      /\ \A y : Answering(toWorker', y) => Answering(toWorker, y)
  BY <1>1, RepliedFacts
<1>3. stream \in Showing /\ stream' \in Showing
  BY <1>1 DEF Showing
<1>4. /\ thought \in {None, trigger} /\ slot = trigger /\ Ends(toHost, hub, "preview", trigger)
      /\ toHost \in Seq(Signals) /\ ~strayed'
  BY <1>1, <1>2, <1>3, AliveFacts DEF EmitterInStep, PipeInOrder
<1> DEFINE a == Signal("thinking", "finished", trigger)
           q == IF thought = None THEN toHost ELSE Append(toHost, a)
<1>5. /\ PipeInOrder(q, hub, trigger, routes) /\ Ends(q, hub, "thinking", None)
      /\ Keeps(toHost, q, hub, {"preview", "activity"}) /\ ToolsKept(toHost, q, hub)
  <2>1. CASE thought = None
    BY <1>2, <2>1, AliveFacts DEF Keeps, ToolsKept
  <2>2. CASE thought # None
    <3>1. thought = trigger
      BY <1>4, <2>2
    <3>2. QED
      BY <1>2, <2>2, <3>1, AliveFacts, PostThinking
  <2>3. QED
    BY <2>1, <2>2
<1>6. a \in Signals
  BY <1>2, AliveFacts DEF Signal, Signals
<1>7. toHost' = q
  <2>1. EndThinking = IF thought = None THEN <<>> ELSE <<a>>
    BY <1>4 DEF EndThinking
  <2> HIDE DEF a
  <2>2. QED
    BY <1>1, <1>4, <1>6, <2>1, Together
<1> HIDE DEF a, q
<1>8. /\ PipeInOrder(toHost', hub, trigger', routes)
      /\ Ends(toHost', hub, "thinking", thought')
      /\ Ends(toHost', hub, "activity", Activity(advertised'))
      /\ Ends(toHost', hub, "preview", trigger')
      /\ ToolsEnd(toHost', hub, running')
  BY <1>1, <1>2, <1>4, <1>5, <1>7, AliveFacts DEF Keeps, ToolsKept
<1>9. DisplayTypeOK'
  BY <1>1, <1>2, <1>8, AliveFacts DEF DisplayTypeOK, PipeInOrder
<1>10. EmitterInStep'
  BY <1>1, <1>2, <1>3, <1>4, AliveFacts DEF EmitterInStep
<1>11. QED
  BY <1>2, <1>3, <1>4, <1>8, <1>9, <1>10, AliveKeeps

\* What is posted when what is shown of the decision is withdrawn
LEMMA WithdrawnShows ==
  ASSUME DisplayInv, process = "alive", NEW q, PipeInOrder(q, hub, trigger, routes),
         Keeps(toHost, q, hub, {"preview", "thinking", "activity"}), ToolsKept(toHost, q, hub)
  PROVE  LET p == q \o Withdrawn IN
         /\ PipeInOrder(p, hub, trigger, routes)
         /\ Ends(p, hub, "thinking", None) /\ Ends(p, hub, "preview", None)
         /\ Ends(p, hub, "activity", Activity(advertised)) /\ ToolsEnd(p, hub, running)
<1>1. slot # None => Ends(toHost, hub, "preview", slot) \/ Ends(toHost, hub, "preview", None)
  BY AliveFacts DEF Left
<1>2. slot = None => Ends(toHost, hub, "preview", None)
  BY AliveFacts DEF Left
<1>3. /\ slot # None => Ends(q, hub, "preview", slot) \/ Ends(q, hub, "preview", None)
      /\ slot = None => Ends(q, hub, "preview", None)
      /\ Ends(q, hub, "thinking", thought)
      /\ Ends(q, hub, "activity", Activity(advertised)) /\ ToolsEnd(q, hub, running)
  BY <1>1, <1>2, AliveFacts DEF Keeps, ToolsKept
<1> DEFINE p == q \o Withdrawn
<1>4. /\ PipeInOrder(p, hub, trigger, routes)
      /\ Ends(p, hub, "thinking", None) /\ Ends(p, hub, "preview", None)
      /\ Keeps(q, p, hub, {"activity"}) /\ ToolsKept(q, p, hub)
  BY <1>3, AliveFacts, WithdrawShows DEF DisplayTypeOK
<1> HIDE DEF p
<1>5. Ends(p, hub, "activity", Activity(advertised)) /\ ToolsEnd(p, hub, running)
  BY <1>3, <1>4 DEF Keeps, ToolsKept
<1>6. QED
  BY <1>4, <1>5 DEF p

\* What is shown of the decision is withdrawn, whether the model failed, the Step was refused
\* or lost, the turn was cancelled or there is no Step to make.
LEMMA WithdrawnKeeps ==
  ASSUME DisplayInv, process = "alive", stream' \in {None, "silent"},
         NEW before, WithdrawPreview(before),
         PipeInOrder(toHost \o before, hub, trigger, routes),
         Keeps(toHost, toHost \o before, hub, {"preview", "thinking", "activity"}),
         ToolsKept(toHost, toHost \o before, hub),
         stream' = "silent" => running = {},
         UNCHANGED <<process, advertised, delivering, running, routes, active, hub, shown>>,
         trigger' \in {trigger, trigger + 1},
         requests' \in Nat, ~strayed',
         toWorker' \in Seq(Replies),
         \A y : Answering(toWorker', y) => Answering(toWorker, y)
  PROVE  DisplayInv'
<1>1. /\ slot' = None /\ thought' = None /\ heldBack' = FALSE
      /\ toHost' = (toHost \o before) \o Withdrawn
  BY DEF WithdrawPreview
<1>2. /\ PipeInOrder(toHost', hub, trigger, routes)
      /\ Ends(toHost', hub, "thinking", None) /\ Ends(toHost', hub, "preview", None)
      /\ Ends(toHost', hub, "activity", Activity(advertised)) /\ ToolsEnd(toHost', hub, running)
  BY <1>1, WithdrawnShows
<1>3. /\ trigger \in Nat /\ trigger' \in Nat /\ trigger <= trigger'
      /\ routes \in SUBSET Routes
  BY AliveFacts DEF DisplayTypeOK
<1>4. PipeInOrder(toHost', hub, trigger', routes)
  BY <1>2, <1>3, StaysInOrder
<1>5. Left(toHost', hub, slot', toWorker')
  BY <1>2 DEF Left
<1>6. stream' \notin Showing
  BY AliveFacts DEF Showing
<1>7. DisplayTypeOK'
  BY <1>1, <1>2, <1>3, AliveFacts DEF DisplayTypeOK, PipeInOrder
<1>8. EmitterInStep'
  <2>1. \A d \in delivering : d.output \in Nat /\ d.output < trigger
    BY AliveFacts DEF DisplayTypeOK, EmitterInStep
  <2>2. \A d \in delivering : d.output < trigger'
    BY <1>3, <2>1
  <2>3. QED
    BY <1>1, <1>6, <2>2 DEF EmitterInStep
<1>9. AnswersAreLate'
  BY <1>3, AliveFacts DEF AnswersAreLate
<1>10. QED
  BY <1>1, <1>2, <1>4, <1>5, <1>6, <1>7, <1>8, <1>9, AliveKeeps

\* Nothing is posted before that.
LEMMA NothingBefore ==
  ASSUME DisplayInv, process = "alive"
  PROVE  /\ PipeInOrder(toHost \o <<>>, hub, trigger, routes)
         /\ Keeps(toHost, toHost \o <<>>, hub, {"preview", "thinking", "activity"})
         /\ ToolsKept(toHost, toHost \o <<>>, hub)
<1>1. toHost \in Seq(Signals) /\ PipeInOrder(toHost, hub, trigger, routes)
  BY AliveFacts DEF PipeInOrder
<1>2. toHost \o <<>> = toHost
  BY <1>1
<1>3. QED
  BY <1>1, <1>2 DEF Keeps, ToolsKept

\* The model fails, an answer comes too late, or the Step is refused.
LEMMA NoAnswerKeeps ==
  ASSUME DisplayInv, HearFailure \/ HearLate \/ StepFails
  PROVE  DisplayInv'
<1> USE DEF turnVars, hostVars, displayVars, boundVars
<1>1. CASE HearFailure
  <2>1. /\ Replied("llm", "failed") /\ stream' = None
        /\ WithdrawPreview(<<>>) /\ UNCHANGED <<delivering, running, strayed>>
    BY <1>1 DEF HearFailure, Asking
  <2>2. /\ process = "alive"
        /\ UNCHANGED <<process, advertised, trigger, routes, active, hub, shown, requests>>
        /\ toWorker' \in Seq(Replies)
        /\ \A y : Answering(toWorker', y) => Answering(toWorker, y)
    BY <2>1, RepliedFacts
  <2>3. requests' \in Nat /\ ~strayed' /\ stream' # "silent"
    BY <2>1, <2>2, AliveFacts DEF DisplayTypeOK
  <2>4. QED
    BY <2>1, <2>2, <2>3, NothingBefore, WithdrawnKeeps
<1>2. CASE StepFails
  <2>1. /\ process = "alive" /\ stream' = None
        /\ WithdrawPreview(<<>>)
        /\ UNCHANGED <<process, advertised, trigger, delivering, running, toWorker, routes, active,
                       hub, shown, strayed, requests>>
    BY <1>2 DEF StepFails
  <2>2. requests' \in Nat /\ ~strayed' /\ toWorker' \in Seq(Replies) /\ stream' # "silent"
    BY <2>1, AliveFacts DEF DisplayTypeOK
  <2>3. \A y : Answering(toWorker', y) => Answering(toWorker, y)
    BY <2>1
  <2>4. QED
    BY <2>1, <2>2, <2>3, NothingBefore, WithdrawnKeeps
<1>3. CASE HearLate
  <2>1. PICK phase \in {"ok", "failed"} : Replied("llm", phase)
    BY <1>3 DEF HearLate
  <2>2. /\ process = "alive"
        /\ UNCHANGED <<process, advertised, trigger, routes, active, hub, shown, requests>>
        /\ AnswersAreLate' /\ toWorker' \in Seq(Replies)
        /\ \A y : Answering(toWorker', y) => Answering(toWorker, y)
    BY <2>1, RepliedFacts
  <2>3. UNCHANGED <<stream, slot, heldBack, thought, delivering, running, toHost, strayed>>
    BY <1>3 DEF HearLate
  <2>4. DisplayTypeOK' /\ EmitterInStep'
    BY <2>2, <2>3, AliveFacts DEF DisplayTypeOK, EmitterInStep
  <2>5. stream \notin Showing => Left(toHost, hub, slot, toWorker')
    BY <2>2, AliveFacts DEF Left
  <2>6. QED
    BY <2>2, <2>3, <2>4, <2>5, AliveFacts, AliveKeeps
<1>4. QED
  BY <1>1, <1>2, <1>3

\* The answer is a decision, with text to deliver or without.
LEMMA DecideKeeps ==
  ASSUME DisplayInv, Decide
  PROVE  DisplayInv'
<1> USE DEF turnVars, hostVars, displayVars, boundVars
<1>1. /\ process = "alive" /\ stream = "heard"
      /\ UNCHANGED <<process, advertised, trigger, delivering, running, toWorker, routes, active,
                     hub, shown, strayed, requests>>
  BY DEF Decide
<1>2. stream \in Showing /\ running = {}
  BY <1>1, AliveFacts DEF Showing, EmitterInStep
<1>3. CASE stream' = "answered" /\ UNCHANGED <<slot, heldBack, toHost, thought>>
  <2>1. stream' \in Showing
    BY <1>3 DEF Showing
  <2>2. DisplayTypeOK' /\ EmitterInStep' /\ AnswersAreLate'
    BY <1>1, <1>2, <1>3, <2>1, AliveFacts DEF DisplayTypeOK, EmitterInStep, AnswersAreLate
  <2>3. QED
    BY <1>1, <1>2, <1>3, <2>1, <2>2, AliveFacts, AliveKeeps
<1>4. CASE stream' = "silent" /\ WithdrawPreview(<<>>)
  <2>1. requests' \in Nat /\ ~strayed' /\ toWorker' \in Seq(Replies)
    BY <1>1, AliveFacts DEF DisplayTypeOK
  <2>2. \A y : Answering(toWorker', y) => Answering(toWorker, y)
    BY <1>1
  <2>3. QED
    BY <1>1, <1>2, <1>4, <2>1, <2>2, NothingBefore, WithdrawnKeeps
<1>5. QED
  BY <1>3, <1>4 DEF Decide

\* A Step is committed: its text is still shown, until it is delivered.
LEMMA StepCommitKeeps ==
  ASSUME DisplayInv, Commit
  PROVE  DisplayInv'
<1> USE DEF hostVars, displayVars, boundVars
<1>1. /\ process = "alive" /\ stream \in {"answered", "silent"} /\ stream' = None
      /\ trigger' = trigger + 1
      /\ UNCHANGED <<process, advertised, slot, heldBack, thought, toWorker, routes, active, hub,
                     shown, strayed, requests>>
  BY DEF Commit
<1>2. thought = None /\ running = {} /\ trigger' \in Nat /\ trigger <= trigger'
  BY <1>1, AliveFacts DEF EmitterInStep, Showing
<1>3. PipeInOrder(toHost, hub, trigger', routes)
  BY <1>1, <1>2, AliveFacts, StaysInOrder DEF DisplayTypeOK
<1>4. /\ PipeInOrder(toHost', hub, trigger', routes)
      /\ Keeps(toHost, toHost', hub, {"preview", "thinking", "activity"})
      /\ ToolsEnd(toHost', hub, running') /\ running' \in SUBSET Nat
  <2>1. CASE UNCHANGED <<running, toHost>>
    BY <1>1, <1>3, <2>1, AliveFacts DEF Keeps, DisplayTypeOK
  <2>2. CASE running' = {trigger} /\ toHost' = Append(toHost, Signal("tool", "start", trigger))
    <3> DEFINE m == Signal("tool", "start", trigger)
    <3>1. m \in Signals /\ m.kind = "tool" /\ ~Asks(m) /\ \A t : IsTool(m, "start", t) => t = trigger
      BY <1>1, AliveFacts DEF Signal, Signals, Asks, IsTool
    <3> HIDE DEF m
    <3>2. /\ PipeInOrder(Append(toHost, m), hub, trigger', routes)
          /\ Keeps(toHost, Append(toHost, m), hub, {"preview", "thinking", "activity"})
      BY <1>2, <1>3, <3>1, PostOther
    <3>3. ToolsEnd(toHost, hub, {trigger})
      BY <1>1, <1>2, AliveFacts DEF ToolsEnd
    <3>4. ToolsEnd(Append(toHost, m), hub, {trigger})
      BY <1>3, <3>1, <3>3, PostTools DEF PipeInOrder
    <3>5. QED
      BY <1>1, <2>2, <3>2, <3>4, AliveFacts DEF m
  <2>3. QED
    BY <2>1, <2>2 DEF Commit
<1>5. delivering' = IF stream = "answered"
                    THEN delivering \cup {[output |-> trigger, asked |-> FALSE]} ELSE delivering
  BY DEF Commit
<1>6. /\ Left(toHost', hub, slot', toWorker')
      /\ slot # None => slot = trigger /\ stream = "answered"
  <2>1. CASE stream = "answered"
    <3>1. stream \in Showing
      BY <2>1 DEF Showing
    <3>2. Ends(toHost', hub, "preview", trigger) /\ slot = trigger
      BY <1>1, <1>4, <3>1, AliveFacts DEF Keeps
    <3>3. ~Answering(toWorker, trigger)
      BY <1>1, AliveFacts DEF AnswersAreLate
    <3>4. QED
      BY <1>1, <2>1, <3>2, <3>3, AliveFacts DEF Left
  <2>2. CASE stream = "silent"
    <3>1. slot = None /\ stream \notin Showing
      BY <1>1, <2>2, AliveFacts DEF EmitterInStep, Showing
    <3>2. Ends(toHost, hub, "preview", None)
      BY <1>1, <3>1, AliveFacts DEF Left
    <3>3. QED
      BY <1>1, <1>4, <3>1, <3>2 DEF Keeps, Left
  <2>3. QED
    BY <1>1, <2>1, <2>2
<1>7. DisplayTypeOK'
  <2>1. [output |-> trigger, asked |-> FALSE] \in [output : Nat, asked : BOOLEAN]
    BY <1>1, AliveFacts
  <2>2. delivering' \in SUBSET [output : Nat, asked : BOOLEAN]
    BY <1>1, <1>5, <2>1, AliveFacts DEF DisplayTypeOK
  <2>3. QED
    BY <1>1, <1>2, <1>4, <2>2, AliveFacts DEF DisplayTypeOK, PipeInOrder
<1>8. EmitterInStep' /\ AnswersAreLate'
  <2>1. \A d \in delivering : d.output \in Nat
    BY <1>1, AliveFacts DEF DisplayTypeOK
  <2>2. \A d \in delivering' : d.output < trigger'
    BY <1>1, <1>5, <2>1, AliveFacts DEF EmitterInStep
  <2>3. slot # None => \E d \in delivering' : d.output = slot
    <3>1. [output |-> trigger, asked |-> FALSE].output = trigger
      OBVIOUS
    <3>2. QED
      BY <1>5, <1>6, <3>1
  <2>4. stream' \notin Showing
    BY <1>1, AliveFacts
  <2>5. EmitterInStep'
    BY <1>1, <1>2, <2>2, <2>3, <2>4, AliveFacts DEF EmitterInStep
  <2>6. AnswersAreLate'
    BY <1>1, <1>2, AliveFacts DEF AnswersAreLate
  <2>7. QED
    BY <2>5, <2>6
<1>9. /\ Ends(toHost', hub, "thinking", thought') /\ Ends(toHost', hub, "activity", Activity(advertised'))
      /\ stream' \notin Showing
  BY <1>1, <1>4, AliveFacts DEF Keeps
<1>10. QED
  BY <1>1, <1>4, <1>6, <1>7, <1>8, <1>9, AliveFacts, AliveKeeps

\* A turn is cancelled, or the claim is lost, while the model answers.
LEMMA CancelCallKeeps ==
  ASSUME DisplayInv, CancelCall
  PROVE  DisplayInv'
<1> USE DEF turnVars, hostVars, displayVars, boundVars
<1> DEFINE m == [kind |-> "abort", phase |-> "llm", output |-> trigger]
           q == toHost \o <<m>>
<1>1. /\ process = "alive" /\ stream' = None
      /\ WithdrawPreview(<<m>>)
      /\ UNCHANGED <<process, advertised, delivering, running, toWorker, routes, active, hub,
                     shown, strayed, requests>>
  BY DEF CancelCall, Asking
<1>2. trigger' \in {trigger, trigger + 1}
  BY DEF CancelCall, Interrupted
<1>3. m \in Signals /\ m.kind = "abort" /\ ~Asks(m)
  BY <1>1, AliveFacts DEF Signals, Asks
<1> HIDE DEF m
<1>4. q = Append(toHost, m)
  BY <1>1, <1>3, AliveFacts, Together DEF PipeInOrder
<1>5. /\ PipeInOrder(q, hub, trigger, routes)
      /\ Keeps(toHost, q, hub, {"preview", "thinking", "activity"}) /\ ToolsKept(toHost, q, hub)
  BY <1>1, <1>3, <1>4, AliveFacts, PostOther
<1>6. requests' \in Nat /\ ~strayed' /\ toWorker' \in Seq(Replies) /\ stream' # "silent"
  BY <1>1, AliveFacts DEF DisplayTypeOK
<1>7. \A y : Answering(toWorker', y) => Answering(toWorker, y)
  BY <1>1
<1>8. QED
  BY <1>1, <1>2, <1>5, <1>6, <1>7, WithdrawnKeeps

\* A Step is lost before or after the call: what is shown of it may stay, for the next advance.
LEMMA LoseStepKeeps ==
  ASSUME DisplayInv, LoseStep
  PROVE  DisplayInv'
<1> USE DEF turnVars, hostVars, displayVars, boundVars
<1>1. /\ process = "alive" /\ stream \in {"starting", "heard", "answered", "silent"}
      /\ UNCHANGED <<process, advertised, delivering, running, toWorker, routes, active, hub,
                     shown, strayed, requests>>
  BY DEF LoseStep
<1>2. trigger' \in {trigger, trigger + 1}
  BY DEF LoseStep, Interrupted
<1>3. CASE stream' = "again" /\ UNCHANGED <<slot, heldBack, thought, toHost>>
  <2>1. /\ trigger \in Nat /\ trigger' \in Nat /\ trigger <= trigger'
        /\ routes \in SUBSET Routes
    BY <1>1, <1>2, AliveFacts DEF DisplayTypeOK
  <2>2. PipeInOrder(toHost, hub, trigger', routes)
    BY <1>1, <2>1, AliveFacts, StaysInOrder
  <2>3. thought = None /\ running = {}
    BY <1>1, AliveFacts DEF EmitterInStep, Showing
  <2>4. Left(toHost, hub, slot, toWorker)
    <3>1. CASE stream = "silent"
      BY <1>1, <3>1, AliveFacts DEF Showing
    <3>2. CASE stream # "silent"
      <4>1. stream \in Showing
        BY <1>1, <3>2 DEF Showing
      <4>2. slot = trigger /\ Ends(toHost, hub, "preview", trigger) /\ slot # None
        BY <1>1, <4>1, AliveFacts
      <4>3. ~Answering(toWorker, trigger)
        BY <1>1, AliveFacts DEF AnswersAreLate
      <4>4. QED
        BY <4>2, <4>3 DEF Left
    <3>3. QED
      BY <3>1, <3>2
  <2>5. stream' \notin Showing
    BY <1>3 DEF Showing
  <2>6. DisplayTypeOK'
    BY <1>1, <1>3, <2>1, AliveFacts DEF DisplayTypeOK
  <2>7. EmitterInStep'
    <3>1. \A d \in delivering : d.output \in Nat /\ d.output < trigger
      BY <1>1, AliveFacts DEF DisplayTypeOK, EmitterInStep
    <3>2. \A d \in delivering : d.output < trigger'
      BY <2>1, <3>1
    <3>3. stream' # "silent" /\ stream' # None
      BY <1>1, <1>3, AliveFacts
    <3>4. QED
      BY <1>1, <1>3, <2>3, <2>5, <3>2, <3>3 DEF EmitterInStep
  <2>8. AnswersAreLate'
    BY <1>1, <2>1, AliveFacts DEF AnswersAreLate
  <2>9. QED
    BY <1>1, <1>3, <2>2, <2>4, <2>5, <2>6, <2>7, <2>8, AliveFacts, AliveKeeps
<1>4. CASE stream' = None /\ WithdrawPreview(<<>>)
  <2>1. requests' \in Nat /\ ~strayed' /\ toWorker' \in Seq(Replies) /\ stream' # "silent"
    BY <1>1, <1>4, AliveFacts DEF DisplayTypeOK
  <2>2. \A y : Answering(toWorker', y) => Answering(toWorker, y)
    BY <1>1
  <2>3. QED
    BY <1>1, <1>2, <1>4, <2>1, <2>2, NothingBefore, WithdrawnKeeps
<1>5. QED
  BY <1>3, <1>4 DEF LoseStep

\* There is no Step to make, or the Session is held back.
LEMMA NoStepKeeps ==
  ASSUME DisplayInv, FindNothing \/ HoldBack
  PROVE  DisplayInv'
<1> USE DEF turnVars, hostVars, displayVars, boundVars
<1>1. CASE FindNothing
  <2>1. /\ process = "alive" /\ stream' = None
        /\ WithdrawPreview(<<>>)
        /\ UNCHANGED <<process, advertised, trigger, delivering, running, toWorker, routes, active,
                       hub, shown, strayed, requests>>
    BY <1>1 DEF FindNothing
  <2>2. requests' \in Nat /\ ~strayed' /\ toWorker' \in Seq(Replies) /\ stream' # "silent"
    BY <2>1, AliveFacts DEF DisplayTypeOK
  <2>3. \A y : Answering(toWorker', y) => Answering(toWorker, y)
    BY <2>1
  <2>4. QED
    BY <2>1, <2>2, <2>3, NothingBefore, WithdrawnKeeps
<1>2. CASE HoldBack
  <2>1. /\ process = "alive" /\ stream = "again" /\ stream' = None /\ heldBack' = (slot # None)
        /\ UNCHANGED <<process, advertised, trigger, slot, thought, delivering, running, toHost,
                       toWorker, routes, active, hub, shown, strayed, requests>>
    BY <1>2 DEF HoldBack
  <2>2. stream \notin Showing /\ stream' \notin Showing
    BY <2>1, AliveFacts DEF Showing
  <2>3. thought = None
    BY <2>1, AliveFacts DEF EmitterInStep
  <2>4. heldBack' \in BOOLEAN /\ (slot' # None => heldBack')
    BY <2>1
  <2>5. DisplayTypeOK'
    BY <2>1, <2>4, AliveFacts DEF DisplayTypeOK
  <2>6. EmitterInStep'
    BY <2>1, <2>2, <2>3, <2>4, AliveFacts DEF EmitterInStep
  <2>7. AnswersAreLate'
    BY <2>1, AliveFacts DEF AnswersAreLate
  <2>8. QED
    BY <2>1, <2>2, <2>5, <2>6, <2>7, AliveFacts, AliveKeeps
<1>3. QED
  BY <1>1, <1>2

\* A tool ends.
LEMMA EndToolKeeps ==
  ASSUME DisplayInv, EndTool
  PROVE  DisplayInv'
<1> USE DEF streamVars, hostVars, displayVars, boundVars
<1>1. /\ process = "alive"
      /\ UNCHANGED <<process, advertised, trigger, stream, slot, heldBack, thought, delivering, toWorker,
                     routes, active, hub, shown, strayed, requests>>
  BY DEF EndTool
<1>2. PICK tool \in running : /\ running' = running \ {tool}
                              /\ toHost' = Append(toHost, Signal("tool", "end", tool))
  BY DEF EndTool
<1> DEFINE m == Signal("tool", "end", tool)
<1>3. m \in Signals /\ m.kind = "tool" /\ ~Asks(m) /\ IsTool(m, "end", tool)
  BY <1>1, AliveFacts DEF Signal, Signals, Asks, IsTool, DisplayTypeOK
<1> HIDE DEF m
<1>4. toHost' = Append(toHost, m)
  BY <1>2 DEF m
<1>5. /\ PipeInOrder(toHost', hub, trigger, routes)
      /\ Keeps(toHost, toHost', hub, {"preview", "thinking", "activity"})
  BY <1>1, <1>3, <1>4, AliveFacts, PostOther
<1>6. ToolsEnd(toHost', hub, running')
  <2>1. toHost \in Seq(Signals) /\ ToolsEnd(toHost, hub, running)
    BY <1>1, AliveFacts DEF PipeInOrder
  <2>2. ToolsEnd(Append(toHost, m), hub, running \ {tool})
    BY <1>3, <2>1, PostTools
  <2>3. QED
    BY <1>2, <1>4, <2>2
<1>7. DisplayTypeOK' /\ EmitterInStep' /\ AnswersAreLate'
  BY <1>1, <1>2, <1>5, AliveFacts DEF DisplayTypeOK, PipeInOrder, EmitterInStep, AnswersAreLate
<1>8. /\ Ends(toHost', hub, "thinking", thought')
      /\ Ends(toHost', hub, "activity", Activity(advertised'))
      /\ stream' \in Showing => Ends(toHost', hub, "preview", trigger')
  BY <1>1, <1>5, AliveFacts DEF Keeps
<1>9. stream' \notin Showing => Left(toHost', hub, slot', toWorker')
  BY <1>1, <1>5, AliveFacts DEF Keeps, Left
<1>10. QED
  BY <1>1, <1>5, <1>6, <1>7, <1>8, <1>9, AliveFacts, AliveKeeps

\* A delivery is asked for, or something else.
LEMMA AskKeeps ==
  ASSUME DisplayInv, Deliver \/ AskOther
  PROVE  DisplayInv'
<1> USE DEF streamVars, turnVars, hostVars, displayVars, boundVars
<1>1. /\ process = "alive"
      /\ UNCHANGED <<process, advertised, trigger, stream, slot, heldBack, thought, running, toWorker,
                     routes, active, hub, shown, strayed>>
  BY DEF Deliver, AskOther
<1>2. \E m \in Signals :
        /\ toHost' = Append(toHost, m)
        /\ m.kind = "request" /\ (Asks(m) => m.output < trigger)
        /\ delivering' \in SUBSET [output : Nat, asked : BOOLEAN] /\ requests' \in Nat
        /\ \A d \in delivering : \E e \in delivering' : e.output = d.output
        /\ \A e \in delivering' : \E d \in delivering : e.output = d.output
  <2>1. CASE Deliver
    <3>1. PICK d \in delivering :
            /\ delivering' = (delivering \ {d}) \cup {[d EXCEPT !.asked = TRUE]}
            /\ toHost' = Append(toHost, Request("output", d.output))
      BY <2>1 DEF Deliver
    <3>2. d \in [output : Nat, asked : BOOLEAN] /\ d.output < trigger
      BY <1>1, AliveFacts DEF DisplayTypeOK, EmitterInStep
    <3>3. /\ [d EXCEPT !.asked = TRUE] \in [output : Nat, asked : BOOLEAN]
          /\ [d EXCEPT !.asked = TRUE].output = d.output
      BY <3>2
    <3>4. /\ Request("output", d.output) \in Signals
          /\ Request("output", d.output).kind = "request"
          /\ Request("output", d.output).output = d.output
      BY <3>2 DEF Request, Signals
    <3>5. requests' = requests
      BY <2>1 DEF Deliver
    <3>6. QED
      BY <1>1, <3>1, <3>2, <3>3, <3>4, <3>5, AliveFacts DEF DisplayTypeOK
  <2>2. CASE AskOther
    <3>1. /\ toHost' = Append(toHost, Request("other", requests)) /\ requests' = requests + 1
          /\ delivering' = delivering /\ requests \in Nat
      BY <1>1, <2>2, AliveFacts DEF AskOther, DisplayTypeOK
    <3>2. /\ Request("other", requests) \in Signals /\ Request("other", requests).kind = "request"
          /\ ~Asks(Request("other", requests))
      BY <3>1 DEF Request, Signals, Asks
    <3>3. QED
      BY <1>1, <3>1, <3>2, AliveFacts DEF DisplayTypeOK
  <2>3. QED
    BY <2>1, <2>2
<1>3. PICK m \in Signals :
        /\ toHost' = Append(toHost, m)
        /\ m.kind = "request" /\ (Asks(m) => m.output < trigger)
  BY <1>2
<1>4. /\ PipeInOrder(toHost', hub, trigger, routes)
      /\ Keeps(toHost, toHost', hub, {"preview", "thinking", "activity"})
      /\ ToolsKept(toHost, toHost', hub)
  BY <1>1, <1>3, AliveFacts, PostOther
<1>5. DisplayTypeOK'
  BY <1>1, <1>2, <1>4, AliveFacts DEF DisplayTypeOK, PipeInOrder
<1>6. EmitterInStep' /\ AnswersAreLate'
  BY <1>1, <1>2, AliveFacts DEF EmitterInStep, AnswersAreLate
<1>7. /\ Ends(toHost', hub, "thinking", thought')
      /\ Ends(toHost', hub, "activity", Activity(advertised'))
      /\ stream' \in Showing => Ends(toHost', hub, "preview", trigger')
      /\ ToolsEnd(toHost', hub, running')
  BY <1>1, <1>4, AliveFacts DEF Keeps, ToolsKept
<1>8. stream' \notin Showing => Left(toHost', hub, slot', toWorker')
  BY <1>1, <1>4, AliveFacts DEF Keeps, Left
<1>9. QED
  BY <1>1, <1>4, <1>5, <1>6, <1>7, <1>8, AliveFacts, AliveKeeps

\* An output was delivered.
LEMMA DeliveredKeeps ==
  ASSUME DisplayInv, Delivered
  PROVE  DisplayInv'
<1> DEFINE y == Head(toWorker).output
<1>1. /\ Replied("output", "ok") /\ delivering' = {d \in delivering : d.output # y}
      /\ slot' = Retired(y)
      /\ UNCHANGED <<stream, heldBack, thought, running, toHost, strayed>>
  BY DEF Delivered
<1>2. /\ process = "alive" /\ toWorker # <<>> /\ toWorker' = Tail(toWorker)
      /\ toWorker' \in Seq(Replies) /\ Head(toWorker) \in Replies
      /\ \A z : Answering(toWorker', z) => Answering(toWorker, z)
      /\ UNCHANGED <<process, advertised, trigger, routes, active, hub, shown, requests>>
      /\ AnswersAreLate'
  BY <1>1, RepliedFacts
<1>3. Answering(toWorker, y)
  BY <1>1, <1>2, AliveFacts, TailAnswers DEF Replied, DisplayTypeOK
<1> HIDE DEF y
<1>4. y \in Nat /\ y # trigger
  BY <1>2, <1>3, AliveFacts DEF AnswersAreLate
<1>5. stream \notin Showing => Left(toHost, hub, slot', toWorker')
  <2> SUFFICES ASSUME stream \notin Showing
               PROVE  Left(toHost, hub, slot', toWorker')
    OBVIOUS
  <2>1. Left(toHost, hub, slot, toWorker)
    BY <1>2, AliveFacts
  <2>2. CASE slot = y
    BY <1>3, <2>1, <2>2 DEF Left
  <2>3. CASE slot # y
    BY <1>1, <1>2, <2>1, <2>3 DEF Left, Retired
  <2>4. QED
    BY <2>2, <2>3
<1>6. DisplayTypeOK'
  BY <1>1, <1>2, AliveFacts DEF DisplayTypeOK, Retired
<1>7. EmitterInStep'
  <2>1. /\ slot' = None \/ (slot' = slot /\ slot # y)
        /\ \A d \in delivering : d.output # y => d \in delivering'
        /\ stream \in Showing => slot' = slot
    BY <1>1, <1>2, <1>4, AliveFacts DEF Retired
  <2>2. stream = None /\ slot' # None => heldBack \/ \E d \in delivering' : d.output = slot'
    BY <1>2, <2>1, AliveFacts DEF EmitterInStep
  <2>3. QED
    BY <1>1, <1>2, <2>1, <2>2, AliveFacts DEF EmitterInStep
<1>8. QED
  BY <1>1, <1>2, <1>5, <1>6, <1>7, AliveFacts, AliveKeeps

\* The Worker says that it is busy, or idle.
LEMMA AdvertiseKeeps ==
  ASSUME DisplayInv, Advertise
  PROVE  DisplayInv'
<1> USE DEF streamVars, turnVars, hostVars, displayVars, boundVars
<1> DEFINE phase == IF advertised THEN "idle" ELSE "busy"
<1>1. /\ process = "alive" /\ advertised' = ~advertised
      /\ toHost' = Append(toHost, Signal("activity", phase, 0))
      /\ UNCHANGED <<process, trigger, stream, slot, heldBack, thought, delivering, running, toWorker,
                     routes, active, hub, shown, strayed, requests>>
  BY DEF Advertise
<1>2. phase \in {"busy", "idle"} /\ phase = Activity(advertised')
  BY <1>1 DEF Activity
<1> HIDE DEF phase
<1>3. /\ PipeInOrder(toHost', hub, trigger, routes)
      /\ Ends(toHost', hub, "activity", phase)
      /\ Keeps(toHost, toHost', hub, {"preview", "thinking"}) /\ ToolsKept(toHost, toHost', hub)
  BY <1>1, <1>2, AliveFacts, PostActivity
<1>4. DisplayTypeOK' /\ EmitterInStep' /\ AnswersAreLate'
  <2>1. advertised' \in BOOLEAN
    BY <1>1
  <2>2. DisplayTypeOK'
    BY <1>1, <1>3, <2>1, AliveFacts DEF DisplayTypeOK, PipeInOrder
  <2>3. QED
    BY <1>1, <2>2, AliveFacts DEF EmitterInStep, AnswersAreLate
<1>5. /\ Ends(toHost', hub, "thinking", thought')
      /\ stream' \in Showing => Ends(toHost', hub, "preview", trigger')
      /\ stream' \notin Showing => Left(toHost', hub, slot', toWorker')
      /\ ToolsEnd(toHost', hub, running')
  BY <1>1, <1>3, AliveFacts DEF Keeps, ToolsKept, Left
<1>6. QED
  BY <1>1, <1>2, <1>3, <1>4, <1>5, AliveFacts, AliveKeeps

\* The Worker dies; what it posted stays in the pipe.
LEMMA DieKeeps ==
  ASSUME DisplayInv, Die
  PROVE  DisplayInv'
<1> USE DEF hostVars, displayVars
<1>1. /\ process = "alive" /\ process' = "dead"
      /\ stream' = None /\ slot' = None /\ heldBack' = FALSE /\ thought' = None
      /\ delivering' = {} /\ running' = {} /\ advertised' = FALSE /\ toWorker' = <<>>
      /\ UNCHANGED <<trigger, toHost, routes, active, hub, shown, strayed, requests>>
  BY DEF Die
<1>2. DisplayTypeOK'
  <2>1. /\ {} \in SUBSET [output : Nat, asked : BOOLEAN] /\ {} \in SUBSET Nat
        /\ <<>> \in Seq(Replies) /\ FALSE \in BOOLEAN
    OBVIOUS
  <2>2. QED
    BY <1>1, <2>1, AliveFacts DEF DisplayTypeOK
<1>3. EmitterInStep' /\ AnswersAreLate'
  BY <1>1, AliveFacts DEF EmitterInStep, Idle, AnswersAreLate, Answering, Showing
<1>4. PipeInOrder(toHost, hub, trigger, routes)'
  BY <1>1, AliveFacts
<1>5. PipeTellsTheWorker' /\ RecordIsTrue' /\ EveryChunkHasItsStream'
  BY <1>1, AliveFacts DEF PipeTellsTheWorker, RecordIsTrue, EveryChunkHasItsStream
<1>6. QED
  BY <1>2, <1>3, <1>4, <1>5 DEF DisplayInv

-------------------------------------------------------------------------------
\* The Host

\* What the hub and the Host's record show when the signal m was received: what it says.
Heard(m) ==
  /\ hub' \in Hubs /\ shown' \in Records
  /\ \A kind \in {"preview", "thinking", "activity"} :
       Now(hub', kind) = IF Changes(m, kind) THEN Value(m) ELSE Now(hub, kind)
  /\ \A t \in hub'.tools : \/ t \in hub.tools /\ ~IsTool(m, "end", t)
                           \/ IsTool(m, "start", t)
  /\ hub'.preview = shown'.preview /\ hub'.thinking = shown'.thinking
  /\ hub'.running = shown'.running /\ hub'.tools \subseteq shown'.tools
  /\ ~strayed'

\* A signal of the preview is received.
LEMMA HearsPreview ==
  ASSUME DisplayInv, NEW m \in Signals, m.kind = "preview", OnPreview(m),
         Finds(hub, m)
  PROVE  Heard(m)
<1>1. /\ hub \in Hubs /\ shown \in Records /\ ~strayed
      /\ hub.preview = shown.preview /\ hub.thinking = shown.thinking
      /\ hub.running = shown.running /\ hub.tools \subseteq shown.tools
  BY DEF DisplayInv, DisplayTypeOK, RecordIsTrue, EveryChunkHasItsStream
<1>2. m.phase \in {"started", "delta", "aborted"} /\ m.output \in Nat
  BY DEF Signals
<1>3. \A t : ~IsTool(m, "end", t)
  BY DEF IsTool
<1>4. ~Changes(m, "thinking") /\ ~Changes(m, "activity") /\ (Changes(m, "preview") <=> m.phase # "delta")
  BY DEF Changes
<1>5. /\ m.phase = "delta" => hub.preview = m.output
      /\ m.phase = "aborted" => hub.preview \in {None, m.output}
  BY DEF Finds, Goes, Withdraws, Now
<1>6. CASE m.phase = "started"
  <2>1. /\ shown' = [shown EXCEPT !.preview = m.output]
        /\ hub' = [hub EXCEPT !.preview = m.output, !.text = 0]
        /\ ~strayed'
    BY <1>1, <1>6 DEF OnPreview
  <2>2. /\ hub' \in Hubs /\ shown' \in Records
        /\ hub'.preview = m.output /\ hub'.thinking = hub.thinking /\ hub'.running = hub.running
        /\ hub'.tools = hub.tools /\ shown'.preview = m.output
        /\ shown'.thinking = shown.thinking /\ shown'.running = shown.running
        /\ shown'.tools = shown.tools
    BY <1>1, <1>2, <2>1 DEF Hubs, Records
  <2>3. QED
    BY <1>1, <1>3, <1>4, <1>6, <2>1, <2>2 DEF Heard, Now, Value
<1>7. CASE m.phase = "delta"
  <2>1. shown' = shown /\ hub' = [hub EXCEPT !.text = @ + 1] /\ ~strayed'
    BY <1>1, <1>5, <1>7 DEF OnPreview
  <2>2. /\ hub' \in Hubs
        /\ hub'.preview = hub.preview /\ hub'.thinking = hub.thinking
        /\ hub'.running = hub.running /\ hub'.tools = hub.tools
    BY <1>1, <2>1 DEF Hubs
  <2>3. QED
    BY <1>1, <1>3, <1>4, <1>7, <2>1, <2>2 DEF Heard, Now
<1>8. CASE m.phase = "aborted"
  <2>1. /\ shown' = [shown EXCEPT !.preview = None]
        /\ hub' = [hub EXCEPT !.preview = None, !.text = 0]
        /\ ~strayed'
    BY <1>1, <1>5, <1>8 DEF OnPreview
  <2>2. /\ hub' \in Hubs /\ shown' \in Records
        /\ hub'.preview = None /\ hub'.thinking = hub.thinking /\ hub'.running = hub.running
        /\ hub'.tools = hub.tools /\ shown'.preview = None
        /\ shown'.thinking = shown.thinking /\ shown'.running = shown.running
        /\ shown'.tools = shown.tools
    BY <1>1, <2>1 DEF Hubs, Records
  <2>3. QED
    BY <1>1, <1>3, <1>4, <1>8, <2>1, <2>2 DEF Heard, Now, Value
<1>9. QED
  BY <1>2, <1>6, <1>7, <1>8

\* One of the model's thinking
LEMMA HearsThinking ==
  ASSUME DisplayInv, NEW m \in Signals, m.kind = "thinking", OnThinking(m),
         Finds(hub, m)
  PROVE  Heard(m)
<1>1. /\ hub \in Hubs /\ shown \in Records /\ ~strayed
      /\ hub.preview = shown.preview /\ hub.thinking = shown.thinking
      /\ hub.running = shown.running /\ hub.tools \subseteq shown.tools
  BY DEF DisplayInv, DisplayTypeOK, RecordIsTrue, EveryChunkHasItsStream
<1>2. m.phase \in {"started", "delta", "finished", "aborted"} /\ m.output \in Nat
  BY DEF Signals
<1>3. \A t : ~IsTool(m, "end", t)
  BY DEF IsTool
<1>4. ~Changes(m, "preview") /\ ~Changes(m, "activity") /\ (Changes(m, "thinking") <=> m.phase # "delta")
  BY DEF Changes
<1>5. m.phase # "started" => hub.thinking = m.output
  BY DEF Finds, Goes, Withdraws, Now
<1>6. CASE m.phase = "started"
  <2>1. /\ shown' = [shown EXCEPT !.thinking = m.output]
        /\ hub' = [hub EXCEPT !.thinking = m.output]
        /\ ~strayed'
    BY <1>1, <1>6 DEF OnThinking
  <2>2. /\ hub' \in Hubs /\ shown' \in Records
        /\ hub'.thinking = m.output /\ hub'.preview = hub.preview /\ hub'.running = hub.running
        /\ hub'.tools = hub.tools /\ shown'.thinking = m.output
        /\ shown'.preview = shown.preview /\ shown'.running = shown.running
        /\ shown'.tools = shown.tools
    BY <1>1, <1>2, <2>1 DEF Hubs, Records
  <2>3. QED
    BY <1>1, <1>3, <1>4, <1>6, <2>1, <2>2 DEF Heard, Now, Value
<1>7. CASE m.phase = "delta"
  <2>1. shown' = shown /\ hub' = hub /\ ~strayed'
    BY <1>1, <1>5, <1>7 DEF OnThinking, displayVars
  <2>2. QED
    BY <1>1, <1>3, <1>4, <1>7, <2>1 DEF Heard, Now
<1>8. CASE m.phase \in {"finished", "aborted"}
  <2>1. /\ shown' = [shown EXCEPT !.thinking = None]
        /\ hub' = [hub EXCEPT !.thinking = None]
        /\ ~strayed'
    BY <1>1, <1>5, <1>8 DEF OnThinking
  <2>2. /\ hub' \in Hubs /\ shown' \in Records
        /\ hub'.thinking = None /\ hub'.preview = hub.preview /\ hub'.running = hub.running
        /\ hub'.tools = hub.tools /\ shown'.thinking = None
        /\ shown'.preview = shown.preview /\ shown'.running = shown.running
        /\ shown'.tools = shown.tools
    BY <1>1, <2>1 DEF Hubs, Records
  <2>3. QED
    BY <1>1, <1>3, <1>4, <1>8, <2>1, <2>2 DEF Heard, Now, Value
<1>9. QED
  BY <1>2, <1>6, <1>7, <1>8

\* A tool starts or ends.
LEMMA HearsTool ==
  ASSUME DisplayInv, NEW m \in Signals, m.kind = "tool", OnTool(m)
  PROVE  Heard(m)
<1>1. /\ hub \in Hubs /\ shown \in Records /\ ~strayed
      /\ hub.preview = shown.preview /\ hub.thinking = shown.thinking
      /\ hub.running = shown.running /\ hub.tools \subseteq shown.tools
  BY DEF DisplayInv, DisplayTypeOK, RecordIsTrue, EveryChunkHasItsStream
<1>2. m.phase \in {"start", "end"} /\ m.output \in Nat
  BY DEF Signals
<1>3. hub' = WithTool(hub, m) /\ shown' = WithTool(shown, m) /\ ~strayed'
  BY <1>1 DEF OnTool
<1>4. /\ hub' \in Hubs /\ shown' \in Records
      /\ hub'.preview = hub.preview /\ hub'.thinking = hub.thinking /\ hub'.running = hub.running
      /\ shown'.preview = shown.preview /\ shown'.thinking = shown.thinking
      /\ shown'.running = shown.running
      /\ hub'.tools = IF m.phase = "start" THEN hub.tools \cup {m.output} ELSE hub.tools \ {m.output}
      /\ shown'.tools = IF m.phase = "start" THEN shown.tools \cup {m.output}
                        ELSE shown.tools \ {m.output}
  BY <1>1, <1>2, <1>3 DEF Hubs, Records, WithTool
<1>5. \A kind \in {"preview", "thinking", "activity"} : ~Changes(m, kind)
  BY DEF Changes
<1>6. \A t \in hub'.tools : \/ t \in hub.tools /\ ~IsTool(m, "end", t)
                            \/ IsTool(m, "start", t)
  BY <1>2, <1>4 DEF IsTool
<1>7. hub'.tools \subseteq shown'.tools
  BY <1>1, <1>4
<1>8. QED
  BY <1>1, <1>3, <1>4, <1>5, <1>6, <1>7 DEF Heard, Now

\* The Worker is busy, or idle.
LEMMA HearsActivity ==
  ASSUME DisplayInv, NEW m \in Signals, m.kind = "activity", OnActivity(m)
  PROVE  Heard(m)
<1>1. /\ hub \in Hubs /\ shown \in Records /\ ~strayed
      /\ hub.preview = shown.preview /\ hub.thinking = shown.thinking
      /\ hub.running = shown.running /\ hub.tools \subseteq shown.tools
  BY DEF DisplayInv, DisplayTypeOK, RecordIsTrue, EveryChunkHasItsStream
<1>2. m.phase \in {"busy", "idle"}
  BY DEF Signals
<1>3. /\ shown' = [shown EXCEPT !.running = (m.phase = "busy")]
      /\ hub' = IF m.phase = "busy" THEN [hub EXCEPT !.running = TRUE]
                ELSE [hub EXCEPT !.running = FALSE, !.tools = {}]
      /\ ~strayed'
  BY <1>1 DEF OnActivity
<1>4. /\ hub' \in Hubs /\ shown' \in Records
      /\ hub'.preview = hub.preview /\ hub'.thinking = hub.thinking
      /\ shown'.preview = shown.preview /\ shown'.thinking = shown.thinking
      /\ shown'.tools = shown.tools /\ hub'.tools \subseteq hub.tools
      /\ hub'.running = shown'.running /\ (hub'.running <=> m.phase = "busy")
  <2>1. CASE m.phase = "busy"
    BY <1>1, <1>3, <2>1 DEF Hubs, Records
  <2>2. CASE m.phase = "idle"
    BY <1>1, <1>3, <2>2 DEF Hubs, Records
  <2>3. QED
    BY <1>2, <2>1, <2>2
<1>5. ~Changes(m, "preview") /\ ~Changes(m, "thinking") /\ Changes(m, "activity") /\ Value(m) = m.phase
  BY <1>2 DEF Changes, Value
<1>6. Activity(hub'.running) = m.phase
  BY <1>2, <1>4 DEF Activity
<1>7. \A t : ~IsTool(m, "end", t)
  BY DEF IsTool
<1>8. QED
  BY <1>1, <1>3, <1>4, <1>5, <1>6, <1>7 DEF Heard, Now

\* A request, or the withdrawal of one, shows nothing.
LEMMA HearsRequest ==
  ASSUME DisplayInv, NEW m \in Signals, m.kind \in {"request", "abort"},
         UNCHANGED <<hub, shown, strayed>>
  PROVE  Heard(m)
<1>1. /\ hub \in Hubs /\ shown \in Records /\ ~strayed
      /\ hub.preview = shown.preview /\ hub.thinking = shown.thinking
      /\ hub.running = shown.running /\ hub.tools \subseteq shown.tools
  BY DEF DisplayInv, DisplayTypeOK, RecordIsTrue, EveryChunkHasItsStream
<1>2. \A kind \in {"preview", "thinking", "activity"} : ~Changes(m, kind)
  BY DEF Changes
<1>3. \A t : ~IsTool(m, "end", t)
  BY DEF IsTool
<1>4. QED
  BY <1>1, <1>2, <1>3 DEF Heard

\* The Host receives what the Worker posted first.
LEMMA ReceiveKeeps ==
  ASSUME DisplayInv, Receive
  PROVE  DisplayInv'
<1> USE DEF streamVars, turnVars, boundVars
<1> DEFINE m == Head(toHost)
<1>1. /\ process # "none" /\ toHost # <<>> /\ toHost' = Tail(toHost)
      /\ UNCHANGED <<process, advertised, trigger, stream, slot, heldBack, thought, delivering, running,
                     toWorker, requests>>
  BY DEF Receive
<1>2. /\ toHost \in Seq(Signals) /\ trigger \in Nat /\ routes \in SUBSET Routes
      /\ PipeInOrder(toHost, hub, trigger, routes)
  BY DEF DisplayInv, DisplayTypeOK
<1>3. m \in Signals /\ Finds(hub, m)
  <2>1. m = toHost[1] /\ 1 \in 1..Len(toHost) /\ m \in Signals
    BY <1>1, <1>2
  <2> HIDE DEF m
  <2>2. Goes(m) => Meets(toHost, hub, 1, m)
    BY <1>2, <2>1 DEF PipeInOrder, Streams
  <2>3. \A kind, x : Shows(toHost, hub, 1, kind, x) <=> Now(hub, kind) = x
    BY FirstShows
  <2>4. QED
    BY <2>1, <2>2, <2>3 DEF Finds, Meets
<1> HIDE DEF m
<1>4. \/ m.kind = "preview" /\ OnPreview(m) /\ UNCHANGED hostVars
      \/ m.kind = "thinking" /\ OnThinking(m) /\ UNCHANGED hostVars
      \/ m.kind = "tool" /\ OnTool(m) /\ UNCHANGED hostVars
      \/ m.kind = "activity" /\ OnActivity(m) /\ UNCHANGED hostVars
      \/ m.kind = "request" /\ OnRequest(m)
      \/ m.kind = "abort" /\ OnAbort(m)
  BY DEF Receive, m
<1>5. Heard(m)
  <2>1. CASE m.kind = "preview" /\ OnPreview(m)
    BY <1>3, <2>1, HearsPreview
  <2>2. CASE m.kind = "thinking" /\ OnThinking(m)
    BY <1>3, <2>2, HearsThinking
  <2>3. CASE m.kind = "tool" /\ OnTool(m)
    BY <1>3, <2>3, HearsTool
  <2>4. CASE m.kind = "activity" /\ OnActivity(m)
    BY <1>3, <2>4, HearsActivity
  <2>5. CASE m.kind = "request" /\ OnRequest(m)
    <3>1. UNCHANGED <<hub, shown, strayed>>
      BY <2>5 DEF OnRequest, displayVars
    <3>2. QED
      BY <1>3, <2>5, <3>1, HearsRequest
  <2>6. CASE m.kind = "abort" /\ OnAbort(m)
    <3>1. UNCHANGED <<hub, shown, strayed>>
      BY <2>6 DEF OnAbort, displayVars
    <3>2. QED
      BY <1>3, <2>6, <3>1, HearsRequest
  <2>7. QED
    BY <1>4, <2>1, <2>2, <2>3, <2>4, <2>5, <2>6
<1>6. /\ PipeInOrder(toHost', hub', trigger, routes)
      /\ m.kind = "request" => PipeInOrder(toHost', hub', trigger, routes \cup {m})
  <2>1. \A kind \in {"preview", "thinking", "activity"} :
          Now(hub', kind) = IF Changes(m, kind) THEN Value(m) ELSE Now(hub, kind)
    BY <1>5 DEF Heard
  <2>2. QED
    BY <1>1, <1>2, <2>1, Take DEF m
<1>7. /\ routes' \in SUBSET Routes /\ active' \in Routes \cup {None}
      /\ PipeInOrder(toHost', hub', trigger, routes')
  <2>0. active \in Routes \cup {None}
    BY DEF DisplayInv, DisplayTypeOK
  <2>1. CASE UNCHANGED hostVars
    BY <1>2, <1>6, <2>0, <2>1 DEF hostVars
  <2>2. CASE m.kind = "request" /\ OnRequest(m)
    <3>1. m \in Routes
      BY <1>3, <2>2 DEF Signals, Routes
    <3>2. QED
      BY <1>2, <1>6, <2>2, <3>1 DEF OnRequest
  <2>3. CASE m.kind = "abort" /\ OnAbort(m)
    <3>1. routes' \subseteq routes /\ active' \in {active, None}
      BY <2>3 DEF OnAbort, Released
    <3>2. PipeInOrder(toHost', hub', trigger, routes')
      BY <1>2, <1>6, <3>1, StaysInOrder
    <3>3. QED
      BY <1>2, <2>0, <3>1, <3>2
  <2>4. QED
    BY <1>4, <2>1, <2>2, <2>3
<1>8. ASSUME NEW kind \in {"preview", "thinking", "activity"}, NEW x, Ends(toHost, hub, kind, x)
      PROVE  Ends(toHost', hub', kind, x)
  <2>1. Now(hub', kind) = IF Changes(Head(toHost), kind) THEN Value(Head(toHost)) ELSE Now(hub, kind)
    BY <1>5 DEF Heard, m
  <2>2. QED
    BY <1>1, <1>2, <1>8, <2>1, TakeShows
<1>9. ASSUME ToolsEnd(toHost, hub, running)
      PROVE  ToolsEnd(toHost', hub', running)
  <2>1. \A t \in hub'.tools : \/ t \in hub.tools /\ ~IsTool(Head(toHost), "end", t)
                              \/ IsTool(Head(toHost), "start", t)
    BY <1>5 DEF Heard, m
  <2>2. QED
    BY <1>1, <1>2, <1>9, <2>1, TakeTools
<1>10. PipeTellsTheWorker'
  BY <1>1, <1>8, <1>9 DEF DisplayInv, PipeTellsTheWorker, Left
<1>11. DisplayTypeOK'
  BY <1>1, <1>5, <1>6, <1>7 DEF DisplayInv, DisplayTypeOK, Heard, PipeInOrder
<1>12. EmitterInStep' /\ AnswersAreLate'
  <2>1. EmitterInStep'
    BY <1>1 DEF DisplayInv, EmitterInStep, Idle
  <2>2. QED
    BY <1>1, <2>1 DEF DisplayInv, AnswersAreLate
<1>13. RecordIsTrue' /\ EveryChunkHasItsStream'
  BY <1>1, <1>5 DEF RecordIsTrue, Heard, EveryChunkHasItsStream
<1>14. QED
  BY <1>1, <1>7, <1>10, <1>11, <1>12, <1>13 DEF DisplayInv

\* What the Host adds to the pipe to the Worker
LEMMA AppendAnswers ==
  ASSUME NEW r \in Seq(Replies), NEW m \in Replies
  PROVE  /\ Append(r, m) \in Seq(Replies)
         /\ \A y : Answering(Append(r, m), y) =>
              \/ Answering(r, y)
              \/ m.kind = "response" /\ m.op = "output" /\ m.output = y
<1> DEFINE p == Append(r, m)
<1>1. /\ Len(p) = Len(r) + 1 /\ Len(r) \in Nat
      /\ \A i \in 1..Len(r) : p[i] = r[i]
      /\ p[Len(r) + 1] = m
      /\ p \in Seq(Replies)
      /\ \A i \in 1..Len(p) : i \in 1..Len(r) \/ i = Len(r) + 1
  OBVIOUS
<1> HIDE DEF p
<1>2. QED
  BY <1>1 DEF Answering, p

\* What a step of the Host that shows the same has to keep
LEMMA HostKeeps ==
  ASSUME DisplayInv,
         UNCHANGED <<process, advertised, trigger, stream, slot, heldBack, thought, delivering, running,
                     toHost, shown, hub, strayed>>,
         requests' \in Nat,
         process # "none",
         routes' \subseteq routes, active' \in {active, None},
         toWorker' \in Seq(Replies),
         process # "alive" => toWorker' = toWorker,
         \A y : Answering(toWorker', y) => Answering(toWorker, y)
  PROVE  DisplayInv'
<1>1. PipeInOrder(toHost, hub, trigger, routes')
  BY StaysInOrder DEF DisplayInv, DisplayTypeOK
<1>2. DisplayTypeOK'
  BY DEF DisplayInv, DisplayTypeOK
<1>3. EmitterInStep'
  BY DEF DisplayInv, EmitterInStep, Idle
<1>4. AnswersAreLate'
  BY DEF DisplayInv, AnswersAreLate
<1>5. PipeTellsTheWorker'
  <2> SUFFICES ASSUME process = "alive"
               PROVE  PipeTellsTheWorker'
    BY DEF PipeTellsTheWorker
  <2>1. stream \notin Showing => Left(toHost, hub, slot, toWorker')
    BY AliveFacts DEF Left
  <2>2. QED
    BY <2>1, AliveFacts DEF PipeTellsTheWorker
<1>6. RecordIsTrue' /\ EveryChunkHasItsStream'
  BY DEF DisplayInv, RecordIsTrue, EveryChunkHasItsStream
<1>7. QED
  BY <1>1, <1>2, <1>3, <1>4, <1>5, <1>6 DEF DisplayInv

\* A chunk is sent, the model's answer too; another request ends.
LEMMA SpeechKeeps ==
  ASSUME DisplayInv, Speak \/ EndSpeech \/ EndOther
  PROVE  DisplayInv'
<1> USE DEF streamVars, turnVars, displayVars, boundVars
<1>0. /\ toWorker \in Seq(Replies) /\ routes \in SUBSET Routes /\ active \in Routes \cup {None}
      /\ requests \in Nat /\ (process = "none" => routes = {})
  BY DEF DisplayInv, DisplayTypeOK, RecordIsTrue
<1>1. CASE Speak
  <2>1. PICK phase \in {"text", "thought"} :
          toWorker' = Append(toWorker, Signal("delta", phase, Address))
    BY <1>1 DEF Speak
  <2>2. Address \in Nat
    BY <1>0 DEF Address, Routes
  <2>3. /\ Signal("delta", phase, Address) \in Replies
        /\ Signal("delta", phase, Address).kind = "delta"
    BY <2>2 DEF Signal, Replies
  <2>4. /\ toWorker' \in Seq(Replies)
        /\ \A y : Answering(toWorker', y) => Answering(toWorker, y)
    BY <1>0, <2>1, <2>3, AppendAnswers
  <2>5. /\ process = "alive"
        /\ UNCHANGED <<process, advertised, trigger, stream, slot, heldBack, thought, delivering, running,
                       toHost, shown, hub, strayed, requests, routes, active>>
    BY <1>1 DEF Speak
  <2>6. QED
    BY <1>0, <2>4, <2>5, HostKeeps
<1>2. CASE EndSpeech
  <2>1. PICK r \in routes : \E phase \in {"ok", "failed"} :
          r.phase = "llm" /\ Respond(r, phase) /\ requests' = requests /\ UNCHANGED <<shown, hub>>
    BY <1>2 DEF EndSpeech
  <2>2. PICK phase \in {"ok", "failed"} :
          r.phase = "llm" /\ Respond(r, phase) /\ requests' = requests /\ UNCHANGED <<shown, hub>>
    BY <2>1
  <2> DEFINE m == [kind |-> "response", op |-> r.phase, phase |-> phase, output |-> r.output]
  <2>3. m \in Replies /\ m.op = "llm"
    BY <1>0, <2>2 DEF Replies, Routes
  <2> HIDE DEF m
  <2>4. /\ routes' \subseteq routes /\ active' \in {active, None}
        /\ toWorker' = IF process = "alive" THEN Append(toWorker, m) ELSE toWorker
        /\ UNCHANGED <<process, advertised, trigger, stream, slot, heldBack, thought, delivering, running,
                       toHost, strayed>>
    BY <2>2 DEF Respond, Released, m
  <2>5. /\ toWorker' \in Seq(Replies)
        /\ \A y : Answering(toWorker', y) => Answering(toWorker, y)
    BY <1>0, <2>3, <2>4, AppendAnswers
  <2>6. QED
    BY <1>0, <2>2, <2>4, <2>5, HostKeeps
<1>3. CASE EndOther
  <2>1. PICK r \in routes :
          /\ routes' = routes \ {r} /\ active' = Released(r)
          /\ UNCHANGED <<process, advertised, trigger, stream, slot, heldBack, thought, delivering, running,
                         toHost, toWorker, shown, hub, strayed, requests>>
    BY <1>3 DEF EndOther
  <2>2. routes' \subseteq routes /\ active' \in {active, None}
    BY <2>1 DEF Released
  <2>3. QED
    BY <1>0, <2>1, <2>2, HostKeeps
<1>4. QED
  BY <1>1, <1>2, <1>3

\* The final text takes the place of the preview of y: what the pipe says of others stays.
LEMMA ReplacedShows ==
  ASSUME NEW q, Len(q) \in Nat, NEW h \in Hubs, NEW y, NEW g,
         g = IF h.preview = y THEN [h EXCEPT !.preview = None, !.text = 0] ELSE h
  PROVE  /\ \A i, kind, x : kind # "preview" \/ x # y =>
              (Shows(q, h, i, kind, x) => Shows(q, g, i, kind, x))
         /\ \A ts : ToolsEnd(q, h, ts) => ToolsEnd(q, g, ts)
<1>1. /\ g.thinking = h.thinking /\ g.running = h.running /\ g.tools = h.tools
      /\ g.preview = IF h.preview = y THEN None ELSE h.preview
  BY DEF Hubs
<1>2. \A kind, x : (kind # "preview" \/ x # y) /\ Now(h, kind) = x => Now(g, kind) = x
  BY <1>1 DEF Now
<1>3. ASSUME NEW i, NEW kind, NEW x, kind # "preview" \/ x # y, Shows(q, h, i, kind, x)
      PROVE  Shows(q, g, i, kind, x)
  BY <1>2, <1>3 DEF Shows
<1>4. \A ts : ToolsEnd(q, h, ts) => ToolsEnd(q, g, ts)
  BY <1>1 DEF ToolsEnd
<1>5. QED
  BY <1>3, <1>4

\* What it says of y comes to nothing.
LEMMA ReplacedEnds ==
  ASSUME NEW q, Len(q) \in Nat, NEW h \in Hubs, NEW y, NEW g,
         g = IF h.preview = y THEN [h EXCEPT !.preview = None, !.text = 0] ELSE h,
         \A j \in 1..Len(q) : Changes(q[j], "preview") => Value(q[j]) # y,
         NEW i \in 1..(Len(q) + 1), Shows(q, h, i, "preview", y)
  PROVE  Shows(q, g, i, "preview", None)
<1>1. g.preview = IF h.preview = y THEN None ELSE h.preview
  BY DEF Hubs
<1>2. /\ Now(h, "preview") = y
      /\ \A k \in 1..(i - 1) : ~Changes(q[k], "preview")
  <2>1. ASSUME NEW j \in 1..(i - 1), Changes(q[j], "preview"), Value(q[j]) = y
        PROVE  FALSE
    <3>1. j \in 1..Len(q)
      OBVIOUS
    <3>2. QED
      BY <2>1, <3>1
  <2>2. QED
    BY <2>1 DEF Shows
<1>3. Now(g, "preview") = None
  BY <1>1, <1>2 DEF Now
<1>4. QED
  BY <1>2, <1>3 DEF Shows

\* An output was delivered, in the Host.
LEMMA EndOutputKeeps ==
  ASSUME DisplayInv, EndOutput
  PROVE  DisplayInv'
<1> USE DEF streamVars, turnVars, boundVars
<1>1. PICK r \in routes :
        /\ r.phase = "output"
        /\ hub' = IF hub.preview = r.output
                  THEN [hub EXCEPT !.preview = None, !.text = 0] ELSE hub
        /\ shown' = IF shown.preview = r.output
                    THEN [shown EXCEPT !.preview = None] ELSE shown
        /\ Respond(r, "ok") /\ requests' = requests
  BY DEF EndOutput
<1> DEFINE y == r.output
           m == [kind |-> "response", op |-> "output", phase |-> "ok", output |-> y]
<1>2. /\ process # "none" /\ routes \in SUBSET Routes /\ active \in Routes \cup {None}
      /\ hub \in Hubs /\ shown \in Records /\ trigger \in Nat /\ toHost \in Seq(Signals)
      /\ toWorker \in Seq(Replies) /\ None \notin Nat
      /\ PipeInOrder(toHost, hub, trigger, routes)
      /\ hub.preview = shown.preview /\ hub.thinking = shown.thinking
      /\ hub.running = shown.running /\ hub.tools \subseteq shown.tools
  BY FaultsAssumption DEF DisplayInv, DisplayTypeOK, RecordIsTrue
<1>3. /\ y \in Nat /\ y < trigger
      /\ \A j \in 1..Len(toHost) : ~Continues(toHost[j], y)
  BY <1>1, <1>2 DEF PipeInOrder, OutputsFollow, Routes
<1>4. m \in Replies
  BY <1>3 DEF Replies
<1>5. /\ routes' = routes \ {r} /\ active' \in {active, None}
      /\ toWorker' = IF process = "alive" THEN Append(toWorker, m) ELSE toWorker
      /\ UNCHANGED <<process, advertised, trigger, stream, slot, heldBack, thought, delivering, running,
                     toHost, strayed>>
  BY <1>1 DEF Respond, Released
<1> HIDE DEF m
<1>6. /\ toWorker' \in Seq(Replies)
      /\ \A z : Answering(toWorker', z) => Answering(toWorker, z) \/ z = y
      /\ process # "alive" => toWorker' = toWorker
  <2>1. m.output = y
    BY DEF m
  <2>2. QED
    BY <1>2, <1>4, <1>5, <2>1, AppendAnswers
<1>7. /\ hub' = IF hub.preview = y THEN [hub EXCEPT !.preview = None, !.text = 0] ELSE hub
      /\ shown' = IF shown.preview = y THEN [shown EXCEPT !.preview = None] ELSE shown
  BY <1>1
<1> HIDE DEF y
<1>8. /\ hub' \in Hubs /\ shown' \in Records
      /\ hub'.preview = shown'.preview /\ hub'.thinking = shown'.thinking
      /\ hub'.running = shown'.running /\ hub'.tools \subseteq shown'.tools
  BY <1>2, <1>7 DEF Hubs, Records
<1>9. /\ \A i, kind, x : kind # "preview" \/ x # y =>
           (Shows(toHost, hub, i, kind, x) => Shows(toHost, hub', i, kind, x))
      /\ \A x : x # y /\ Ends(toHost, hub, "preview", x) => Ends(toHost, hub', "preview", x)
      /\ \A i \in 1..(Len(toHost) + 1) :
           Shows(toHost, hub, i, "preview", y) => Shows(toHost, hub', i, "preview", None)
      /\ Ends(toHost, hub, "preview", y) => Ends(toHost, hub', "preview", None)
      /\ \A ts : ToolsEnd(toHost, hub, ts) => ToolsEnd(toHost, hub', ts)
  <2>1. \A j \in 1..Len(toHost) : Changes(toHost[j], "preview") => Value(toHost[j]) # y
    <3> SUFFICES ASSUME NEW j \in 1..Len(toHost), Changes(toHost[j], "preview")
                 PROVE  Value(toHost[j]) # y
      OBVIOUS
    <3>1. ~Continues(toHost[j], y)
      BY <1>3
    <3>2. QED
      BY <1>2, <1>3, <3>1 DEF Changes, Value, Continues
  <2>0. Len(toHost) \in Nat /\ Len(toHost) + 1 \in 1..(Len(toHost) + 1)
    BY <1>2
  <2>2. \A i, kind, x : kind # "preview" \/ x # y =>
          (Shows(toHost, hub, i, kind, x) => Shows(toHost, hub', i, kind, x))
    BY <1>2, <1>7, <2>0, ReplacedShows
  <2>3. \A i \in 1..(Len(toHost) + 1) :
          Shows(toHost, hub, i, "preview", y) => Shows(toHost, hub', i, "preview", None)
    BY <1>2, <1>7, <2>0, <2>1, ReplacedEnds
  <2>4. \A ts : ToolsEnd(toHost, hub, ts) => ToolsEnd(toHost, hub', ts)
    BY <1>2, <1>7, <2>0, ReplacedShows
  <2>5. QED
    BY <2>0, <2>2, <2>3, <2>4 DEF Ends
<1>10. PipeInOrder(toHost, hub', trigger, routes')
  <2>1. Streams(toHost, hub')
    <3> SUFFICES ASSUME NEW i \in 1..Len(toHost), Goes(toHost[i])
                 PROVE  Meets(toHost, hub', i, toHost[i])
      BY DEF Streams
    <3> DEFINE n == toHost[i]
    <3>1. Meets(toHost, hub, i, n) /\ ~Continues(n, y) /\ i \in 1..(Len(toHost) + 1)
      BY <1>2, <1>3 DEF PipeInOrder, Streams
    <3> HIDE DEF n
    <3>2. Shows(toHost, hub, i, "preview", None) => Shows(toHost, hub', i, "preview", None)
      BY <1>2, <1>3, <1>9
    <3>3. CASE n.kind # "preview" \/ n.output # y
      <4>1. Shows(toHost, hub, i, n.kind, n.output) => Shows(toHost, hub', i, n.kind, n.output)
        BY <1>9, <3>3
      <4>2. Meets(toHost, hub', i, n)
        BY <3>1, <3>2, <4>1 DEF Meets
      <4>3. QED
        BY <4>2 DEF n
    <3>4. CASE n.kind = "preview" /\ n.output = y
      <4>1. Withdraws(n)
        BY <3>1, <3>4 DEF Continues, Withdraws
      <4>2. Shows(toHost, hub, i, "preview", y) => Shows(toHost, hub', i, "preview", None)
        BY <1>9, <3>1
      <4>3. Meets(toHost, hub', i, n)
        BY <3>1, <3>2, <3>4, <4>1, <4>2 DEF Meets
      <4>4. QED
        BY <4>3 DEF n
    <3>5. QED
      BY <3>3, <3>4 DEF n
  <2>2. OutputsFollow(toHost, trigger, routes')
    BY <1>2, <1>5 DEF PipeInOrder, OutputsFollow
  <2>3. QED
    BY <1>2, <2>1, <2>2 DEF PipeInOrder
<1>11. PipeTellsTheWorker'
  <2> SUFFICES ASSUME process = "alive"
               PROVE  PipeTellsTheWorker'
    BY <1>5 DEF PipeTellsTheWorker
  <2>1. /\ Ends(toHost, hub', "thinking", thought)
        /\ Ends(toHost, hub', "activity", Activity(advertised))
        /\ ToolsEnd(toHost, hub', running)
    BY <1>9, AliveFacts DEF Ends
  <2>2. stream \in Showing => Ends(toHost, hub', "preview", trigger)
    BY <1>2, <1>3, <1>9, AliveFacts
  <2>3. ASSUME stream \notin Showing
        PROVE  Left(toHost, hub', slot, toWorker')
    <3>1. Left(toHost, hub, slot, toWorker)
      BY <2>3, AliveFacts
    <3>2. Ends(toHost, hub, "preview", None) => Ends(toHost, hub', "preview", None)
      BY <1>2, <1>3, <1>9
    <3>3. CASE slot = y
      BY <1>9, <3>1, <3>2, <3>3 DEF Left
    <3>4. CASE slot # y
      BY <1>6, <1>9, <3>1, <3>2, <3>4 DEF Left
    <3>5. QED
      BY <3>3, <3>4
  <2>4. QED
    BY <1>5, <2>1, <2>2, <2>3 DEF PipeTellsTheWorker
<1>12. DisplayTypeOK'
  BY <1>1, <1>2, <1>5, <1>6, <1>8 DEF DisplayInv, DisplayTypeOK
<1>13. EmitterInStep'
  BY <1>5, <1>6 DEF DisplayInv, EmitterInStep, Idle
<1>14. AnswersAreLate'
  BY <1>3, <1>5, <1>6 DEF DisplayInv, AnswersAreLate
<1>15. RecordIsTrue' /\ EveryChunkHasItsStream'
  BY <1>2, <1>5, <1>8 DEF DisplayInv, RecordIsTrue, EveryChunkHasItsStream
<1>16. QED
  BY <1>5, <1>10, <1>11, <1>12, <1>13, <1>14, <1>15 DEF DisplayInv

\* What a Worker showed is taken away when it is closed.
LEMMA CloseGenerationKeeps ==
  ASSUME DisplayInv, CloseGeneration
  PROVE  DisplayInv'
<1> USE DEF streamVars, turnVars, boundVars
<1>1. /\ process = "dead" /\ process' = "none" /\ toHost = <<>> /\ toHost' = <<>>
      /\ hub' = Cleared /\ shown' = ShowsNothing /\ routes' = {} /\ active' = None
      /\ UNCHANGED <<advertised, trigger, stream, slot, heldBack, thought, delivering, running, toWorker,
                     strayed, requests>>
  BY DEF CloseGeneration
<1>2. /\ hub \in Hubs /\ shown \in Records /\ trigger \in Nat
      /\ hub.preview = shown.preview /\ hub.thinking = shown.thinking
      /\ hub.running = shown.running /\ hub.tools \subseteq shown.tools
  BY DEF DisplayInv, DisplayTypeOK, RecordIsTrue
<1>3. /\ hub'.preview = None /\ hub'.thinking = None /\ hub'.tools = {} /\ hub'.running = FALSE
      /\ hub' \in Hubs
  BY <1>1, <1>2 DEF Cleared, Hubs, Records
<1>4. /\ shown' \in Records /\ shown'.preview = None /\ shown'.thinking = None
      /\ shown'.tools = {} /\ shown'.running = FALSE
  BY <1>1 DEF ShowsNothing, Records
<1>5. PipeInOrder(toHost', hub', trigger, routes')
  BY <1>1 DEF PipeInOrder, Streams, OutputsFollow
<1>6. DisplayTypeOK'
  <2>1. toHost' \in Seq(Signals) /\ routes' \in SUBSET Routes
    BY <1>1
  <2>2. QED
    BY <1>1, <1>3, <1>4, <2>1 DEF DisplayInv, DisplayTypeOK
<1>7. EmitterInStep' /\ AnswersAreLate'
  BY <1>1 DEF DisplayInv, EmitterInStep, Idle, AnswersAreLate
<1>8. PipeTellsTheWorker' /\ RecordIsTrue' /\ EveryChunkHasItsStream'
  BY <1>1, <1>3, <1>4 DEF DisplayInv, PipeTellsTheWorker, RecordIsTrue, EveryChunkHasItsStream
<1>9. QED
  BY <1>1, <1>5, <1>6, <1>7, <1>8 DEF DisplayInv

\* An empty pipe shows what the hub shows, and no tool is left in it.
LEMMA EmptyPipe ==
  ASSUME NEW h, h.tools = {}
  PROVE  /\ \A kind, x : Now(h, kind) = x => Ends(<<>>, h, kind, x)
         /\ \A ts : ToolsEnd(<<>>, h, ts)
         /\ \A t : PipeInOrder(<<>>, h, t, {})
<1>1. /\ Len(<<>>) = 0 /\ 1..0 = {} /\ 1..((0 + 1) - 1) = {}
      /\ <<>> \in Seq(Signals)
  OBVIOUS
<1>2. \A kind, x : Now(h, kind) = x => Ends(<<>>, h, kind, x)
  BY <1>1 DEF Ends, Shows
<1>3. \A ts : ToolsEnd(<<>>, h, ts)
  BY <1>1 DEF ToolsEnd
<1>4. \A t : PipeInOrder(<<>>, h, t, {})
  BY <1>1 DEF PipeInOrder, Streams, OutputsFollow
<1>5. QED
  BY <1>2, <1>3, <1>4

\* A Worker is started where nothing is shown.
LEMMA StartWorkerKeeps ==
  ASSUME DisplayInv, StartWorker
  PROVE  DisplayInv'
<1> USE DEF streamVars, turnVars, boundVars, hostVars, displayVars
<1>1. /\ process = "none" /\ process' = "alive"
      /\ UNCHANGED <<advertised, trigger, stream, slot, heldBack, thought, delivering, running, toHost,
                     toWorker, routes, active, hub, shown, strayed, requests>>
  BY DEF StartWorker
<1>2. /\ stream = None /\ delivering = {} /\ running = {} /\ ~advertised /\ thought = None
      /\ slot = None /\ toWorker = <<>> /\ toHost = <<>> /\ routes = {}
      /\ hub.preview = None /\ hub.thinking = None /\ hub.tools = {} /\ ~hub.running
      /\ None \notin Showing \cup {"silent", "again"}
  BY <1>1, LiveDisplayAssumption DEF Showing, DisplayInv, EmitterInStep, Idle, RecordIsTrue
<1>3. /\ Ends(toHost, hub, "thinking", thought) /\ Ends(toHost, hub, "preview", None)
      /\ Ends(toHost, hub, "activity", Activity(advertised))
      /\ ToolsEnd(toHost, hub, running)
  BY <1>2, EmptyPipe DEF Now, Activity
<1>4. PipeTellsTheWorker'
  BY <1>1, <1>2, <1>3 DEF PipeTellsTheWorker, Left, Showing
<1>5. DisplayTypeOK'
  BY <1>1 DEF DisplayInv, DisplayTypeOK
<1>6. EmitterInStep' /\ AnswersAreLate'
  BY <1>1, <1>2 DEF DisplayInv, EmitterInStep, AnswersAreLate
<1>7. RecordIsTrue' /\ EveryChunkHasItsStream'
  BY <1>1 DEF DisplayInv, RecordIsTrue, EveryChunkHasItsStream
<1>8. QED
  BY <1>1, <1>4, <1>5, <1>6, <1>7 DEF DisplayInv

-------------------------------------------------------------------------------
\* The invariant of the display holds.
LEMMA DisplayInvHolds == LiveDisplaySpec => []DisplayInv
<1>1. LiveDisplayInit => DisplayInv
  <2> SUFFICES ASSUME LiveDisplayInit
               PROVE  DisplayInv
    OBVIOUS
  <2>1. /\ process = "alive" /\ trigger = 1 /\ stream = None /\ slot = None /\ heldBack = FALSE
        /\ thought = None
        /\ delivering = {} /\ running = {} /\ advertised = FALSE
        /\ toHost = <<>> /\ toWorker = <<>> /\ routes = {} /\ active = None
        /\ shown = ShowsNothing /\ strayed = FALSE /\ requests = 0
        /\ hub = [preview |-> None, text |-> 0, thinking |-> None, tools |-> {}, running |-> FALSE]
        /\ None \notin Showing \cup {"silent", "again"} /\ None \notin Nat
    BY FaultsAssumption, LiveDisplayAssumption DEF LiveDisplayInit, Showing
  <2>2. /\ hub \in Hubs /\ hub.preview = None /\ hub.thinking = None /\ hub.tools = {}
        /\ hub.running = FALSE
        /\ shown \in Records /\ shown.preview = None /\ shown.thinking = None /\ shown.tools = {}
        /\ shown.running = FALSE
    BY <2>1 DEF Hubs, Records, ShowsNothing
  <2>3. DisplayTypeOK
    <3>1. toHost \in Seq(Signals) /\ toWorker \in Seq(Replies) /\ delivering \in SUBSET [output : Nat, asked : BOOLEAN]
      BY <2>1
    <3>2. QED
      BY <2>1, <2>2, <3>1 DEF DisplayTypeOK
  <2>4. EmitterInStep /\ AnswersAreLate
    BY <2>1 DEF EmitterInStep, AnswersAreLate, Answering
  <2>5. /\ Ends(toHost, hub, "thinking", thought) /\ Ends(toHost, hub, "preview", None)
        /\ Ends(toHost, hub, "activity", Activity(advertised))
        /\ ToolsEnd(toHost, hub, running)
        /\ PipeInOrder(toHost, hub, trigger, routes)
    BY <2>1, <2>2, EmptyPipe DEF Now, Activity
  <2>6. PipeTellsTheWorker
    BY <2>1, <2>5 DEF PipeTellsTheWorker, Left, Showing
  <2>7. RecordIsTrue /\ EveryChunkHasItsStream
    BY <2>1, <2>2 DEF RecordIsTrue, EveryChunkHasItsStream
  <2>8. QED
    BY <2>3, <2>4, <2>5, <2>6, <2>7 DEF DisplayInv
<1>2. DisplayInv /\ [LiveDisplayNext]_liveDisplayVars => DisplayInv'
  <2> SUFFICES ASSUME DisplayInv, [LiveDisplayNext]_liveDisplayVars
               PROVE  DisplayInv'
    OBVIOUS
  <2>1. CASE WorkerStep
    <3>1. CASE BeginStream
      BY <3>1, BeginStreamKeeps
    <3>2. CASE AskModel
      BY <3>2, AskModelKeeps
    <3>3. CASE HearChunk
      BY <3>3, HearChunkKeeps
    <3>4. CASE HearAnswer
      BY <3>4, HearAnswerKeeps
    <3>5. CASE HearFailure \/ HearLate \/ StepFails
      BY <3>5, NoAnswerKeeps
    <3>6. CASE Decide
      BY <3>6, DecideKeeps
    <3>7. CASE Commit
      BY <3>7, StepCommitKeeps
    <3>8. CASE CancelCall
      BY <3>8, CancelCallKeeps
    <3>9. CASE LoseStep
      BY <3>9, LoseStepKeeps
    <3>10. CASE FindNothing \/ HoldBack
      BY <3>10, NoStepKeeps
    <3>11. CASE EndTool
      BY <3>11, EndToolKeeps
    <3>12. CASE Deliver \/ AskOther
      BY <3>12, AskKeeps
    <3>13. CASE Delivered
      BY <3>13, DeliveredKeeps
    <3>14. CASE Advertise
      BY <3>14, AdvertiseKeeps
    <3>15. QED
      BY <2>1, <3>1, <3>2, <3>3, <3>4, <3>5, <3>6, <3>7, <3>8, <3>9, <3>10, <3>11, <3>12, <3>13,
         <3>14 DEF WorkerStep
  <2>2. CASE Die
    BY <2>2, DieKeeps
  <2>3. CASE HostStep
    <3>1. CASE Receive
      BY <3>1, ReceiveKeeps
    <3>2. CASE Speak \/ EndSpeech \/ EndOther
      BY <3>2, SpeechKeeps
    <3>3. CASE EndOutput
      BY <3>3, EndOutputKeeps
    <3>4. CASE CloseGeneration
      BY <3>4, CloseGenerationKeeps
    <3>5. CASE StartWorker
      BY <3>5, StartWorkerKeeps
    <3>6. QED
      BY <2>3, <3>1, <3>2, <3>3, <3>4, <3>5 DEF HostStep
  <2>4. CASE UNCHANGED liveDisplayVars
    <3>1. UNCHANGED <<process, advertised, trigger, stream, slot, heldBack, thought, delivering,
                      running, toHost, toWorker, routes, active, hub, shown, strayed, requests>>
      BY <2>4 DEF liveDisplayVars, streamVars, turnVars, hostVars, displayVars, boundVars
    <3>2. /\ DisplayTypeOK' /\ EmitterInStep' /\ AnswersAreLate'
          /\ PipeInOrder(toHost, hub, trigger, routes)'
      BY <3>1 DEF DisplayInv, DisplayTypeOK, EmitterInStep, Idle, AnswersAreLate
    <3>3. PipeTellsTheWorker' /\ RecordIsTrue' /\ EveryChunkHasItsStream'
      BY <3>1 DEF DisplayInv, PipeTellsTheWorker, RecordIsTrue, EveryChunkHasItsStream
    <3>4. QED
      BY <3>2, <3>3 DEF DisplayInv
  <2>5. QED
    BY <2>1, <2>2, <2>3, <2>4 DEF LiveDisplayNext
<1>3. QED
  BY <1>1, <1>2, PTL DEF LiveDisplaySpec

(***************************************************************************)
(* A page is shown what the Worker does: no chunk and no end of a stream   *)
(* meets another stream than its own, in the Worker's emitter or in the    *)
(* hub, and nothing is left shown of a Session that rests or whose Worker  *)
(* ended, but the preview of a lost Step whose next advance was refused    *)
(* (delivery.py, host/worker.py, runner.py, host/supervisor.py, hub.py).   *)
(***************************************************************************)
THEOREM DisplaysAreTrue == LiveDisplaySpec => []DisplayIsTrue
<1>1. DisplayInv => DisplayIsTrue
  <2> SUFFICES ASSUME DisplayInv
               PROVE  DisplayIsTrue
    OBVIOUS
  <2>1. CASE process = "none"
    BY <2>1 DEF DisplayInv, RecordIsTrue, DisplayIsTrue, RestShowsNothing
  <2>2. CASE process = "alive" /\ Idle /\ ~advertised /\ toHost = <<>> /\ toWorker = <<>> /\ routes = {}
    <3>1. /\ Ends(toHost, hub, "thinking", None) /\ Ends(toHost, hub, "activity", "idle")
          /\ \/ Ends(toHost, hub, "preview", None)
             \/ heldBack /\ Ends(toHost, hub, "preview", slot)
          /\ ToolsEnd(toHost, hub, {})
      <4>1. thought = None /\ stream \notin Showing
        BY <2>2, AliveFacts DEF EmitterInStep, Idle, Showing
      <4>2. Left(toHost, hub, slot, toWorker)
        BY <2>2, <4>1, AliveFacts
      <4>3. slot # None => heldBack
        BY <2>2, AliveFacts DEF EmitterInStep, Idle
      <4>4. \/ Ends(toHost, hub, "preview", None)
            \/ heldBack /\ Ends(toHost, hub, "preview", slot)
        BY <4>2, <4>3 DEF Left
      <4>5. running = {} /\ Activity(advertised) = "idle"
        BY <2>2 DEF Activity, Idle
      <4>6. QED
        BY <2>2, <4>1, <4>4, <4>5, AliveFacts
    <3>2. /\ Len(<<>>) = 0 /\ 1..0 = {} /\ 1..((0 + 1) - 1) = {}
      OBVIOUS
    <3>3. /\ Now(hub, "thinking") = None /\ Now(hub, "activity") = "idle"
          /\ Now(hub, "preview") = None \/ (heldBack /\ Now(hub, "preview") = slot)
      BY <2>2, <3>1, <3>2 DEF Ends, Shows
    <3>4. hub.tools = {}
      <4>1. hub.tools \subseteq Nat
        BY DEF DisplayInv, DisplayTypeOK, Hubs
      <4>2. QED
        BY <2>2, <3>1, <3>2, <4>1 DEF ToolsEnd
    <3>5. QED
      BY <3>3, <3>4 DEF DisplayInv, DisplayIsTrue, RestShowsNothing, Now, Activity
  <2>3. CASE ~AtRest
    BY <2>3 DEF DisplayInv, DisplayIsTrue, RestShowsNothing
  <2>4. QED
    BY <2>1, <2>2, <2>3 DEF AtRest
<1>2. QED
  BY <1>1, DisplayInvHolds, PTL

===============================================================================
