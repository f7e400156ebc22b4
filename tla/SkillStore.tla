------------------------------- MODULE SkillStore -------------------------------
(***************************************************************************)
(* One installed Skill: its record in registry.json, its package           *)
(* directory, the frozen update candidates, and the proposals that wait    *)
(* for the user (redpanda/skills).  Every process has a control plane of   *)
(* its own over these files, whose management lock holds inside the        *)
(* process only; the steps of one operation are its renames and its write  *)
(* of the registry.  A rename, the write and each roll back may fail.  A   *)
(* package is abstracted to the hash of its content.                       *)
(***************************************************************************)
EXTENDS Naturals, FiniteSets, Faults

CONSTANTS
  Keepers,   \* processes with a control plane, one pending proposal each
  Contents,  \* contents of the package, by their hash
  Ruin,      \* what a removal that fails half way leaves of a package
  MaxSkillRevision  \* bound: revision of the record

\* The record of the registry, and what an update candidate says of the one it was compared with
SkillRecords == [hash : Contents, rev : Nat, enabled : BOOLEAN]

Bases == [hash : Contents, rev : Nat]

ASSUME SkillAssumption ==
  /\ None \notin Contents \cup SkillRecords \cup Bases
  /\ Ruin \notin Contents \cup {None}
  /\ MaxSkillRevision \in Nat

VARIABLES
  skill,      \* the record: hash, revision, enabled; or None
  package,    \* the content of the package directory, or None
  backups,    \* contents that a failed roll back has kept in .staging
  candidates, \* .candidates/update: for each hash, the record it was compared with, or None
  keeper,     \* what each process is doing
  offer,      \* the proposal of each process, or None
  reader,     \* what a tool call of a Session is reading; again: installed anew meanwhile
  skillFaults,\* deaths, and renames and roll backs that failed
  flaws       \* what has gone wrong: a process "died" inside an operation, two "crossed", a
              \* failed rename "lost" a package, a roll back failed and left it "stuck"

skillVars == <<skill, package, backups, candidates, keeper, offer, reader, skillFaults, flaws>>

Free == [pc |-> "idle", hash |-> None, held |-> None, base |-> None]

NoRead == [pc |-> "idle", listed |-> None, got |-> None, again |-> FALSE]

SkillInit ==
  /\ skill = None
  /\ package = None
  /\ backups = {}
  /\ candidates = [h \in Contents |-> None]
  /\ keeper = [p \in Keepers |-> Free]
  /\ offer = [p \in Keepers |-> None]
  /\ reader = NoRead
  /\ skillFaults = 0
  /\ flaws = {}

Busy(p) == keeper[p].pc \notin {"idle", "checking"}

Crosses(p) == \E q \in Keepers \ {p} : Busy(q)

\* _validated_bundle: the package is there, and is what the record says.
Validated == skill # None /\ package = skill.hash

-------------------------------------------------------------------------------
\* Proposals

Offered(p, made) ==
  /\ offer' = [offer EXCEPT ![p] = made]
  /\ UNCHANGED <<skill, package, backups, reader, skillFaults, flaws>>

OfferInstall(p) ==
  /\ keeper[p] = Free /\ offer[p] = None
  /\ skill = None
  /\ \E h \in Contents : Offered(p, [kind |-> "install", hash |-> h, rev |-> 0])
  /\ UNCHANGED <<candidates, keeper>>

\* Uninstall, enable and disable freeze the revision and the hash.
OfferChange(p) ==
  /\ keeper[p] = Free /\ offer[p] = None
  /\ skill # None
  /\ \E kind \in {"uninstall", "toggle"} :
       /\ kind = "toggle" /\ ~skill.enabled => Validated
       /\ Offered(p, [kind |-> kind, hash |-> skill.hash, rev |-> skill.rev])
  /\ UNCHANGED <<candidates, keeper>>

\* check_update reads the record and the package, and then waits for the source.
BeginCheck(p) ==
  /\ keeper[p] = Free /\ offer[p] = None
  /\ Validated
  /\ keeper' = [keeper EXCEPT ![p] = [Free EXCEPT !.pc = "checking", !.base = skill]]
  /\ UNCHANGED <<skill, package, backups, candidates, offer, reader, skillFaults, flaws>>

Base(record) == [hash |-> record.hash, rev |-> record.rev]

\* freeze: candidates are found by the hash of their content.  One that was compared with
\* another record is neither replaced nor accepted.
Freeze(p) ==
  /\ keeper[p].pc = "checking"
  /\ \E h \in Contents :
       IF candidates[h] \in {None, Base(keeper[p].base)}
       THEN /\ candidates' = [candidates EXCEPT ![h] = Base(keeper[p].base)]
            /\ Offered(p, IF h = keeper[p].base.hash THEN None
                          ELSE [kind |-> "update", hash |-> h, rev |-> 0])
       ELSE UNCHANGED <<candidates, skill, package, backups, offer, reader, skillFaults, flaws>>
  /\ keeper' = [keeper EXCEPT ![p] = Free]

\* Rejected, or its precondition has gone.
Withdraw(p) ==
  /\ keeper[p] = Free /\ offer[p] # None
  /\ Offered(p, None)
  /\ UNCHANGED <<candidates, keeper>>

-------------------------------------------------------------------------------
\* What an approval executes

Agreed(p, kind) ==
  /\ keeper[p] = Free /\ offer[p] # None
  /\ offer[p].kind = kind

Unchanged(p) == skill # None /\ skill.rev = offer[p].rev /\ skill.hash = offer[p].hash

\* A step of an operation, and what goes wrong in it
StepWith(p, next, causes) ==
  /\ keeper' = [keeper EXCEPT ![p] = next]
  /\ offer' = [offer EXCEPT ![p] = None]
  /\ flaws' = flaws \cup causes \cup IF Crosses(p) THEN {"crossed"} ELSE {}
  /\ UNCHANGED candidates

Step(p, next) == StepWith(p, next, {}) /\ UNCHANGED <<backups, skillFaults>>

\* The operation ends with an error that it could not make good.
EndsBadly(p, cause) ==
  /\ skillFaults < MaxFaults
  /\ skillFaults' = skillFaults + 1
  /\ StepWith(p, Free, {cause})

Toggle(p) ==
  /\ Agreed(p, "toggle") /\ Unchanged(p)
  /\ ~skill.enabled => Validated
  /\ skill.rev < MaxSkillRevision
  /\ skill' = [skill EXCEPT !.enabled = ~@, !.rev = @ + 1]
  /\ Step(p, Free)
  /\ UNCHANGED <<package, reader>>

\* install_bundle: nothing registered, no directory; the staged package is renamed into place.
Place(p) ==
  /\ Agreed(p, "install")
  /\ skill = None /\ package = None
  /\ package' = offer[p].hash
  /\ Step(p, [Free EXCEPT !.pc = "placed", !.hash = offer[p].hash])
  /\ UNCHANGED <<skill, reader>>

Add(p) ==
  /\ keeper[p].pc = "placed"
  /\ skill = None
  /\ skill' = [hash |-> keeper[p].hash, rev |-> 1, enabled |-> TRUE]
  /\ reader' = [reader EXCEPT !.again = reader # NoRead]
  /\ Step(p, Free)
  /\ UNCHANGED package

\* Mutant: the update does not look what its candidate was compared with.
AnyBase(p) == Validated

SameBase(p) == Validated /\ candidates[offer[p].hash] = Base(skill)

\* _replace_with_candidate: the package is set aside, the candidate renamed into its place,
\* and the record replaced.
SetAside(p) ==
  /\ Agreed(p, "update")
  /\ SameBase(p)
  /\ skill.rev < MaxSkillRevision
  /\ package' = None
  /\ Step(p, [Free EXCEPT !.pc = "aside", !.hash = offer[p].hash, !.held = package,
                          !.base = skill])
  /\ UNCHANGED <<skill, reader>>

SwapIn(p) ==
  /\ keeper[p].pc = "aside"
  /\ package = None
  /\ package' = keeper[p].hash
  /\ Step(p, [keeper[p] EXCEPT !.pc = "swapped"])
  /\ UNCHANGED <<skill, reader>>

\* The second rename fails: the error leaves by the outer finally, which deletes the package
\* set aside with the rest of the temporary directory.
SwapFails(p) ==
  /\ keeper[p].pc = "aside"
  /\ EndsBadly(p, "lost")
  /\ UNCHANGED <<skill, package, backups, reader>>

Replace(p) ==
  /\ keeper[p].pc = "swapped"
  /\ skill # None
  /\ skill.rev < MaxSkillRevision
  /\ skill' = [hash |-> keeper[p].hash, rev |-> skill.rev + 1,
               enabled |-> keeper[p].base.enabled]
  /\ Step(p, Free)
  /\ UNCHANGED <<package, reader>>

\* remove: the package, where there is one, is held until the registry has forgotten it.
Hold(p) ==
  /\ Agreed(p, "uninstall") /\ Unchanged(p)
  /\ package' = None
  /\ Step(p, [Free EXCEPT !.pc = "held", !.held = package])
  /\ UNCHANGED <<skill, reader>>

Forget(p) ==
  /\ keeper[p].pc = "held"
  /\ skill # None
  /\ skill' = None
  /\ Step(p, Free)
  /\ UNCHANGED <<package, reader>>

\* The registry cannot be written, or refuses: the directory becomes what it was.  A removal
\* that held nothing has nothing to put back.
PutBack(p) ==
  IF keeper[p].pc = "held" /\ keeper[p].held = None THEN package ELSE keeper[p].held

\* What was held is not renamed over a directory that is there again.
Rollback(p) ==
  /\ keeper[p].pc \in {"placed", "swapped", "held"}
  /\ keeper[p].pc = "held" => package = None \/ keeper[p].held = None
  /\ package' = PutBack(p)
  /\ Step(p, Free)
  /\ UNCHANGED <<skill, reader>>

\* What a failed roll back leaves in place: the new package, whole or in part, or nothing where
\* it was removed and the old one could not be renamed back.
Leftovers(p) ==
  {package}
    \cup (IF keeper[p].pc # "held" /\ package # None THEN {Ruin} ELSE {})
    \cup (IF keeper[p].pc = "swapped" THEN {None} ELSE {})

\* The roll back fails too: what was set aside is kept, and nothing looks there again.
RollbackFails(p) ==
  /\ \/ keeper[p].pc \in {"placed", "swapped"}
     \/ keeper[p].pc = "held" /\ keeper[p].held # None
  /\ package' \in Leftovers(p)
  /\ backups' = backups \cup ({keeper[p].held} \ {None})
  /\ EndsBadly(p, "stuck")
  /\ UNCHANGED <<skill, reader>>

\* The process dies.  What it had set aside stays in .staging, and nothing looks there again.
KeeperDies(p) ==
  /\ skillFaults < MaxFaults
  /\ keeper[p] # Free
  /\ skillFaults' = skillFaults + 1
  /\ flaws' = flaws \cup IF Busy(p) THEN {"died"} ELSE {}
  /\ keeper' = [keeper EXCEPT ![p] = Free]
  /\ UNCHANGED <<skill, package, backups, candidates, offer, reader>>

-------------------------------------------------------------------------------
\* Tool calls: the catalogue lists what was enabled when the decision was made

List ==
  /\ reader.pc = "idle"
  /\ skill # None /\ skill.enabled
  /\ reader' = [NoRead EXCEPT !.pc = "listed", !.listed = Base(skill)]
  /\ UNCHANGED <<skill, package, backups, candidates, keeper, offer, skillFaults, flaws>>

Intact(record) == package = record.hash

StillListed == skill # None /\ skill.enabled /\ skill.rev = reader.listed.rev

\* load_skill: the record is still at the listed revision, and the package is its content.
\* Anything else is an error to the model.
Load ==
  /\ reader.pc = "listed"
  /\ reader' = IF StillListed /\ Intact(skill)
               THEN [reader EXCEPT !.pc = "loaded", !.got = package]
               ELSE NoRead
  /\ UNCHANGED <<skill, package, backups, candidates, keeper, offer, skillFaults, flaws>>

Finish ==
  /\ reader.pc = "loaded"
  /\ reader' = NoRead
  /\ UNCHANGED <<skill, package, backups, candidates, keeper, offer, skillFaults, flaws>>

SkillNext ==
  \/ \E p \in Keepers :
       \/ OfferInstall(p) \/ OfferChange(p) \/ BeginCheck(p) \/ Freeze(p) \/ Withdraw(p)
       \/ Toggle(p)
       \/ Place(p) \/ Add(p)
       \/ SetAside(p) \/ SwapIn(p) \/ SwapFails(p) \/ Replace(p)
       \/ Hold(p) \/ Forget(p)
       \/ Rollback(p) \/ RollbackFails(p) \/ KeeperDies(p)
  \/ List \/ Load \/ Finish

SkillSpec == SkillInit /\ [][SkillNext]_skillVars

-------------------------------------------------------------------------------
\* Properties

\* The package directory is what the registry says, and there is none without a record; or a
\* rename failed and the package is lost until the Skill is uninstalled; or a roll back failed:
\* then a directory without a record blocks the next installation, and for a record the
\* package is kept in .staging.
Explained(record, content) ==
  \/ content = IF record = None THEN None ELSE record.hash
  \/ "lost" \in flaws /\ record # None /\ content = None
  \/ "stuck" \in flaws /\ IF record = None THEN content # None ELSE record.hash \in backups

\* Between operations the package is there as the registry has it, after failed writes and
\* their roll backs too, or the error the operation ended with explains it.  Beyond that only
\* a death inside an operation, or two processes inside one at once, break this.
OnlyKnownMismatches ==
  \/ flaws \cap {"died", "crossed"} # {}
  \/ \E p \in Keepers : Busy(p)
  \/ Explained(skill, package)

\* An update replaces the content its difference was shown against, whatever happened between
\* the check and the approval.
UpdatesWhatWasCompared ==
  \A p \in Keepers : keeper[p].pc = "aside" =>
    candidates[keeper[p].hash] = Base(keeper[p].base)

\* What load_skill gives to the model is the content of the revision the catalogue listed, in
\* the middle of an update in another process and after one that died, unless the skill was
\* uninstalled and installed again.
LoadsWhatIsListed ==
  reader.pc = "loaded" => reader.got = reader.listed.hash \/ reader.again

\* A Skill is its record and its package together, for the user who changes it and for the
\* Session that loads it, but for the known mismatches.
SkillsAreWhole == OnlyKnownMismatches /\ UpdatesWhatWasCompared /\ LoadsWhatIsListed

===============================================================================
