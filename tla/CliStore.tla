-------------------------------- MODULE CliStore --------------------------------
(***************************************************************************)
(* One registered command line program (redpanda/cli): its record in       *)
(* registry.json, and the proposals to register, refresh, repair and       *)
(* remove it.  Every Session proposes and executes in a Worker of its own, *)
(* one approval at a time: the locks of the service and of the registry    *)
(* are a process's own, and what holds of the Sessions together rests on   *)
(* the revision an approval was frozen at.  A refresh and a repair run the *)
(* program for up to half a minute before they replace the record.         *)
(*                                                                         *)
(* Abstracted: where the program lies and what it prints, which is all     *)
(* that tells a refresh from a repair; the records of other programs,      *)
(* which are in the same file.                                             *)
(***************************************************************************)
EXTENDS Naturals, Faults

CONSTANTS
  Sessions,   \* each with a process, its Worker
  MaxWrites   \* bound: changes of the record

ASSUME CliAssumption == MaxWrites \in Nat

VARIABLES
  cli,       \* the record [rev, since, made], or None: its revision, and the writes that
             \* registered it and made it what it is
  asked,     \* the proposal of each Session [kind, shown], or None
  changing,  \* the approved change each Session carries out, or None
  writes,    \* changes that were written
  collided,  \* two processes read the file before either of them wrote it
  mistaken   \* changes begun on a record other than the one that was shown

cliVars == <<cli, asked, changing, writes, collided, mistaken>>

CliInit ==
  /\ cli = None
  /\ asked = [s \in Sessions |-> None]
  /\ changing = [s \in Sessions |-> None]
  /\ writes = 0
  /\ collided = FALSE
  /\ mistaken = {}

-------------------------------------------------------------------------------
\* The tools that propose refuse what the registry rules out.
Proposable == IF cli = None THEN {"install"} ELSE {"replace", "remove"}

\* Proposals: every kind but an install shows the record and freezes its revision.
Ask(s) ==
  /\ asked[s] = None /\ changing[s] = None
  /\ \E kind \in Proposable :
       asked' = [asked EXCEPT ![s] = [kind |-> kind, shown |-> cli]]
  /\ UNCHANGED <<cli, changing, writes, collided, mistaken>>

\* Rejected, or refused when it is executed.
Drop(s) ==
  /\ asked[s] # None
  /\ asked' = [asked EXCEPT ![s] = None]
  /\ UNCHANGED <<cli, changing, writes, collided, mistaken>>

Execute(s, kinds) ==
  /\ asked[s] # None
  /\ asked[s].kind \in kinds
  /\ asked' = [asked EXCEPT ![s] = None]

AtRevision(s) == cli # None /\ cli.rev = asked[s].shown.rev

\* The program runs with --help and --version.
Probe(s) ==
  changing' = [changing EXCEPT ![s] = [kind |-> asked[s].kind, base |-> cli, read |-> FALSE,
                                       found |-> None]]

BeginInstall(s) ==
  /\ Execute(s, {"install"})
  /\ cli = None
  /\ Probe(s)
  /\ UNCHANGED <<cli, writes, collided, mistaken>>

\* refresh runs the file that is registered, repair looks for it again; uninstall runs nothing.
BeginChange(s) ==
  /\ Execute(s, {"replace", "remove"})
  /\ AtRevision(s)
  /\ Probe(s)
  /\ mistaken' = IF cli = asked[s].shown THEN mistaken
                 ELSE mistaken \cup {[shown |-> asked[s].shown, on |-> cli]}
  /\ UNCHANGED <<cli, writes, collided>>

\* add refuses a name that is registered, replace and remove one that is not.
ReadRegistry(s) ==
  /\ changing[s] # None /\ ~changing[s].read
  /\ changing' = [changing EXCEPT ![s] =
                    IF (changing[s].kind = "install") = (cli = None)
                    THEN [@ EXCEPT !.read = TRUE, !.found = cli] ELSE None]
  /\ UNCHANGED <<cli, asked, writes, collided, mistaken>>

\* Mutant: the revision counts on from the record that was refreshed.
NextOfBase(change) == change.base.rev + 1

\* replace counts on from what is registered now.
NextRevision(change) == change.found.rev + 1

Written(change) ==
  CASE change.kind = "install" -> [rev |-> 1, since |-> writes, made |-> writes]
    [] change.kind = "replace" -> [rev |-> NextRevision(change),
                                   since |-> change.found.since, made |-> writes]
    [] change.kind = "remove" -> None

WriteRegistry(s) ==
  /\ changing[s] # None /\ changing[s].read
  /\ writes < MaxWrites
  /\ cli' = Written(changing[s])
  /\ writes' = writes + 1
  /\ collided' = (collided \/ cli # changing[s].found)
  /\ changing' = [changing EXCEPT ![s] = None]
  /\ UNCHANGED <<asked, mistaken>>

\* The program cannot be run, or the process dies: the registry stays as it is.
ChangeFails(s) ==
  /\ changing[s] # None
  /\ changing' = [changing EXCEPT ![s] = None]
  /\ UNCHANGED <<cli, asked, writes, collided, mistaken>>

CliNext ==
  \E s \in Sessions :
    \/ Ask(s) \/ Drop(s)
    \/ BeginInstall(s) \/ BeginChange(s)
    \/ ReadRegistry(s) \/ WriteRegistry(s) \/ ChangeFails(s)

CliSpec == CliInit /\ [][CliNext]_cliVars

-------------------------------------------------------------------------------
\* Properties

(***************************************************************************)
(* A refresh, a repair and a removal begin on the record the user was      *)
(* shown, whatever other processes refresh for however long meanwhile: the *)
(* revision they were frozen at names it.  It does not when the program    *)
(* was removed and registered again in between, whose revisions begin at 1 *)
(* again (registry.py:39, application.py:193), and may not once two        *)
(* processes have changed the file at the same instant, which no lock of   *)
(* theirs keeps them from (registry.py:17).                                *)
(***************************************************************************)
ApprovalsFindTheirRecord ==
  \A m \in mistaken : m.on.since # m.shown.since \/ collided

===============================================================================
