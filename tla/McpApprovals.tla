----------------------------- MODULE McpApprovals -----------------------------
(***************************************************************************)
(* Proposals to change the registration of one MCP server, and what is     *)
(* left of them when the user approves (mcp/approval.py), together with    *)
(* the secrets kept beside servers.json.  Every Worker and the Host have a *)
(* control plane of their own over the same two files, whose management    *)
(* lock holds inside the process only.                                     *)
(***************************************************************************)
EXTENDS Naturals, Sequences, McpRegistry

CONSTANT Managers  \* processes with a control plane, one pending proposal each

VARIABLES
  refs,      \* for each saved configuration: the secrets it refers to, or 0
  secrets,   \* the secrets in the namespace, or 0
  given,     \* secrets the user has given so far, numbered
  manager,   \* what each process is doing
  executed,  \* the last approved change that was executed
  approvalFaults,  \* processes that have died, and calls that failed and left the files apart
  raced,     \* one process changed the files between the read and the write of another
  torn,      \* the secrets were written, or the registration removed, and what belongs to it
             \* never was: the process died, or a call failed that nothing makes up for
  orphaned   \* a configuration was saved that dropped the references of the one it replaced

savedVars == <<server, installs, refs, secrets, given>>

causeVars == <<approvalFaults, raced, torn, orphaned>>

approvalVars == <<savedVars, manager, executed, causeVars>>

NoProposal == [kind |-> "none", rev |-> 0, seen |-> 0]

Resting == [pc |-> "idle", ask |-> NoProposal, old |-> 0, new |-> 0, rec |-> None]

NotExecuted == [kind |-> "none", seen |-> 0, replaced |-> 0]

ApprovalInit ==
  /\ server = None
  /\ installs = <<>>
  /\ refs = <<>>
  /\ secrets = 0
  /\ given = 0
  /\ manager = [p \in Managers |-> Resting]
  /\ executed = NotExecuted
  /\ approvalFaults = 0
  /\ raced = FALSE
  /\ torn = FALSE
  /\ orphaned = FALSE

Current == IF server = None THEN 0 ELSE server.config

\* The secrets that the registered configuration refers to, or 0
Held == IF server = None THEN 0 ELSE refs[server.config]

\* Who has read the registry for what it saves, and has not written it
BetweenWrites(p) == manager[p].pc \in {"kept", "secret"}

\* Whoever writes one of the files
Meddles(p) == raced' = (raced \/ \E q \in Managers \ {p} : BetweenWrites(q))

Fails == approvalFaults < MaxFaults /\ approvalFaults' = approvalFaults + 1

-------------------------------------------------------------------------------
\* The propose tools: install an id that is not registered, otherwise update, recover or
\* remove what is registered, frozen with its revision.
Propose(p, kind) ==
  /\ manager[p].pc = "idle"
  /\ manager[p].ask = NoProposal
  /\ (kind = "install") = (server = None)
  /\ manager' = [manager EXCEPT ![p].ask =
       [kind |-> kind, rev |-> IF server = None THEN 0 ELSE server.rev, seen |-> Current]]
  /\ UNCHANGED <<savedVars, executed, causeVars>>

\* update_server, remove_server and test_and_enable compare the revision; the install handler
\* calls upsert_server, which does not look whether the id is registered.
Precondition(ask) == ask.kind # "install" => server # None /\ server.rev = ask.rev

\* The user approves it and the Session executes it, or it is rejected, or its condition is
\* gone.
Refused(p) ==
  /\ manager[p].pc = "idle"
  /\ manager[p].ask # NoProposal
  /\ manager' = [manager EXCEPT ![p] = Resting]
  /\ UNCHANGED <<savedVars, executed, causeVars>>

Approved(p, kinds) ==
  /\ manager[p].pc = "idle"
  /\ manager[p].ask.kind \in kinds
  /\ Precondition(manager[p].ask)

\* _resolve_refs without secrets: the references of what is registered are kept, if it is
\* reached in the same way; otherwise there are none.  The secrets stay where they are.
SavePlain(p) ==
  /\ Approved(p, {"install", "update"})
  /\ \E keeps \in {Held, 0} :
       manager' = [manager EXCEPT ![p].pc = "kept", ![p].new = keeps]
  /\ UNCHANGED <<savedVars, executed, causeVars>>

\* put_namespace has replaced the file
PutSecrets(p) ==
  /\ Approved(p, {"install", "update"})
  /\ given < MaxConfigs
  /\ given' = given + 1
  /\ secrets' = given'
  /\ Meddles(p)
  /\ UNCHANGED <<server, installs, refs, executed, orphaned>>

\* With secrets, they are written first.  The new configuration will refer to them.
SaveSecrets(p) ==
  /\ PutSecrets(p)
  /\ manager' = [manager EXCEPT ![p].pc = "secret", ![p].old = secrets, ![p].new = given']
  /\ UNCHANGED <<approvalFaults, torn>>

\* The mode of the file cannot be set after it was replaced: the secrets are new, and the
\* registry is not reached.
PutFails(p) ==
  /\ PutSecrets(p)
  /\ Fails
  /\ torn' = TRUE
  /\ manager' = [manager EXCEPT ![p] = Resting]

\* The registry has the new configuration, which refers to the secrets that were kept or given.
SaveRegistry(p) ==
  /\ BetweenWrites(p)
  /\ Upserted(FALSE)
  /\ refs' = Append(refs, manager[p].new)
  /\ executed' = [kind |-> manager[p].ask.kind, seen |-> manager[p].ask.seen,
                  replaced |-> Current]
  /\ manager' = [manager EXCEPT ![p] = [Resting EXCEPT !.pc = "saved", !.rec = server']]
  /\ orphaned' = (orphaned \/ (manager[p].pc = "kept" /\ Held # 0 /\ manager[p].new = 0))
  /\ Meddles(p)
  /\ UNCHANGED <<secrets, given, approvalFaults, torn>>

\* Mutant: the secrets that were written stay.
KeptSecrets(p) == secrets

\* The registry cannot be written: the secrets that were there before come back.
RolledBack(p) == manager[p].old

SaveFails(p) ==
  /\ BetweenWrites(p)
  /\ IF manager[p].pc = "secret" THEN secrets' = RolledBack(p) /\ Meddles(p)
     ELSE UNCHANGED <<secrets, raced>>
  /\ manager' = [manager EXCEPT ![p] = Resting]
  /\ UNCHANGED <<server, installs, refs, given, executed, approvalFaults, torn, orphaned>>

\* Neither can the secrets.
RollBackFails(p) ==
  /\ manager[p].pc = "secret"
  /\ Fails
  /\ torn' = TRUE
  /\ manager' = [manager EXCEPT ![p] = Resting]
  /\ UNCHANGED <<savedVars, executed, raced, orphaned>>

DeleteRecord(p) ==
  /\ Approved(p, {"remove"})
  /\ Removed
  /\ manager' = [manager EXCEPT ![p] = [Resting EXCEPT !.pc = "removed"]]
  /\ executed' = [kind |-> "remove", seen |-> manager[p].ask.seen, replaced |-> Current]
  /\ Meddles(p)
  /\ UNCHANGED <<refs, secrets, given, approvalFaults, torn, orphaned>>

DeleteSecrets(p) ==
  /\ manager[p].pc = "removed"
  /\ secrets' = 0
  /\ raced' = (raced \/ server # None \/ \E q \in Managers \ {p} : BetweenWrites(q))
  /\ manager' = [manager EXCEPT ![p] = Resting]
  /\ UNCHANGED <<server, installs, refs, given, executed, approvalFaults, torn, orphaned>>

\* The file of the secrets cannot be unlinked.
DeleteFails(p) ==
  /\ manager[p].pc = "removed"
  /\ Fails
  /\ torn' = TRUE
  /\ manager' = [manager EXCEPT ![p] = Resting]
  /\ UNCHANGED <<savedVars, executed, raced, orphaned>>

\* test_and_enable of what was saved or is to be recovered, under a lock of its own.
StartTest(p) ==
  /\ \/ Approved(p, {"recover"})
     \/ manager[p].pc = "saved" /\ server # None /\ server.rev = manager[p].rec.rev
  /\ manager' = [manager EXCEPT ![p] = [Resting EXCEPT !.pc = "testing", !.rec = server]]
  /\ UNCHANGED <<savedVars, executed, causeVars>>

\* The saved record has changed already, or the test fails: it stays disabled.
StopTest(p) ==
  /\ manager[p].pc \in {"saved", "testing"}
  /\ manager' = [manager EXCEPT ![p] = Resting]
  /\ UNCHANGED <<savedVars, executed, causeVars>>

Enable(p) ==
  /\ manager[p].pc = "testing"
  /\ server # None
  /\ EnabledAs(TRUE)
  /\ manager' = [manager EXCEPT ![p] = Resting]
  /\ UNCHANGED <<refs, secrets, given, executed, causeVars>>

\* The process dies.  Its proposal is in the Session's journal and is there again.
ManagerDies(p) ==
  /\ Fails
  /\ torn' = (torn \/ manager[p].pc \in {"secret", "removed"})
  /\ manager' = [manager EXCEPT ![p] = Resting]
  /\ UNCHANGED <<savedVars, executed, raced, orphaned>>

ApprovalNext ==
  \E p \in Managers :
    \/ \E kind \in {"install", "update", "recover", "remove"} : Propose(p, kind)
    \/ Refused(p)
    \/ SavePlain(p) \/ SaveSecrets(p) \/ PutFails(p)
    \/ SaveRegistry(p) \/ SaveFails(p) \/ RollBackFails(p)
    \/ DeleteRecord(p) \/ DeleteSecrets(p) \/ DeleteFails(p)
    \/ StartTest(p) \/ StopTest(p) \/ Enable(p)
    \/ ManagerDies(p)

ApprovalSpec == ApprovalInit /\ [][ApprovalNext]_approvalVars

-------------------------------------------------------------------------------
\* Properties

\* The secrets in the namespace are those the registered configuration refers to, through
\* failed writes and their roll back, and are gone with the registration (application.py:187).
\* They are not once two processes were at it at the same time, or one of the two writes was
\* never followed by the other: a death in between, a roll back or a removal of the secrets
\* that fails, a file that is replaced and reported as a failure.  And they outlast the
\* references when a server without new secrets comes to be reached in another way.
OnlyKnownSecretMixups ==
  \/ raced \/ torn
  \/ \E p \in Managers : manager[p].pc \in {"secret", "removed"}
  \/ secrets = Held
  \/ orphaned /\ server # None /\ Held = 0

\* An approved change replaces the configuration the user was shown.  Three causes break this
\* and no fourth: an install does not look, a new installation counts its revisions from 1
\* again, and two processes at once.
OnlyKnownSurprises ==
  \/ executed.kind \in {"none", "install"}
  \/ raced
  \/ executed.seen = executed.replaced
  \/ installs[executed.seen] # installs[executed.replaced]

\* What goes wrong with an approved change has one of these causes.
OnlyKnownMixups == OnlyKnownSecretMixups /\ OnlyKnownSurprises

===============================================================================
