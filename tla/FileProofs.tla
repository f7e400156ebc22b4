------------------------------ MODULE FileProofs ------------------------------
(***************************************************************************)
(* What holds of the requests of control, of approved changes to the MCP   *)
(* registration, of the files children exchange, of publication and of the *)
(* Journals of branches, whatever the constants and the interleaving of    *)
(* processes and deaths.                                                   *)
(***************************************************************************)
EXTENDS Control, ChildFiles, Branches, Publication, McpApprovals, FiniteSetTheorems,
        WellFoundedInduction, TLAPS

-------------------------------------------------------------------------------
\* McpApprovals.

Asks == [kind : {"none", "install", "update", "recover", "remove"}, rev : Nat, seen : Nat]

ManagerRecords ==
  [pc : {"idle", "kept", "secret", "saved", "removed", "testing"}, ask : Asks, old : Nat, new : Nat,
   rec : Registrations \cup {None}]

ApprovalTyped ==
  /\ installs \in Seq(Nat)
  /\ \A c \in 1..Len(installs) : installs[c] <= c
  /\ refs \in Seq(Nat) /\ Len(refs) = Len(installs)
  /\ server # None => server \in Registrations /\ server.config \in 1..Len(installs)
  /\ secrets \in Nat /\ given \in Nat
  /\ manager \in [Managers -> ManagerRecords]
  /\ raced \in BOOLEAN /\ torn \in BOOLEAN /\ orphaned \in BOOLEAN

\* A revision of an installation is of one configuration: whoever froze the revision that is
\* registered saw the configuration that is registered.
OldAsk(ask) ==
  ask.kind \notin {"none", "install"} =>
    /\ ask.seen \in 1..Len(installs)
    /\ server # None /\ installs[server.config] = installs[ask.seen] =>
         /\ ask.rev <= server.rev
         /\ ask.rev = server.rev => ask.seen = server.config

\* Before it writes the registry a process replaces what its user saw, unless it is raced.
StillSeen(m) ==
  m.pc \in {"kept", "secret"} /\ m.ask.kind # "install" /\ ~raced =>
    /\ server # None
    /\ m.ask.seen = server.config \/ installs[m.ask.seen] # installs[server.config]

SomeRemoving == \E p \in Managers : manager[p].pc = "removed"

\* Secrets that belong with the registered configuration, or that it has dropped
Fits(some) == some = Held \/ (orphaned /\ server # None /\ Held = 0)

\* Between its two writes a process holds the secrets that were there.
CanRollBack(m) ==
  m.pc = "secret" /\ ~raced /\ ~torn => m.new = secrets /\ (Fits(m.old) \/ SomeRemoving)

\* Without secrets of its own it keeps the references of what it replaces, or none.
KeepsOrDrops(m) ==
  m.pc = "kept" /\ ~raced => m.new \in {Held, 0}

\* What holds of each process
ManagerFits(m) ==
  /\ m.pc \in {"kept", "secret"} => m.ask.kind \in {"install", "update"}
  /\ OldAsk(m.ask)
  /\ StillSeen(m)
  /\ CanRollBack(m)
  /\ KeepsOrDrops(m)

SecretsFit ==
  raced \/ torn \/ SomeRemoving \/ (\E p \in Managers : manager[p].pc = "secret") \/ Fits(secrets)

ExecutedIsOld ==
  executed.kind \in {"none", "install"}
  \/ raced
  \/ /\ executed.seen \in 1..Len(installs) /\ executed.replaced \in 1..Len(installs)
     /\ executed.seen = executed.replaced \/ installs[executed.seen] # installs[executed.replaced]

ApprovalInv ==
  /\ ApprovalTyped
  /\ \A p \in Managers : ManagerFits(manager[p])
  /\ SecretsFit
  /\ ExecutedIsOld

\* A save adds a configuration, of the installation that is registered or of a new one.
LEMMA SaveRegisters ==
  ASSUME ApprovalTyped, Upserted(FALSE)
  PROVE  LET n == Len(installs) IN
         /\ n \in Nat
         /\ server' \in Registrations /\ server' # None /\ server'.config = n + 1
         /\ installs' \in Seq(Nat) /\ Len(installs') = n + 1
         /\ \A c \in 1..n : installs'[c] = installs[c]
         /\ installs'[n + 1] = IF server = None THEN n + 1 ELSE installs[server.config]
         /\ \A c \in 1..(n + 1) : installs'[c] <= c
         /\ server # None => server'.rev = server.rev + 1
<1>1. PICK n \in Nat : n = Len(installs) /\ installs \in Seq(Nat)
  BY DEF ApprovalTyped
<1>2. PICK i : i = IF server = None THEN n + 1 ELSE installs[server.config]
  OBVIOUS
<1>3. PICK r : r = IF server = None THEN 1 ELSE server.rev + 1
  OBVIOUS
<1>4. i \in Nat /\ i <= n + 1 /\ r \in Nat \ {0}
  <2>1. CASE server = None
    BY <1>1, <1>2, <1>3, <2>1
  <2>2. CASE server # None
    <3>1. server.config \in 1..n /\ server.rev \in Nat \ {0} /\ installs[server.config] <= server.config
      BY <1>1, <2>2 DEF ApprovalTyped, Registrations
    <3> QED
      BY <1>1, <1>2, <1>3, <2>2, <3>1
  <2> QED
    BY <2>1, <2>2
<1>5. server' = Registered(n + 1, FALSE, r) /\ installs' = Append(installs, i)
  BY <1>1, <1>2, <1>3 DEF Upserted, NewConfig
<1>6. server' \in Registrations /\ server'.config = n + 1 /\ server'.rev = r
  BY <1>1, <1>4, <1>5 DEF Registered, Registrations
<1>7. server' # None
  BY <1>6, McpRegistryAssumption
<1>8. /\ installs' \in Seq(Nat) /\ Len(installs') = n + 1 /\ installs'[n + 1] = i
      /\ \A c \in 1..n : installs'[c] = installs[c]
  BY <1>1, <1>4, <1>5
<1>9. \A c \in 1..(n + 1) : installs'[c] <= c
  <2> SUFFICES ASSUME NEW c \in 1..(n + 1) PROVE installs'[c] <= c
    OBVIOUS
  <2>1. CASE c = n + 1
    BY <1>4, <1>8, <2>1
  <2>2. CASE c # n + 1
    <3>1. c \in 1..n
      BY <1>1, <2>2
    <3>2. installs[c] <= c
      BY <1>1, <3>1 DEF ApprovalTyped
    <3> QED
      BY <1>8, <3>1, <3>2
  <2> QED
    BY <2>1, <2>2
<1>10. server # None => server'.rev = server.rev + 1
  BY <1>3, <1>6
<1> QED
  BY <1>1, <1>2, <1>6, <1>7, <1>8, <1>9, <1>10

\* What was asked before a save was asked of an earlier revision.
LEMMA SaveKeepsAsks ==
  ASSUME ApprovalTyped, Upserted(FALSE), NEW ask \in Asks, OldAsk(ask)
  PROVE  OldAsk(ask)'
<1> SUFFICES ASSUME ask.kind \notin {"none", "install"}
             PROVE  OldAsk(ask)'
  BY DEF OldAsk
<1>1. PICK n \in Nat : n = Len(installs)
  BY DEF ApprovalTyped
<1>2. /\ server' \in Registrations /\ server' # None /\ server'.config = n + 1
      /\ Len(installs') = n + 1 /\ \A c \in 1..n : installs'[c] = installs[c]
      /\ installs'[n + 1] = IF server = None THEN n + 1 ELSE installs[server.config]
      /\ server # None => server'.rev = server.rev + 1
  BY <1>1, SaveRegisters
<1>3. /\ ask.seen \in 1..n /\ ask.rev \in Nat
      /\ installs[ask.seen] <= ask.seen /\ installs[ask.seen] \in Nat
  BY <1>1 DEF OldAsk, Asks, ApprovalTyped
<1>4. installs'[ask.seen] = installs[ask.seen]
  BY <1>2, <1>3
<1>5. CASE server = None
  BY <1>2, <1>3, <1>4, <1>5 DEF OldAsk
<1>6. CASE server # None
  <2>1. server.rev \in Nat /\ server'.rev = server.rev + 1
    BY <1>2, <1>6 DEF ApprovalTyped, Registrations
  <2>2. installs'[server'.config] = installs'[ask.seen] => ask.rev <= server.rev
    BY <1>2, <1>4, <1>6 DEF OldAsk
  <2> QED
    BY <1>2, <1>3, <2>1, <2>2 DEF OldAsk
<1> QED
  BY <1>5, <1>6

\* An executed change stays what it was.
LEMMA SaveKeepsExecuted ==
  ASSUME ApprovalTyped, Upserted(FALSE) \/ UNCHANGED installs, ExecutedIsOld, raced => raced',
         UNCHANGED executed
  PROVE  ExecutedIsOld'
<1>1. PICK n \in Nat : n = Len(installs)
  BY DEF ApprovalTyped
<1>2. CASE Upserted(FALSE)
  <2>1. Len(installs') = n + 1 /\ \A c \in 1..n : installs'[c] = installs[c]
    BY <1>1, <1>2, SaveRegisters
  <2> QED
    BY <1>1, <2>1 DEF ExecutedIsOld
<1> QED
  BY <1>2 DEF ExecutedIsOld

\* A process that writes nothing, or that leaves the files apart: it makes a proposal, reads what
\* it keeps, or gives up what it does.
LEMMA QuietKeeps ==
  ASSUME ApprovalInv, NEW p \in Managers, NEW next \in ManagerRecords,
         manager' = [manager EXCEPT ![p] = next],
         next.pc \notin {"secret", "removed"}, ManagerFits(next),
         UNCHANGED <<server, installs, refs, orphaned, executed>>,
         secrets' \in Nat, given' \in Nat, torn' \in BOOLEAN, raced' \in BOOLEAN,
         torn => torn', raced => raced', torn' \/ secrets' = secrets,
         manager[p].pc \in {"secret", "removed"} => torn'
  PROVE  ApprovalInv'
<1>1. /\ manager'[p] = next /\ \A q \in Managers \ {p} : manager'[q] = manager[q]
      /\ manager' \in [Managers -> ManagerRecords]
  BY DEF ApprovalInv, ApprovalTyped
<1>2. ApprovalTyped'
  BY <1>1 DEF ApprovalInv, ApprovalTyped
<1>3. /\ \A ask : OldAsk(ask)' <=> OldAsk(ask)
      /\ Held' = Held /\ \A some : Fits(some)' <=> Fits(some)
  BY DEF OldAsk, Held, Fits
<1>4. ~torn' => (SomeRemoving' <=> SomeRemoving)
  BY <1>1 DEF SomeRemoving
<1>5. ASSUME NEW m \in ManagerRecords, ManagerFits(m), m.pc = "secret" => m # next
      PROVE  ManagerFits(m)'
  <2>1. OldAsk(m.ask)' /\ StillSeen(m)' /\ KeepsOrDrops(m)'
    BY <1>3, <1>5 DEF ManagerFits, StillSeen, KeepsOrDrops
  <2>2. CanRollBack(m)'
    BY <1>3, <1>4, <1>5 DEF ManagerFits, CanRollBack
  <2> QED
    BY <1>5, <2>1, <2>2 DEF ManagerFits
<1>6. ASSUME NEW q \in Managers
      PROVE  ManagerFits(manager[q])'
  <2>1. CASE q = p
    BY <1>1, <1>5, <2>1
  <2>2. CASE q # p
    <3>1. manager'[q] = manager[q] /\ manager[q] \in ManagerRecords /\ ManagerFits(manager[q])
      BY <1>1, <2>2 DEF ApprovalInv, ApprovalTyped
    <3>2. manager[q].pc = "secret" => manager[q] # next
      OBVIOUS
    <3>3. PICK m \in ManagerRecords : m = manager[q]
      BY <3>1
    <3>4. ManagerFits(m)'
      BY <1>5, <3>1, <3>2, <3>3
    <3> QED
      BY <3>1, <3>3, <3>4 DEF ManagerFits, OldAsk, StillSeen, CanRollBack, KeepsOrDrops
  <2> QED
    BY <2>1, <2>2
<1>7. SecretsFit'
  <2>1. ~torn' => \A q \in Managers : manager[q].pc = "secret" => manager'[q].pc = "secret"
    BY <1>1
  <2> QED
    BY <1>3, <1>4, <2>1 DEF ApprovalInv, SecretsFit
<1>8. ExecutedIsOld'
  BY DEF ApprovalInv, ExecutedIsOld
<1> QED
  BY <1>2, <1>6, <1>7, <1>8 DEF ApprovalInv

\* The write of the registry
LEMMA SaveKeeps ==
  ASSUME ApprovalInv, NEW p \in Managers, SaveRegistry(p)
  PROVE  ApprovalInv'
<1>1. PICK n \in Nat : n = Len(installs)
  BY DEF ApprovalInv, ApprovalTyped
<1>2. PICK m \in ManagerRecords : m = manager[p]
  BY DEF ApprovalInv, ApprovalTyped
<1>3. /\ m.pc \in {"kept", "secret"} /\ Upserted(FALSE) /\ refs' = Append(refs, m.new)
      /\ executed' = [kind |-> m.ask.kind, seen |-> m.ask.seen, replaced |-> Current]
      /\ orphaned' = (orphaned \/ (m.pc = "kept" /\ Held # 0 /\ m.new = 0))
      /\ UNCHANGED <<secrets, given, torn>> /\ ManagerFits(m)
  BY <1>2 DEF SaveRegistry, BetweenWrites, ApprovalInv
<1>4. /\ server' \in Registrations /\ server' # None /\ server'.config = n + 1
      /\ installs' \in Seq(Nat) /\ Len(installs') = n + 1
      /\ \A c \in 1..n : installs'[c] = installs[c]
      /\ \A c \in 1..(n + 1) : installs'[c] <= c
  BY <1>1, <1>3, SaveRegisters DEF ApprovalInv
<1>5. /\ refs' \in Seq(Nat) /\ Len(refs') = n + 1 /\ refs'[n + 1] = m.new
  <2>1. PICK keeps \in Nat : keeps = m.new
    BY DEF ManagerRecords
  <2>2. refs \in Seq(Nat) /\ Len(refs) = n
    BY <1>1 DEF ApprovalInv, ApprovalTyped
  <2> QED
    BY <1>3, <2>1, <2>2
<1>6. PICK next \in ManagerRecords :
        /\ manager' = [manager EXCEPT ![p] = next]
        /\ next.pc = "saved" /\ next.ask = NoProposal
  <2>1. PICK next : next = [Resting EXCEPT !.pc = "saved", !.rec = server']
    OBVIOUS
  <2>2. next \in ManagerRecords /\ next.pc = "saved" /\ next.ask = NoProposal
    BY <1>4, <2>1 DEF Resting, NoProposal, ManagerRecords, Asks
  <2> QED
    BY <2>1, <2>2 DEF SaveRegistry
<1>7. /\ manager'[p] = next /\ \A q \in Managers \ {p} : manager'[q] = manager[q]
      /\ manager' \in [Managers -> ManagerRecords]
  BY <1>6 DEF ApprovalInv, ApprovalTyped
<1>8. raced' \in BOOLEAN /\ (raced => raced')
      /\ (~raced' => \A q \in Managers \ {p} : ~BetweenWrites(q))
  BY DEF SaveRegistry, Meddles, ApprovalInv, ApprovalTyped
<1>9. ApprovalTyped'
  <2>1. orphaned' \in BOOLEAN
    BY <1>3 DEF ApprovalInv, ApprovalTyped
  <2> QED
    BY <1>1, <1>3, <1>4, <1>5, <1>7, <1>8, <2>1 DEF ApprovalInv, ApprovalTyped
<1>10. ASSUME NEW q \in Managers
       PROVE  ManagerFits(manager[q])'
  <2>1. CASE q = p
    BY <1>6, <1>7, <2>1
       DEF ManagerFits, StillSeen, CanRollBack, KeepsOrDrops, OldAsk, NoProposal
  <2>2. CASE q # p
    <3>1. manager'[q] = manager[q] /\ manager[q].ask \in Asks /\ ManagerFits(manager[q])
      BY <1>7, <2>2 DEF ApprovalInv, ApprovalTyped, ManagerRecords
    <3>2. PICK ask \in Asks : ask = manager[q].ask
      BY <3>1
    <3>3. OldAsk(ask)'
      BY <1>3, <3>1, <3>2, SaveKeepsAsks DEF ApprovalInv, ManagerFits
    <3>4. manager'[q].pc \notin {"kept", "secret"} \/ raced'
      BY <1>8, <2>2, <3>1 DEF BetweenWrites
    <3> QED
      BY <3>1, <3>2, <3>3, <3>4 DEF ManagerFits, StillSeen, CanRollBack, KeepsOrDrops
  <2> QED
    BY <2>1, <2>2
<1>11. SecretsFit'
  <2> SUFFICES ASSUME ~raced', ~torn, ~SomeRemoving'
               PROVE  Fits(secrets)'
    BY <1>3 DEF SecretsFit
  <2>1. ~raced /\ ~SomeRemoving /\ \A q \in Managers : q # p => manager[q].pc # "secret"
    BY <1>2, <1>3, <1>6, <1>7, <1>8 DEF SomeRemoving, BetweenWrites
  <2>2. Held' = m.new /\ server' # None
    BY <1>4, <1>5 DEF Held
  <2>3. CASE m.pc = "secret"
    BY <1>3, <2>1, <2>2, <2>3 DEF ManagerFits, CanRollBack, Fits
  <2>4. CASE m.pc = "kept"
    <3>1. Fits(secrets) /\ m.new \in {Held, 0}
      BY <1>2, <1>3, <2>1, <2>4 DEF ApprovalInv, SecretsFit, ManagerFits, KeepsOrDrops
    <3>2. orphaned => orphaned'
      BY <1>3
    <3>3. CASE m.new = Held
      BY <1>3, <2>2, <3>1, <3>2, <3>3 DEF Fits
    <3>4. CASE m.new = 0 /\ Held # 0
      BY <1>3, <2>2, <2>4, <3>4 DEF Fits
    <3> QED
      BY <3>1, <3>3, <3>4
  <2> QED
    BY <1>3, <2>3, <2>4
<1>12. ExecutedIsOld'
  <2>1. CASE m.ask.kind = "install" \/ raced
    BY <1>3, <1>8, <2>1 DEF ExecutedIsOld
  <2>2. CASE m.ask.kind # "install" /\ ~raced
    <3>1. /\ executed'.seen = m.ask.seen /\ executed'.replaced = server.config
          /\ server # None /\ m.ask.kind = "update"
          /\ m.ask.seen = server.config \/ installs[m.ask.seen] # installs[server.config]
      BY <1>3, <2>2 DEF Current, ManagerFits, StillSeen
    <3>2. server.config \in 1..n /\ m.ask.seen \in 1..n
      BY <1>1, <1>3, <3>1 DEF ApprovalInv, ApprovalTyped, ManagerFits, OldAsk
    <3> QED
      BY <1>1, <1>4, <3>1, <3>2 DEF ExecutedIsOld
  <2> QED
    BY <2>1, <2>2
<1> QED
  BY <1>9, <1>10, <1>11, <1>12 DEF ApprovalInv

\* What a process saves on approval replaces what its user saw.
LEMMA ApprovedIsSeen ==
  ASSUME ApprovalInv, NEW p \in Managers, Approved(p, {"install", "update"})
  PROVE  /\ manager[p].ask.kind \in {"install", "update"} /\ OldAsk(manager[p].ask)
         /\ manager[p].ask.kind # "install" =>
              /\ server # None
              /\ manager[p].ask.seen = server.config
                 \/ installs[manager[p].ask.seen] # installs[server.config]
  BY DEF ApprovalInv, ManagerFits, OldAsk, Approved, Precondition

\* The first of two writes
LEMMA SaveSecretsKeeps ==
  ASSUME ApprovalInv, NEW p \in Managers, SaveSecrets(p)
  PROVE  ApprovalInv'
<1>1. PICK g \in Nat : g = given + 1
  BY DEF ApprovalInv, ApprovalTyped
<1>2. /\ manager[p].pc = "idle" /\ Approved(p, {"install", "update"})
      /\ UNCHANGED <<server, installs, refs, torn, orphaned, executed>>
      /\ given' = g /\ secrets' = g
      /\ manager' = [manager EXCEPT ![p].pc = "secret", ![p].old = secrets, ![p].new = g]
  BY <1>1 DEF SaveSecrets, PutSecrets, Approved
<1>3. PICK m \in ManagerRecords : m = manager[p]
  BY DEF ApprovalInv, ApprovalTyped
<1>4. PICK next : next = [m EXCEPT !.pc = "secret", !.old = secrets, !.new = g]
  OBVIOUS
<1>5. /\ next \in ManagerRecords /\ next.pc = "secret" /\ next.ask = m.ask
      /\ next.old = secrets /\ next.new = g
  BY <1>3, <1>4 DEF ManagerRecords, ApprovalInv, ApprovalTyped
<1>6. /\ manager' \in [Managers -> ManagerRecords] /\ manager'[p] = next
      /\ \A q \in Managers \ {p} : manager'[q] = manager[q]
  <2>1. manager' = [manager EXCEPT ![p] = next]
    BY <1>2, <1>3, <1>4 DEF ApprovalInv, ApprovalTyped
  <2> QED
    BY <1>5, <2>1 DEF ApprovalInv, ApprovalTyped
<1>7. raced' \in BOOLEAN /\ (raced => raced')
      /\ (~raced' => \A q \in Managers \ {p} : ~BetweenWrites(q))
  BY DEF SaveSecrets, PutSecrets, Meddles, ApprovalInv, ApprovalTyped
<1>8. ApprovalTyped'
  BY <1>2, <1>6, <1>7 DEF ApprovalInv, ApprovalTyped
<1>9. /\ \A ask : OldAsk(ask)' <=> OldAsk(ask)
      /\ Held' = Held /\ \A some : Fits(some)' <=> Fits(some)
  BY <1>2 DEF OldAsk, Held, Fits
<1>10. SomeRemoving' <=> SomeRemoving
  BY <1>2, <1>5, <1>6 DEF SomeRemoving
<1>11. ManagerFits(manager[p])'
  <2>1. OldAsk(m.ask) /\ m.ask.kind \in {"install", "update"}
    BY <1>2, <1>3, ApprovedIsSeen
  <2>2. StillSeen(manager[p])'
    <3>1. m.ask.kind # "install" =>
            /\ server # None
            /\ m.ask.seen = server.config \/ installs[m.ask.seen] # installs[server.config]
      BY <1>2, <1>3, ApprovedIsSeen
    <3>2. manager'[p].ask = m.ask /\ server' = server /\ installs' = installs
      BY <1>2, <1>5, <1>6
    <3> QED
      BY <3>1, <3>2 DEF StillSeen
  <2>3. CanRollBack(manager[p])'
    <3> SUFFICES ASSUME ~raced', ~torn'
                 PROVE  Fits(secrets) \/ SomeRemoving
      BY <1>2, <1>5, <1>6, <1>9, <1>10 DEF CanRollBack
    <3> QED
      BY <1>2, <1>7 DEF ApprovalInv, SecretsFit, BetweenWrites
  <2>4. KeepsOrDrops(manager[p])'
    BY <1>5, <1>6 DEF KeepsOrDrops
  <2> QED
    BY <1>5, <1>6, <1>9, <2>1, <2>2, <2>3, <2>4 DEF ManagerFits
<1>12. ASSUME NEW q \in Managers \ {p}
       PROVE  ManagerFits(manager[q])'
  <2>1. manager'[q] = manager[q] /\ ManagerFits(manager[q])
    BY <1>6 DEF ApprovalInv
  <2>2. manager[q].pc \notin {"kept", "secret"} \/ raced'
    BY <1>7 DEF BetweenWrites
  <2> QED
    BY <1>9, <2>1, <2>2 DEF ManagerFits, StillSeen, CanRollBack, KeepsOrDrops
<1>13. SecretsFit' /\ ExecutedIsOld'
  BY <1>2, <1>5, <1>6, <1>7 DEF ApprovalInv, SecretsFit, ExecutedIsOld
<1> QED
  BY <1>8, <1>11, <1>12, <1>13 DEF ApprovalInv

\* The steps that put the secrets back or delete them, and the removal of the registration: the
\* process ends, or has removed what it had to, and every other one before its write is raced.
LEMMA RemovalKeeps ==
  ASSUME ApprovalInv, NEW p \in Managers,
         (manager[p].pc = "secret" /\ SaveFails(p)) \/ DeleteRecord(p) \/ DeleteSecrets(p)
  PROVE  ApprovalInv'
<1>1. PICK next \in ManagerRecords :
        /\ manager' = [manager EXCEPT ![p] = next] /\ next.ask = NoProposal
        /\ next.pc = IF DeleteRecord(p) THEN "removed" ELSE "idle"
  <2>1. Resting \in ManagerRecords /\ Resting.ask = NoProposal /\ Resting.pc = "idle"
    BY DEF Resting, NoProposal, ManagerRecords, Asks
  <2>2. PICK gone : gone = [Resting EXCEPT !.pc = "removed"]
    OBVIOUS
  <2>3. gone \in ManagerRecords /\ gone.ask = NoProposal /\ gone.pc = "removed"
    BY <2>2 DEF Resting, NoProposal, ManagerRecords, Asks
  <2>4. CASE DeleteRecord(p)
    BY <2>2, <2>3, <2>4 DEF DeleteRecord
  <2>5. CASE ~DeleteRecord(p)
    BY <2>1, <2>5 DEF SaveFails, DeleteSecrets
  <2> QED
    BY <2>4, <2>5
<1>2. /\ manager' \in [Managers -> ManagerRecords] /\ manager'[p] = next
      /\ \A q \in Managers \ {p} : manager'[q] = manager[q]
  BY <1>1 DEF ApprovalInv, ApprovalTyped
<1>3. /\ raced' \in BOOLEAN /\ (raced => raced')
      /\ (~raced' => \A q \in Managers \ {p} : ~BetweenWrites(q))
      /\ UNCHANGED <<installs, refs, given, torn, orphaned>>
  BY DEF SaveFails, DeleteRecord, DeleteSecrets, Removed, Meddles, ApprovalInv, ApprovalTyped
<1>4. secrets' \in Nat /\ (server' = server \/ server' = None)
  BY DEF SaveFails, RolledBack, DeleteRecord, DeleteSecrets, Removed, ApprovalInv, ApprovalTyped,
         ManagerRecords
<1>5. ApprovalTyped'
  BY <1>2, <1>3, <1>4 DEF ApprovalInv, ApprovalTyped
<1>6. ASSUME NEW q \in Managers
      PROVE  ManagerFits(manager[q])'
  <2>1. CASE q = p
    BY <1>1, <1>2, <2>1
       DEF ManagerFits, StillSeen, CanRollBack, KeepsOrDrops, OldAsk, NoProposal
  <2>2. CASE q # p
    <3>1. /\ manager'[q] = manager[q] /\ ManagerFits(manager[q])
          /\ manager[q].pc \notin {"kept", "secret"} \/ raced'
      BY <1>2, <1>3, <2>2 DEF ApprovalInv, BetweenWrites
    <3>2. OldAsk(manager[q].ask)'
      BY <1>3, <1>4, <3>1 DEF ManagerFits, OldAsk
    <3> QED
      BY <3>1, <3>2 DEF ManagerFits, StillSeen, CanRollBack, KeepsOrDrops
  <2> QED
    BY <2>1, <2>2
<1>7. SecretsFit'
  <2> SUFFICES ASSUME ~raced', ~torn', ~SomeRemoving'
               PROVE  Fits(secrets)'
    BY DEF SecretsFit
  <2>1. CASE manager[p].pc = "secret" /\ SaveFails(p)
    <3>1. secrets' = manager[p].old /\ server' = server
      BY <2>1 DEF SaveFails, RolledBack
    <3>2. ~SomeRemoving
      BY <1>2, <2>1 DEF SomeRemoving
    <3>3. Fits(manager[p].old)
      BY <1>3, <2>1, <3>2 DEF ApprovalInv, ManagerFits, CanRollBack
    <3> QED
      BY <1>3, <3>1, <3>3 DEF Fits, Held
  <2>2. CASE DeleteRecord(p)
    BY <1>1, <1>2, <2>2 DEF SomeRemoving
  <2>3. CASE DeleteSecrets(p)
    BY <2>3 DEF DeleteSecrets, Fits, Held
  <2> QED
    BY <2>1, <2>2, <2>3
<1>8. ExecutedIsOld'
  <2>1. CASE UNCHANGED executed
    BY <1>3, <2>1 DEF ApprovalInv, ExecutedIsOld
  <2>2. CASE DeleteRecord(p)
    <3>1. /\ executed'.seen = manager[p].ask.seen /\ executed'.replaced = server.config
          /\ server # None /\ server.rev = manager[p].ask.rev /\ manager[p].ask.kind = "remove"
      BY <2>2 DEF DeleteRecord, Approved, Precondition, Current
    <3>2. /\ server.config \in 1..Len(installs) /\ manager[p].ask.seen \in 1..Len(installs)
          /\ \/ manager[p].ask.seen = server.config
             \/ installs[manager[p].ask.seen] # installs[server.config]
      BY <3>1 DEF ApprovalInv, ApprovalTyped, ManagerFits, OldAsk
    <3> QED
      BY <1>3, <3>1, <3>2 DEF ExecutedIsOld
  <2> QED
    BY <2>1, <2>2 DEF SaveFails, DeleteSecrets
<1> QED
  BY <1>5, <1>6, <1>7, <1>8 DEF ApprovalInv

\* The registration is enabled: its configuration stays, its revision may go on.
LEMMA EnableKeeps ==
  ASSUME ApprovalInv, NEW p \in Managers, Enable(p)
  PROVE  ApprovalInv'
<1>1. /\ manager' = [manager EXCEPT ![p] = Resting] /\ manager[p].pc = "testing" /\ server # None
      /\ UNCHANGED <<installs, refs, secrets, given, raced, torn, orphaned, executed>>
      /\ server' = IF server.enabled = TRUE THEN server
                   ELSE Registered(server.config, TRUE, server.rev + 1)
  BY DEF Enable, EnabledAs, causeVars
<1>2. server \in Registrations /\ server.config \in 1..Len(installs) /\ server.rev \in Nat \ {0}
  BY <1>1 DEF ApprovalInv, ApprovalTyped, Registrations
<1>3. PICK rev \in Nat \ {0} : rev = server.rev + 1
  BY <1>2
<1>4. /\ server' \in Registrations /\ server' # None /\ server'.config = server.config
      /\ server'.rev = server.rev \/ server'.rev = rev
  <2>1. server' = server \/ server' = Registered(server.config, TRUE, rev)
    BY <1>1, <1>3
  <2>2. CASE server' = server
    BY <1>1, <1>2, <2>2
  <2>3. CASE server' = Registered(server.config, TRUE, rev)
    <3>1. PICK config \in Nat : config = server.config
      BY <1>2 DEF Registrations
    <3>2. server' = [config |-> config, enabled |-> TRUE, rev |-> rev]
      BY <2>3, <3>1 DEF Registered
    <3>3. server' \in Registrations /\ server'.config = config /\ server'.rev = rev
      BY <1>3, <3>1, <3>2 DEF Registrations
    <3> QED
      BY <3>1, <3>3, McpRegistryAssumption
  <2> QED
    BY <2>1, <2>2, <2>3
<1>5. /\ Resting \in ManagerRecords /\ Resting.ask = NoProposal /\ Resting.pc = "idle"
      /\ manager' \in [Managers -> ManagerRecords] /\ manager'[p] = Resting
      /\ \A q \in Managers \ {p} : manager'[q] = manager[q]
  BY <1>1 DEF ApprovalInv, ApprovalTyped, Resting, NoProposal, ManagerRecords, Asks
<1>6. ApprovalTyped'
  BY <1>1, <1>2, <1>4, <1>5 DEF ApprovalInv, ApprovalTyped
<1>7. /\ Held' = Held /\ (\A some : Fits(some)' <=> Fits(some))
      /\ (SomeRemoving' <=> SomeRemoving)
  BY <1>1, <1>4, <1>5 DEF Held, Fits, SomeRemoving
<1>8. ASSUME NEW q \in Managers
      PROVE  ManagerFits(manager[q])'
  <2>1. CASE q = p
    BY <1>5, <2>1 DEF ManagerFits, StillSeen, CanRollBack, KeepsOrDrops, OldAsk, NoProposal
  <2>2. CASE q # p
    <3>1. manager'[q] = manager[q] /\ manager[q].ask.rev \in Nat /\ ManagerFits(manager[q])
      BY <1>5, <2>2 DEF ApprovalInv, ApprovalTyped, ManagerRecords, Asks
    <3>2. OldAsk(manager[q].ask)'
      <4>1. OldAsk(manager[q].ask)
        BY <3>1 DEF ManagerFits
      <4>2. \A r \in Nat : r <= server.rev => r <= server'.rev /\ (r = server'.rev => r = server.rev)
        BY <1>2, <1>3, <1>4
      <4> QED
        BY <1>1, <1>4, <3>1, <4>1, <4>2 DEF OldAsk
    <3>3. StillSeen(manager[q])'
      BY <1>1, <1>4, <3>1 DEF ManagerFits, StillSeen
    <3>4. CanRollBack(manager[q])' /\ KeepsOrDrops(manager[q])'
      BY <1>1, <1>7, <3>1 DEF ManagerFits, CanRollBack, KeepsOrDrops
    <3> QED
      BY <3>1, <3>2, <3>3, <3>4 DEF ManagerFits
  <2> QED
    BY <2>1, <2>2
<1>9. SecretsFit' /\ ExecutedIsOld'
  BY <1>1, <1>5, <1>7 DEF ApprovalInv, SecretsFit, ExecutedIsOld
<1> QED
  BY <1>6, <1>8, <1>9 DEF ApprovalInv

\* The invariant holds: it holds in the initial states, and every step keeps it.
LEMMA ApprovalInvHolds == ApprovalSpec => []ApprovalInv
<1>1. ApprovalInit => ApprovalInv
  <2> SUFFICES ASSUME ApprovalInit PROVE ApprovalInv
    OBVIOUS
  <2>1. installs \in Seq(Nat) /\ Len(installs) = 0 /\ refs \in Seq(Nat) /\ Len(refs) = 0
    BY DEF ApprovalInit
  <2>2. /\ Resting \in ManagerRecords /\ Resting.ask.kind = "none" /\ Resting.pc = "idle"
        /\ \A p \in Managers : manager[p] = Resting
    BY DEF ApprovalInit, Resting, NoProposal, ManagerRecords, Asks
  <2>3. ApprovalTyped
    <3>1. manager \in [Managers -> ManagerRecords]
      BY <2>2 DEF ApprovalInit
    <3>2. /\ server = None /\ secrets = 0 /\ given = 0
          /\ raced = FALSE /\ torn = FALSE /\ orphaned = FALSE
      BY DEF ApprovalInit
    <3>3. \A c \in 1..Len(installs) : installs[c] <= c
      BY <2>1
    <3>4. secrets \in Nat /\ given \in Nat /\ raced \in BOOLEAN /\ torn \in BOOLEAN /\ orphaned \in BOOLEAN
      BY <3>2
    <3>5. server # None => server \in Registrations /\ server.config \in 1..Len(installs)
      BY <3>2
    <3>6. Len(refs) = Len(installs)
      BY <2>1
    <3> QED
      BY <2>1, <3>1, <3>3, <3>4, <3>5, <3>6 DEF ApprovalTyped
  <2> QED
    BY <2>2, <2>3
       DEF ApprovalInit, ApprovalInv, ManagerFits, OldAsk, StillSeen, CanRollBack, KeepsOrDrops,
           SecretsFit, Fits, Held, ExecutedIsOld, NotExecuted
<1>2. ApprovalInv /\ [ApprovalNext]_approvalVars => ApprovalInv'
  <2> SUFFICES ASSUME ApprovalInv, [ApprovalNext]_approvalVars PROVE ApprovalInv'
    OBVIOUS
  <2>1. ASSUME NEW p \in Managers, NEW kind \in {"install", "update", "recover", "remove"},
               Propose(p, kind)
        PROVE  ApprovalInv'
    <3>1. PICK m \in ManagerRecords : m = manager[p]
      BY DEF ApprovalInv, ApprovalTyped
    <3>2. PICK ask : ask = [kind |-> kind, rev |-> IF server = None THEN 0 ELSE server.rev,
                            seen |-> Current]
      OBVIOUS
    <3>3. ask \in Asks
      <4>1. server # None => server.rev \in Nat /\ server.config \in Nat
        BY DEF ApprovalInv, ApprovalTyped, Registrations
      <4> QED
        BY <3>2, <4>1 DEF Current, Asks
    <3>4. OldAsk(ask)
      <4>1. kind # "install" => server # None /\ server.rev \in Nat /\ server.config \in 1..Len(installs)
        BY <2>1 DEF Propose, ApprovalInv, ApprovalTyped, Registrations
      <4>2. ask.kind = kind /\ (server # None => ask.rev = server.rev /\ ask.seen = server.config)
        BY <3>2 DEF Current
      <4> QED
        BY <4>1, <4>2 DEF OldAsk
    <3>5. PICK next : next = [m EXCEPT !.ask = ask]
      OBVIOUS
    <3>6. next \in ManagerRecords /\ next.ask = ask /\ next.pc = m.pc
      BY <3>1, <3>3, <3>5 DEF ManagerRecords
    <3>7. manager' = [manager EXCEPT ![p] = next] /\ m.pc = "idle"
      BY <2>1, <3>1, <3>2, <3>5 DEF Propose, ApprovalInv, ApprovalTyped
    <3>8. UNCHANGED <<server, installs, refs, secrets, given, raced, orphaned, executed, torn>>
      BY <2>1 DEF Propose, savedVars, causeVars
    <3>9. torn' \in BOOLEAN /\ raced' \in BOOLEAN /\ secrets' \in Nat /\ given' \in Nat
      BY <3>8 DEF ApprovalInv, ApprovalTyped
    <3>10. ManagerFits(next)
      BY <3>4, <3>6, <3>7 DEF ManagerFits, StillSeen, CanRollBack, KeepsOrDrops
    <3> QED
      BY <3>1, <3>6, <3>7, <3>8, <3>9, <3>10, QuietKeeps
  <2>2. ASSUME NEW p \in Managers,
               \/ Refused(p) \/ PutFails(p) \/ RollBackFails(p) \/ DeleteFails(p)
               \/ manager[p].pc = "kept" /\ SaveFails(p)
               \/ StopTest(p) \/ ManagerDies(p)
        PROVE  ApprovalInv'
    <3>1. PICK next : next = Resting
      OBVIOUS
    <3>2. next \in ManagerRecords /\ next.pc = "idle" /\ ManagerFits(next)
      BY <3>1 DEF Resting, NoProposal, ManagerRecords, Asks, ManagerFits, OldAsk, StillSeen,
                  CanRollBack, KeepsOrDrops
    <3>3. /\ manager' = [manager EXCEPT ![p] = next]
          /\ UNCHANGED <<server, installs, refs, orphaned, executed>>
      BY <2>2, <3>1 DEF Refused, PutFails, PutSecrets, RollBackFails, DeleteFails, SaveFails,
                        StopTest, ManagerDies, savedVars, causeVars
    <3>4. /\ torn' \in BOOLEAN /\ raced' \in BOOLEAN /\ (torn => torn') /\ (raced => raced')
          /\ (torn' \/ secrets' = secrets) /\ secrets' \in Nat /\ given' \in Nat
          /\ (manager[p].pc \in {"secret", "removed"} => torn')
      <4> USE DEF ApprovalInv, ApprovalTyped
      <4>1. CASE Refused(p) \/ StopTest(p)
        BY <4>1 DEF Refused, StopTest, savedVars, causeVars
      <4>2. CASE PutFails(p)
        BY <4>2 DEF PutFails, PutSecrets, Meddles
      <4>3. CASE RollBackFails(p) \/ DeleteFails(p) \/ ManagerDies(p)
        BY <4>3 DEF RollBackFails, DeleteFails, ManagerDies, savedVars
      <4>4. CASE manager[p].pc = "kept" /\ SaveFails(p)
        BY <4>4 DEF SaveFails
      <4> QED
        BY <2>2, <4>1, <4>2, <4>3, <4>4
    <3> QED
      BY <3>2, <3>3, <3>4, QuietKeeps
  <2>3. ASSUME NEW p \in Managers, StartTest(p) PROVE ApprovalInv'
    <3>1. PICK next : next = [Resting EXCEPT !.pc = "testing", !.rec = server]
      OBVIOUS
    <3>2. /\ server \in Registrations \cup {None}
          /\ manager' = [manager EXCEPT ![p] = next] /\ manager[p].pc \in {"idle", "saved"}
          /\ UNCHANGED <<server, installs, refs, secrets, given, raced, orphaned, executed, torn>>
      BY <2>3, <3>1 DEF StartTest, Approved, ApprovalInv, ApprovalTyped, savedVars, causeVars
    <3>3. next \in ManagerRecords /\ next.pc = "testing" /\ ManagerFits(next)
      BY <3>1, <3>2 DEF Resting, NoProposal, ManagerRecords, Asks, ManagerFits, OldAsk, StillSeen,
                        CanRollBack, KeepsOrDrops
    <3>4. torn' \in BOOLEAN /\ raced' \in BOOLEAN /\ secrets' \in Nat /\ given' \in Nat
      BY <3>2 DEF ApprovalInv, ApprovalTyped
    <3> QED
      BY <3>2, <3>3, <3>4, QuietKeeps
  <2>4. ASSUME NEW p \in Managers, SavePlain(p) PROVE ApprovalInv'
    <3>1. PICK keeps \in {Held, 0} :
            manager' = [manager EXCEPT ![p].pc = "kept", ![p].new = keeps]
      BY <2>4 DEF SavePlain
    <3>2. keeps \in Nat
      BY <3>1 DEF Held, ApprovalInv, ApprovalTyped
    <3>3. PICK m \in ManagerRecords : m = manager[p]
      BY DEF ApprovalInv, ApprovalTyped
    <3>4. PICK next : next = [m EXCEPT !.pc = "kept", !.new = keeps]
      OBVIOUS
    <3>5. /\ next \in ManagerRecords /\ next.pc = "kept" /\ next.ask = m.ask /\ next.new = keeps
          /\ manager' = [manager EXCEPT ![p] = next]
      BY <3>1, <3>2, <3>3, <3>4 DEF ManagerRecords, ApprovalInv, ApprovalTyped
    <3>6. /\ Approved(p, {"install", "update"}) /\ m.pc = "idle"
          /\ UNCHANGED <<server, installs, refs, secrets, given, raced, orphaned, executed, torn>>
      BY <2>4, <3>3 DEF SavePlain, Approved, savedVars, causeVars
    <3>7. ManagerFits(next)
      <4>1. /\ m.ask.kind \in {"install", "update"} /\ OldAsk(m.ask)
            /\ m.ask.kind # "install" =>
                 /\ server # None
                 /\ m.ask.seen = server.config \/ installs[m.ask.seen] # installs[server.config]
        BY <3>3, <3>6, ApprovedIsSeen
      <4> QED
        BY <3>1, <3>5, <4>1 DEF ManagerFits, StillSeen, CanRollBack, KeepsOrDrops
    <3>8. torn' \in BOOLEAN /\ raced' \in BOOLEAN /\ secrets' \in Nat /\ given' \in Nat
      BY <3>6 DEF ApprovalInv, ApprovalTyped
    <3> QED
      BY <3>3, <3>5, <3>6, <3>7, <3>8, QuietKeeps
  <2>5. CASE UNCHANGED approvalVars
    BY <2>5 DEF approvalVars, savedVars, causeVars, ApprovalInv, ApprovalTyped, ManagerFits, OldAsk,
                StillSeen, CanRollBack, KeepsOrDrops, SecretsFit, SomeRemoving, Fits, Held,
                ExecutedIsOld
  <2>6. ASSUME NEW p \in Managers, SaveFails(p)
        PROVE  manager[p].pc = "secret" \/ manager[p].pc = "kept"
    BY <2>6 DEF SaveFails, BetweenWrites
  <2> QED
    BY <2>1, <2>2, <2>3, <2>4, <2>5, <2>6, SaveKeeps, SaveSecretsKeeps, RemovalKeeps, EnableKeeps
       DEF ApprovalNext
<1> QED
  BY <1>1, <1>2, PTL DEF ApprovalSpec

\* What goes wrong with an approved change has one of the known causes (mcp/approval.py,
\* application.py): the secrets are those the registration refers to, but for races, for writes
\* that stay apart and for references that were dropped, and what is replaced is what the user
\* saw, in any number of processes and through any number of changes.
THEOREM MixupsAreKnown == ApprovalSpec => []OnlyKnownMixups
<1>1. ApprovalInv => OnlyKnownMixups
  <2> SUFFICES ASSUME ApprovalInv PROVE OnlyKnownMixups
    OBVIOUS
  <2>1. OnlyKnownSecretMixups
    <3> SUFFICES ASSUME ~raced, ~torn,
                        ~\E p \in Managers : manager[p].pc \in {"secret", "removed"}
                 PROVE  Fits(secrets)
      BY DEF OnlyKnownSecretMixups, Fits
    <3>1. ~SomeRemoving
      BY DEF SomeRemoving
    <3> QED
      BY <3>1 DEF ApprovalInv, SecretsFit
  <2>2. OnlyKnownSurprises
    BY DEF ApprovalInv, ExecutedIsOld, OnlyKnownSurprises
  <2> QED
    BY <2>1, <2>2 DEF OnlyKnownMixups
<1> QED
  BY <1>1, ApprovalInvHolds, PTL

-------------------------------------------------------------------------------
\* Control.

Phases ==
  {"requested", "proposed", "concluded", "preparation_failed", "approved", "rejected",
   "execution_started", "succeeded", "failed"}

Facts == [req : 1..MaxRequests, phase : Phases, content : Candidates \cup {None}]

\* What a task that has come to pc knows of its request
Knows(t, k) ==
  /\ k.pc \in {"preparing", "starting", "running"} => k.req \in 1..MaxRequests
  /\ k.pc = "prepared" =>
       k.fact \in Facts /\ k.fact.phase \in {"proposed", "concluded", "preparation_failed"}
  /\ k.pc = "waiting" /\ t \in Deciders =>
       k \in [pc : {"waiting"}, req : 1..MaxRequests, yes : BOOLEAN]
  /\ k.pc = "deciding" /\ t \in Deciders =>
       k \in [pc : {"deciding"}, req : 1..MaxRequests, yes : BOOLEAN]
  /\ k.pc = "starting" => k \in [pc : {"starting"}, req : 1..MaxRequests]
  /\ t = "turn" => k.pc \in {"idle", "deciding", "locked", "preparing", "prepared"}
  /\ t = "resume" => k.pc # "deciding"

ControlTyped ==
  /\ facts \in Seq(Facts)
  /\ task = [t \in Tasks |-> task[t]]
  /\ \A t \in Tasks : Knows(t, task[t])
  /\ ran \in [1..MaxRequests -> Nat]
  /\ overlapped \in BOOLEAN

\* Whoever is past waiting holds the lock, but for the turn.
Locks ==
  \A t \in Tasks \ {"turn"} : task[t].pc \notin {"idle", "waiting"} => locked = t

FactOf(req, phase) == \E i \in 1..Len(facts) : facts[i].req = req /\ facts[i].phase = phase

\* Each phase of a request is recorded once, and its execution after its approval.
OncePerPhase ==
  /\ \A i, j \in 1..Len(facts) :
       facts[i].req = facts[j].req /\ facts[i].phase = facts[j].phase => i = j
  /\ \A j \in 1..Len(facts) : facts[j].phase = "execution_started" =>
       \E i \in 1..Len(facts) : i < j /\ facts[i].req = facts[j].req /\ facts[i].phase = "approved"

\* The execution of a request is recorded before it runs, by one task.
RunsOnce ==
  /\ \A req \in 1..MaxRequests :
       ran[req] <= 1 /\ (ran[req] = 1 => FactOf(req, "execution_started"))
  /\ \A t \in Tasks : task[t].pc = "starting" =>
       /\ ran[task[t].req] = 0 /\ FactOf(task[t].req, "execution_started")
       /\ \A u \in Tasks : task[u].pc = "starting" /\ task[u].req = task[t].req => u = t

\* What a task is about to record fits what is recorded.
Claim(t, k) ==
  /\ k.pc = "preparing" => Phase(k.req) = "requested"
  /\ k.pc = "prepared" => Phase(k.fact.req) = "requested"
  /\ k.pc = "deciding" /\ t # "turn" => Phase(k.req) = "proposed"
  /\ k.pc = "deciding" /\ t = "turn" /\ k.offered => Undecided = {}
  /\ k.pc \in {"starting", "running"} => Phase(k.req) = "execution_started"

Prepares(t) == task[t].pc \in {"preparing", "prepared"}

\* Without overlapping preparations the history stays one the Session can read.
InCourse ==
  overlapped
  \/ /\ Legal
     /\ \A t \in Tasks : Claim(t, task[t])
     /\ \A t, u \in Tasks : Prepares(t) /\ Prepares(u) => t = u

ControlInv == ControlTyped /\ Locks /\ OncePerPhase /\ RunsOnce /\ InCourse

\* The facts of a request among the first n of a history, and the phase they lead to
Own(past, req, n) == {i \in 1..n : past[i].req = req}

LastOf(T) == CHOOSE i \in T : \A j \in T : j <= i

PhaseIn(past, req, n) ==
  IF Own(past, req, n) = {} THEN "none" ELSE past[LastOf(Own(past, req, n))].phase

\* Position i holds the last of the first n facts of req.
IsLastOf(past, req, n, i) ==
  /\ i \in Own(past, req, n) /\ \A j \in Own(past, req, n) : j <= i
  /\ PhaseIn(past, req, n) = past[i].phase /\ past[i].phase \in Phases

\* An inhabited set of positions has a last one.
LEMMA LastPosition ==
  ASSUME NEW n \in Nat, NEW T \in SUBSET (1..n), T # {}
  PROVE  \E i \in T : \A j \in T : j <= i
<1> DEFINE Less == {ss \in Nat \X Nat : ss[1] < ss[2]}
           S == {m \in Nat : \E i \in T : m = n - i}
<1>1. IsWellFoundedOn(Less, Nat)
  BY NatLessThanWellFounded DEF OpToRel
<1> HIDE DEF Less
<1>2. S \subseteq Nat /\ S # {}
  <2>1. PICK i \in T : TRUE
    OBVIOUS
  <2>2. n - i \in Nat
    BY <2>1
  <2> QED
    BY <2>1, <2>2
<1>3. PICK m \in S : \A k \in S : <<k, m>> \notin Less
  BY <1>1, <1>2, WFMin
<1>4. \A k \in S : ~(k < m)
  BY <1>2, <1>3 DEF Less
<1>5. PICK i \in T : m = n - i
  BY <1>3
<1>6. ASSUME NEW j \in T PROVE j <= i
  <2>1. n - j \in S
    OBVIOUS
  <2>2. ~(n - j < n - i)
    BY <1>4, <1>5, <2>1
  <2> QED
    BY <2>2
<1> QED
  BY <1>6

\* The phase of a request is that of its last fact.
LEMMA PhaseIsLast ==
  ASSUME NEW past \in Seq(Facts), NEW req, NEW n \in 0..Len(past)
  PROVE  IF Own(past, req, n) = {} THEN PhaseIn(past, req, n) = "none"
         ELSE \E i \in 1..n : IsLastOf(past, req, n, i)
<1>1. CASE Own(past, req, n) = {}
  BY <1>1 DEF PhaseIn
<1>2. CASE Own(past, req, n) # {}
  <2>1. n \in Nat /\ Own(past, req, n) \in SUBSET (1..n)
    BY DEF Own
  <2>2. PICK T : T = Own(past, req, n)
    OBVIOUS
  <2>3. PICK i : i = LastOf(T)
    OBVIOUS
  <2>4. i \in T /\ \A j \in T : j <= i
    <3>1. \E k \in T : \A j \in T : j <= k
      BY <1>2, <2>1, <2>2, LastPosition
    <3> QED
      BY <2>3, <3>1 DEF LastOf
  <2>5. PhaseIn(past, req, n) = past[i].phase
    BY <1>2, <2>2, <2>3 DEF PhaseIn
  <2>6. i \in 1..n /\ past[i] \in Facts
    BY <2>1, <2>2, <2>4
  <2>7. past[i].phase \in Phases
    BY <2>6 DEF Facts
  <2> QED
    BY <1>2, <2>2, <2>4, <2>5, <2>6, <2>7 DEF IsLastOf
<1> QED
  BY <1>1, <1>2

\* A history of n facts with f as one more
Grown(past, f, n, next) ==
  /\ next \in Seq(Facts) /\ Len(next) = n + 1 /\ next[n + 1] = f
  /\ \A i \in 1..n : next[i] = past[i]
  /\ \A req : \A i \in 0..n : PhaseIn(next, req, i) = PhaseIn(past, req, i)
  /\ PhaseIn(next, f.req, n + 1) = f.phase
  /\ \A req : req # f.req => PhaseIn(next, req, n + 1) = PhaseIn(past, req, n)

\* What is recorded stays, and one more fact is the last of its request.
LEMMA PhasesAfter ==
  ASSUME NEW past \in Seq(Facts), NEW f \in Facts, NEW n \in Nat, NEW next \in Seq(Facts),
         n = Len(past), next = Append(past, f)
  PROVE  Grown(past, f, n, next)
<1>2. /\ next \in Seq(Facts) /\ Len(next) = n + 1 /\ next[n + 1] = f
      /\ \A i \in 1..n : next[i] = past[i]
  OBVIOUS
<1>3. ASSUME NEW req, NEW i \in 0..n
      PROVE  PhaseIn(next, req, i) = PhaseIn(past, req, i)
  <2>1. Own(next, req, i) = Own(past, req, i)
    BY <1>2 DEF Own
  <2>2. i \in 0..Len(past) /\ i \in 0..Len(next)
    BY <1>2
  <2>3. CASE Own(past, req, i) = {}
    BY <2>1, <2>3 DEF PhaseIn
  <2>4. CASE Own(past, req, i) # {}
    <3>1. PICK j \in 1..i : IsLastOf(past, req, i, j)
      BY <2>2, <2>4, PhaseIsLast
    <3>2. PhaseIn(next, req, i) = next[LastOf(Own(past, req, i))].phase
          /\ PhaseIn(past, req, i) = past[LastOf(Own(past, req, i))].phase
      BY <2>1, <2>4 DEF PhaseIn
    <3>3. LastOf(Own(past, req, i)) \in Own(past, req, i)
      BY <3>1 DEF LastOf, IsLastOf
    <3>4. LastOf(Own(past, req, i)) \in 1..n
      BY <3>3 DEF Own
    <3> QED
      BY <1>2, <3>2, <3>4
  <2> QED
    BY <2>3, <2>4
<1>4. PhaseIn(next, f.req, n + 1) = f.phase
  <2>1. n + 1 \in Own(next, f.req, n + 1) /\ n + 1 \in 0..Len(next)
    BY <1>2 DEF Own
  <2>2. PICK m : m = n + 1
    OBVIOUS
  <2>3. PICK k \in 1..m : IsLastOf(next, f.req, m, k)
    BY <1>2, <2>1, <2>2, PhaseIsLast
  <2>4. k = m
    BY <2>1, <2>2, <2>3 DEF Own, IsLastOf
  <2> QED
    BY <1>2, <2>2, <2>3, <2>4 DEF IsLastOf
<1>5. ASSUME NEW req, req # f.req
      PROVE  PhaseIn(next, req, n + 1) = PhaseIn(past, req, n)
  <2>1. Own(next, req, n + 1) = Own(next, req, n)
    BY <1>2, <1>5 DEF Own
  <2>2. PhaseIn(next, req, n + 1) = PhaseIn(next, req, n)
    BY <2>1 DEF PhaseIn
  <2> QED
    BY <1>3, <2>2
<1> QED
  BY <1>2, <1>3, <1>4, <1>5 DEF Grown

\* The phases of the model are those of its history.
LEMMA PhasesOfFacts ==
  /\ \A req, n : PhaseAt(req, n) = PhaseIn(facts, req, n)
  /\ \A req : Phase(req) = PhaseIn(facts, req, Len(facts))
  BY DEF PhaseAt, PhaseIn, Own, LastOf, Phase

\* One more fact leaves every other request alone, and a legal history legal if it is its turn.
LEMMA RecordIsLast ==
  ASSUME facts \in Seq(Facts), NEW f \in Facts, facts' = Append(facts, f)
  PROVE  /\ Phase(f.req)' = f.phase
         /\ \A req : req # f.req => Phase(req)' = Phase(req)
         /\ /\ Legal /\ Phase(f.req) \notin Terminal /\ f.phase \in Allowed[Phase(f.req)]
            /\ \A req \in 1..MaxRequests : req # f.req => Phase(req) \in Terminal \cup {"none"}
            => Legal'
<1>1. PICK n \in Nat : n = Len(facts)
  OBVIOUS
<1>2. PICK past \in Seq(Facts) : past = facts
  OBVIOUS
<1>3. PICK next : next = Append(past, f)
  OBVIOUS
<1>4. /\ next \in Seq(Facts) /\ Len(next) = n + 1 /\ next[n + 1] = f
      /\ \A i \in 1..n : next[i] = past[i]
      /\ \A req : \A i \in 0..n : PhaseIn(next, req, i) = PhaseIn(past, req, i)
      /\ PhaseIn(next, f.req, n + 1) = f.phase
      /\ \A req : req # f.req => PhaseIn(next, req, n + 1) = PhaseIn(past, req, n)
  <2>1. /\ past \in Seq(Facts) /\ f \in Facts /\ n \in Nat
        /\ n = Len(past) /\ next \in Seq(Facts) /\ next = Append(past, f)
    BY <1>1, <1>2, <1>3
  <2>2. Grown(past, f, n, next)
    BY <2>1, PhasesAfter
  <2> QED
    BY <2>2 DEF Grown
<1>5. facts' = next
  BY <1>2, <1>3
<1>6. /\ \A req, i : PhaseAt(req, i)' = PhaseIn(next, req, i)
      /\ \A req : Phase(req)' = PhaseIn(next, req, n + 1)
  <2>1. /\ \A req, i : PhaseAt(req, i)' = PhaseIn(facts', req, i)
        /\ \A req : Phase(req)' = PhaseIn(facts', req, Len(facts'))
    BY DEF PhaseAt, PhaseIn, Own, LastOf, Phase
  <2> QED
    BY <1>4, <1>5, <2>1
<1>7. /\ \A req, i : PhaseAt(req, i) = PhaseIn(past, req, i)
      /\ \A req : Phase(req) = PhaseIn(past, req, n)
  BY <1>1, <1>2, PhasesOfFacts
<1>8. ASSUME Legal, Phase(f.req) \notin Terminal, f.phase \in Allowed[Phase(f.req)],
             \A req \in 1..MaxRequests : req # f.req => Phase(req) \in Terminal \cup {"none"}
      PROVE  Legal'
  <2>1. Len(facts') = n + 1
    BY <1>4, <1>5
  <2>2. /\ \A i \in 1..n : /\ PhaseIn(past, past[i].req, i - 1) \notin Terminal
                           /\ past[i].phase \in Allowed[PhaseIn(past, past[i].req, i - 1)]
                           /\ \A req \in 1..MaxRequests : req # past[i].req =>
                                PhaseIn(past, req, i - 1) \in Terminal \cup {"none"}
    BY <1>1, <1>2, <1>7, <1>8 DEF Legal
  <2>3. ASSUME NEW i \in 1..(n + 1)
        PROVE  /\ PhaseIn(next, next[i].req, i - 1) \notin Terminal
               /\ next[i].phase \in Allowed[PhaseIn(next, next[i].req, i - 1)]
               /\ \A req \in 1..MaxRequests : req # next[i].req =>
                    PhaseIn(next, req, i - 1) \in Terminal \cup {"none"}
    <3>1. PICK j : j = i - 1
      OBVIOUS
    <3>2. \A req : PhaseIn(next, req, j) = PhaseIn(past, req, j)
      BY <1>4, <2>3, <3>1
    <3>3. CASE i = n + 1
      <4>1. j = n /\ next[i] = f
        BY <1>4, <3>1, <3>3
      <4> QED
        BY <1>7, <1>8, <3>1, <3>2, <4>1
    <3>4. CASE i # n + 1
      <4>1. i \in 1..n /\ next[i] = past[i]
        BY <1>4, <2>3, <3>4
      <4> QED
        BY <2>2, <3>1, <3>2, <4>1
    <3> QED
      BY <3>3, <3>4
  <2> QED
    BY <1>5, <1>6, <2>1, <2>3 DEF Legal
<1> QED
  BY <1>4, <1>6, <1>7, <1>8

\* In a legal history one request at a time is undecided.
LEMMA OneUndecided ==
  ASSUME facts \in Seq(Facts), Legal, NEW r \in Undecided
  PROVE  \A req \in 1..MaxRequests : req # r => Phase(req) \in Terminal \cup {"none"}
<1>1. PICK n \in Nat : n = Len(facts)
  OBVIOUS
<1>2. PICK past \in Seq(Facts) : past = facts
  OBVIOUS
<1>3. /\ \A req, i : PhaseAt(req, i) = PhaseIn(past, req, i)
      /\ \A req : Phase(req) = PhaseIn(past, req, n)
  BY <1>1, <1>2, PhasesOfFacts
<1>4. r \in 1..MaxRequests /\ Phase(r) \notin Terminal \cup {"none"}
  BY DEF Undecided, Requests
<1>5. n # 0
  <2>1. n = 0 => Own(past, r, n) = {}
    BY DEF Own
  <2> QED
    BY <1>3, <1>4, <2>1 DEF PhaseIn
<1>6. ASSUME NEW req, req # past[n].req
      PROVE  Phase(req) = PhaseAt(req, n - 1)
  <2>1. Own(past, req, n) = Own(past, req, n - 1)
    BY <1>5, <1>6 DEF Own
  <2> QED
    BY <1>3, <2>1 DEF PhaseIn
<1>7. \A req \in 1..MaxRequests : req # past[n].req => PhaseAt(req, n - 1) \in Terminal \cup {"none"}
  BY <1>1, <1>2, <1>5 DEF Legal
<1>8. r = past[n].req
  BY <1>4, <1>6, <1>7
<1> QED
  BY <1>6, <1>7, <1>8

\* While nothing is recorded, nothing that is read from the facts changes.
LEMMA FactsStay ==
  ASSUME facts' = facts
  PROVE  /\ \A req : Phase(req)' = Phase(req)
         /\ Legal' <=> Legal
         /\ Undecided' = Undecided
         /\ \A req, p : FactOf(req, p)' <=> FactOf(req, p)
         /\ OncePerPhase' <=> OncePerPhase
<1>1. /\ \A req, i : PhaseAt(req, i)' = PhaseIn(facts', req, i)
      /\ \A req : Phase(req)' = PhaseIn(facts', req, Len(facts'))
  BY DEF PhaseAt, PhaseIn, Own, LastOf, Phase
<1>2. /\ \A req, i : PhaseAt(req, i)' = PhaseAt(req, i)
      /\ \A req : Phase(req)' = Phase(req)
  BY <1>1, PhasesOfFacts
<1>3. Legal' <=> Legal
  BY <1>2 DEF Legal
<1>4. Undecided' = Undecided
  BY <1>2 DEF Undecided, Requests
<1> QED
  BY <1>2, <1>3, <1>4 DEF FactOf, OncePerPhase

\* One more fact, where there was none of its kind, keeps the phases apart.
LEMMA FactsGrow ==
  ASSUME facts \in Seq(Facts), NEW f \in Facts, facts' = Append(facts, f),
         OncePerPhase, ~FactOf(f.req, f.phase),
         f.phase = "execution_started" => FactOf(f.req, "approved")
  PROVE  /\ facts' \in Seq(Facts)
         /\ OncePerPhase'
         /\ \A req, p : FactOf(req, p) => FactOf(req, p)'
         /\ FactOf(f.req, f.phase)'
<1>1. PICK n \in Nat : n = Len(facts)
  OBVIOUS
<1>2. /\ facts' \in Seq(Facts) /\ Len(facts') = n + 1 /\ facts'[n + 1] = f
      /\ \A i \in 1..n : facts'[i] = facts[i]
  BY <1>1
<1>3. \A req, p : FactOf(req, p) => FactOf(req, p)'
  BY <1>1, <1>2 DEF FactOf
<1>4. FactOf(f.req, f.phase)'
  BY <1>2 DEF FactOf
<1>5. ASSUME NEW i \in 1..(n + 1), NEW j \in 1..(n + 1),
             facts'[i].req = facts'[j].req, facts'[i].phase = facts'[j].phase
      PROVE  i = j
  <2>1. \A m \in 1..n : ~(facts[m].req = f.req /\ facts[m].phase = f.phase)
    BY <1>1 DEF FactOf
  <2>2. CASE i \in 1..n /\ j \in 1..n
    BY <1>1, <1>2, <1>5, <2>2 DEF OncePerPhase
  <2>3. CASE i \in 1..n /\ j \notin 1..n
    <3>1. j = n + 1
      BY <2>3
    <3> QED
      BY <1>2, <1>5, <2>1, <2>3, <3>1
  <2>4. CASE i \notin 1..n /\ j \in 1..n
    <3>1. i = n + 1
      BY <2>4
    <3> QED
      BY <1>2, <1>5, <2>1, <2>4, <3>1
  <2> QED
    BY <2>2, <2>3, <2>4
<1>6. ASSUME NEW j \in 1..(n + 1), facts'[j].phase = "execution_started"
      PROVE  \E i \in 1..(n + 1) :
               i < j /\ facts'[i].req = facts'[j].req /\ facts'[i].phase = "approved"
  <2>1. CASE j \in 1..n
    <3>1. \E i \in 1..n : i < j /\ facts[i].req = facts[j].req /\ facts[i].phase = "approved"
      BY <1>1, <1>2, <1>6, <2>1 DEF OncePerPhase
    <3> QED
      BY <1>2, <2>1, <3>1
  <2>2. CASE j \notin 1..n
    <3>1. j = n + 1 /\ facts'[j] = f
      BY <1>2, <2>2
    <3>2. PICK i \in 1..n : facts[i].req = f.req /\ facts[i].phase = "approved"
      BY <1>1, <1>6, <3>1 DEF FactOf
    <3> QED
      BY <1>2, <3>1, <3>2
  <2> QED
    BY <2>1, <2>2
<1> QED
  BY <1>2, <1>3, <1>4, <1>5, <1>6 DEF OncePerPhase

\* A task that moves leaves the others where they are.
LEMMA OneMoves ==
  ASSUME ControlTyped, NEW t \in Tasks, NEW k, Becomes(t, k)
  PROVE  /\ task' = [u \in Tasks |-> task'[u]]
         /\ task'[t] = k
         /\ \A u \in Tasks : u # t => task'[u] = task[u]
  BY DEF ControlTyped, Becomes

\* How the lock may change when task t moves to k
LocksAs(t, k) ==
  \/ locked' = t /\ locked = None
  \/ locked' = locked /\ (k.pc \in {"idle", "waiting"} \/ t = "turn" \/ locked = t)
  \/ Free(t) /\ k.pc \in {"idle", "waiting"}

\* Whoever is past waiting still holds the lock.
LEMMA LocksKeep ==
  ASSUME ControlTyped, Locks, NEW t \in Tasks, NEW k, Becomes(t, k), LocksAs(t, k)
  PROVE  Locks'
<1>1. task'[t] = k /\ \A u \in Tasks : u # t => task'[u] = task[u]
  BY OneMoves
<1>2. None \notin Tasks \ {"turn"}
  BY ControlAssumption DEF Tasks
<1>3. ASSUME NEW u \in Tasks \ {"turn"}, task'[u].pc \notin {"idle", "waiting"}
      PROVE  locked' = u
  <2>1. CASE u = t
    BY <1>1, <1>3, <2>1 DEF LocksAs
  <2>2. CASE u # t
    <3>1. locked = u
      BY <1>1, <1>3, <2>2 DEF Locks
    <3> QED
      BY <1>2, <2>2, <3>1 DEF LocksAs, Free
  <2> QED
    BY <2>1, <2>2
<1> QED
  BY <1>3 DEF Locks

\* A task moves and records nothing.
LEMMA ControlStays ==
  ASSUME ControlInv, NEW t \in Tasks, NEW k, Becomes(t, k), LocksAs(t, k),
         UNCHANGED <<facts, ran>>, overlapped' \in BOOLEAN, overlapped => overlapped',
         Knows(t, k), k.pc # "starting",
         ~overlapped' => /\ Claim(t, k)
                         /\ k.pc \in {"preparing", "prepared"} =>
                              \A u \in Tasks : Prepares(u) => u = t
  PROVE  ControlInv'
<1> USE DEF ControlInv
<1>1. /\ task' = [u \in Tasks |-> task'[u]] /\ task'[t] = k
      /\ \A u \in Tasks : u # t => task'[u] = task[u]
  BY OneMoves
<1>2. /\ \A req : Phase(req)' = Phase(req)
      /\ Legal' <=> Legal
      /\ Undecided' = Undecided
      /\ \A req, p : FactOf(req, p)' <=> FactOf(req, p)
      /\ OncePerPhase' <=> OncePerPhase
  BY FactsStay
<1>3. \A u \in Tasks : Knows(u, task'[u])
  BY <1>1 DEF ControlTyped
<1>4. ControlTyped'
  BY <1>1, <1>3 DEF ControlTyped, Knows
<1>5. Locks'
  BY LocksKeep
<1>6. RunsOnce'
  BY <1>1, <1>2 DEF RunsOnce
<1>7. InCourse'
  <2>1. CASE overlapped'
    BY <2>1 DEF InCourse
  <2>2. CASE ~overlapped'
    <3>1. Legal'
      BY <1>2, <2>2 DEF InCourse
    <3>2. \A u \in Tasks : Claim(u, task'[u])
      BY <1>1, <2>2 DEF InCourse
    <3>3. \A u \in Tasks : Claim(u, task[u])'
      BY <1>2, <3>2 DEF Claim
    <3>4. ASSUME NEW u \in Tasks, NEW v \in Tasks, Prepares(u)', Prepares(v)'
          PROVE  u = v
      <4>1. \A w \in Tasks : w # t => (Prepares(w)' <=> Prepares(w))
        BY <1>1 DEF Prepares
      <4>2. Prepares(t)' => k.pc \in {"preparing", "prepared"}
        BY <1>1 DEF Prepares
      <4> QED
        BY <2>2, <3>4, <4>1, <4>2 DEF InCourse
    <3> QED
      BY <3>1, <3>3, <3>4 DEF InCourse
  <2> QED
    BY <2>1, <2>2
<1> QED
  BY <1>2, <1>4, <1>5, <1>6, <1>7

\* What dies forgets its tasks.
LEMMA DeadKeeps ==
  ASSUME ControlInv, Dead, UNCHANGED <<facts, ran, overlapped>>
  PROVE  ControlInv'
<1> USE DEF ControlInv
<1>1. task' = [u \in Tasks |-> Idle] /\ \A u \in Tasks : task'[u] = Idle
  BY DEF Dead
<1>2. /\ \A req : Phase(req)' = Phase(req)
      /\ Legal' <=> Legal
      /\ \A req, p : FactOf(req, p)' <=> FactOf(req, p)
      /\ OncePerPhase' <=> OncePerPhase
  BY FactsStay
<1>3. \A u \in Tasks : task'[u].pc = "idle"
  BY <1>1 DEF Idle
<1>4. ControlTyped'
  BY <1>1, <1>3 DEF ControlTyped, Knows
<1>5. Locks'
  BY <1>3 DEF Locks
<1>6. RunsOnce'
  BY <1>2, <1>3 DEF RunsOnce
<1>7. InCourse'
  BY <1>2, <1>3 DEF InCourse, Claim, Prepares
<1> QED
  BY <1>2, <1>4, <1>5, <1>6, <1>7

\* Task u is in the middle of something that rests on the facts.
Claims(u) ==
  \/ task[u].pc \in {"preparing", "prepared", "starting", "running"}
  \/ task[u].pc = "deciding" /\ (u = "turn" => task[u].offered)

\* What a task rests on is a request that is undecided, or that there is none.
LEMMA ClaimedIsUndecided ==
  ASSUME ControlInv, ~overlapped, NEW u \in Tasks, Claims(u)
  PROVE  \/ Undecided = {}
         \/ \E req \in Undecided :
              \/ Prepares(u) /\ Phase(req) = "requested"
              \/ ~Prepares(u) /\ u # "turn" /\ Phase(req) # "requested"
<1>1. Claim(u, task[u]) /\ Knows(u, task[u])
  BY DEF ControlInv, InCourse, ControlTyped
<1>2. \A req \in 1..MaxRequests :
        Phase(req) \in {"requested", "proposed", "execution_started"} => req \in Undecided
  BY DEF Undecided, Requests, Terminal
<1>3. "turn" \notin Deciders /\ (u = "turn" \/ u = "resume" \/ u \in Deciders)
  BY ControlAssumption DEF Tasks
<1>4. CASE task[u].pc = "preparing"
  BY <1>1, <1>2, <1>4 DEF Claim, Knows, Prepares
<1>5. CASE task[u].pc = "prepared"
  BY <1>1, <1>2, <1>5 DEF Claim, Knows, Prepares, Facts
<1>6. CASE task[u].pc \in {"starting", "running"}
  BY <1>1, <1>2, <1>6 DEF Claim, Knows, Prepares
<1>7. CASE task[u].pc = "deciding" /\ u = "turn" /\ task[u].offered
  BY <1>1, <1>7 DEF Claim
<1>8. CASE task[u].pc = "deciding" /\ u # "turn"
  <2>1. u \in Deciders
    BY <1>1, <1>3, <1>8 DEF Knows
  <2>2. task[u].req \in 1..MaxRequests
    BY <1>1, <1>8, <2>1 DEF Knows
  <2> QED
    BY <1>1, <1>2, <1>8, <2>2 DEF Claim, Prepares
<1> QED
  BY <1>4, <1>5, <1>6, <1>7, <1>8 DEF Claims

\* Whoever prepares the open request, or holds the lock for it, is alone with it.
LEMMA Alone ==
  ASSUME ControlInv, ~overlapped, NEW t \in Tasks, NEW r \in Undecided,
         Phase(r) = "requested" => Prepares(t),
         Phase(r) # "requested" => t # "turn" /\ locked = t
  PROVE  /\ \A req \in 1..MaxRequests : req # r => Phase(req) \in Terminal \cup {"none"}
         /\ \A u \in Tasks : u # t => ~Claims(u)
<1>1. \A req \in 1..MaxRequests : req # r => Phase(req) \in Terminal \cup {"none"}
  BY OneUndecided DEF ControlInv, ControlTyped, InCourse
<1>2. \A req \in Undecided : req = r
  BY <1>1 DEF Undecided, Requests
<1>3. ASSUME NEW u \in Tasks, u # t, Claims(u) PROVE FALSE
  <2>1. PICK req \in Undecided :
               \/ Prepares(u) /\ Phase(req) = "requested"
               \/ ~Prepares(u) /\ u # "turn" /\ Phase(req) # "requested"
    BY <1>3, ClaimedIsUndecided
  <2>2. req = r
    BY <1>2
  <2>3. CASE Prepares(u) /\ Phase(req) = "requested"
    BY <1>3, <2>2, <2>3 DEF ControlInv, InCourse
  <2>4. CASE ~Prepares(u) /\ u # "turn" /\ Phase(req) # "requested"
    <3>1. task[u].pc \notin {"idle", "waiting"}
      BY <1>3 DEF Claims
    <3>2. locked = u /\ locked = t
      BY <2>2, <2>4, <3>1 DEF ControlInv, Locks
    <3> QED
      BY <1>3, <3>2
  <2> QED
    BY <2>1, <2>3, <2>4
<1> QED
  BY <1>1, <1>3

\* A task records a fact of its own and moves.
LEMMA ControlRecords ==
  ASSUME ControlInv, NEW t \in Tasks, NEW k, Becomes(t, k), LocksAs(t, k),
         NEW f \in Facts, facts' = Append(facts, f), UNCHANGED <<ran, overlapped>>,
         Knows(t, k), ~FactOf(f.req, f.phase),
         f.phase = "execution_started" => FactOf(f.req, "approved"),
         \/ k.pc \in {"idle", "locked", "recover", "approved"}
         \/ k.pc = "starting" /\ f.phase = "execution_started" /\ k.req = f.req,
         ~overlapped =>
           /\ Phase(f.req) \notin Terminal /\ f.phase \in Allowed[Phase(f.req)]
           /\ \A req \in 1..MaxRequests : req # f.req => Phase(req) \in Terminal \cup {"none"}
           /\ \A u \in Tasks : u # t => ~Claims(u)
  PROVE  ControlInv'
<1>1. /\ task' = [u \in Tasks |-> task'[u]] /\ task'[t] = k
      /\ \A u \in Tasks : u # t => task'[u] = task[u]
  BY OneMoves DEF ControlInv
<1>2. facts \in Seq(Facts) /\ ran \in [1..MaxRequests -> Nat] /\ overlapped \in BOOLEAN
  BY DEF ControlInv, ControlTyped
<1>3. /\ facts' \in Seq(Facts)
      /\ OncePerPhase'
      /\ \A req, p : FactOf(req, p) => FactOf(req, p)'
      /\ FactOf(f.req, f.phase)'
  BY <1>2, FactsGrow DEF ControlInv
<1>4. ControlTyped'
  <2>1. \A u \in Tasks : Knows(u, task'[u])
    BY <1>1 DEF ControlInv, ControlTyped
  <2> QED
    BY <1>1, <1>2, <1>3, <2>1 DEF ControlTyped, Knows
<1>5. Locks'
  BY LocksKeep DEF ControlInv
<1>6. RunsOnce'
  <2>1. \A req \in 1..MaxRequests :
          ran'[req] <= 1 /\ (ran'[req] = 1 => FactOf(req, "execution_started")')
    BY <1>3 DEF ControlInv, RunsOnce
  <2>2. ASSUME NEW u \in Tasks, u # t, task'[u].pc = "starting"
        PROVE  /\ ran'[task'[u].req] = 0
               /\ FactOf(task'[u].req, "execution_started")
               /\ \A v \in Tasks : v # t /\ task'[v].pc = "starting"
                                   /\ task'[v].req = task'[u].req => v = u
    BY <1>1, <2>2 DEF ControlInv, RunsOnce
  <2>3. ASSUME k.pc = "starting"
        PROVE  /\ f.phase = "execution_started" /\ k.req = f.req
               /\ ran'[k.req] = 0 /\ ~FactOf(k.req, "execution_started")
    <3>1. f.phase = "execution_started" /\ k.req = f.req
      BY <2>3
    <3>2. f.req \in 1..MaxRequests
      BY DEF Facts
    <3>3. ran[f.req] \in Nat /\ ran[f.req] <= 1 /\ ran[f.req] # 1
      BY <1>2, <3>1, <3>2 DEF ControlInv, RunsOnce
    <3> QED
      BY <3>1, <3>3
  <2>4. ASSUME NEW u \in Tasks, NEW req, task'[u].pc = "starting", task'[u].req = req
        PROVE  /\ ran'[req] = 0 /\ FactOf(req, "execution_started")'
               /\ \A v \in Tasks : task'[v].pc = "starting" /\ task'[v].req = req => v = u
    <3>1. CASE u = t
      <4>1. ran'[req] = 0 /\ FactOf(req, "execution_started")'
        BY <1>1, <1>3, <2>3, <2>4, <3>1
      <4>2. \A v \in Tasks : v # t /\ task'[v].pc = "starting" => task'[v].req # req
        BY <1>1, <2>2, <2>3, <2>4, <3>1
      <4> QED
        BY <3>1, <4>1, <4>2
    <3>2. CASE u # t
      <4>1. ran'[req] = 0 /\ FactOf(req, "execution_started")
        BY <2>2, <2>4, <3>2
      <4>2. k.pc = "starting" => k.req # req
        BY <2>3, <4>1
      <4> QED
        BY <1>1, <1>3, <2>2, <2>4, <3>2, <4>1, <4>2
    <3> QED
      BY <3>1, <3>2
  <2>5. \A u \in Tasks : task'[u].pc = "starting" =>
          /\ ran'[task'[u].req] = 0 /\ FactOf(task[u].req, "execution_started")'
          /\ \A v \in Tasks : task'[v].pc = "starting" /\ task'[v].req = task'[u].req => v = u
    BY <2>4 DEF FactOf
  <2> QED
    BY <2>1, <2>5 DEF RunsOnce
<1>7. InCourse'
  <2>1. CASE overlapped
    BY <2>1 DEF InCourse
  <2>2. CASE ~overlapped
    <3>1. Phase(f.req)' = f.phase /\ Legal'
      BY <1>2, <2>2, RecordIsLast DEF ControlInv, InCourse
    <3>2. ASSUME NEW u \in Tasks PROVE Claim(u, task[u])'
      <4>1. CASE u = t
        BY <1>1, <3>1, <4>1 DEF Claim
      <4>2. CASE u # t
        BY <1>1, <2>2, <4>2 DEF Claim, Claims
      <4> QED
        BY <4>1, <4>2
    <3>3. \A u \in Tasks : ~Prepares(u)'
      BY <1>1, <2>2 DEF Prepares, Claims
    <3> QED
      BY <3>1, <3>2, <3>3 DEF InCourse
  <2> QED
    BY <2>1, <2>2
<1> QED
  BY <1>3, <1>4, <1>5, <1>6, <1>7 DEF ControlInv

\* The whole of Commit: a fact of its own, the fact that is there already, or the end.
LEMMA CommitKeeps ==
  ASSUME ControlInv, NEW t \in Tasks, NEW f \in Facts, NEW k, Commit(t, f, k),
         UNCHANGED <<ran, overlapped>>, Knows(t, k), k.pc = "idle" => k = Idle,
         t # "turn" => locked = t,
         f.phase = "execution_started" =>
           ~FactOf(f.req, "execution_started") /\ FactOf(f.req, "approved"),
         \/ k.pc \in {"idle", "recover", "approved"}
         \/ k.pc = "starting" /\ f.phase = "execution_started" /\ k.req = f.req,
         ~overlapped =>
           /\ f.req \in Undecided /\ f.phase \in Allowed[Phase(f.req)]
           /\ Phase(f.req) = "requested" => Prepares(t)
           /\ Phase(f.req) # "requested" => t # "turn"
  PROVE  ControlInv'
<1>1. Repeated(f) <=> FactOf(f.req, f.phase)
  BY DEF Repeated, FactOf
<1>2. CASE Repeated(f) /\ ~Same(f)
  BY <1>2, DeadKeeps DEF Commit
<1>3. CASE ~(Repeated(f) /\ ~Same(f))
  <2>1. Becomes(t, k) /\ LocksAs(t, k)
    BY <1>3 DEF Commit, Done, LocksAs, Idle
  <2>2. CASE Same(f)
    <3>1. FactOf(f.req, f.phase)
      BY <2>2 DEF Same, FactOf
    <3>2. k.pc \in {"idle", "recover", "approved"}
      BY <3>1
    <3>3. facts' = facts
      BY <1>3, <2>2 DEF Commit
    <3>4. Claim(t, k)
      BY <3>2 DEF Claim
    <3>5. overlapped \in BOOLEAN
      BY DEF ControlInv, ControlTyped
    <3> QED
      BY <2>1, <3>2, <3>3, <3>4, <3>5, ControlStays
  <2>3. CASE ~Same(f)
    <3>1. facts' = Append(facts, f) /\ ~FactOf(f.req, f.phase)
      BY <1>1, <1>3, <2>3 DEF Commit
    <3>2. ASSUME ~overlapped
          PROVE  /\ Phase(f.req) \notin Terminal /\ f.phase \in Allowed[Phase(f.req)]
                 /\ \A req \in 1..MaxRequests :
                      req # f.req => Phase(req) \in Terminal \cup {"none"}
                 /\ \A u \in Tasks : u # t => ~Claims(u)
      <4>1. Phase(f.req) \notin Terminal
        BY <3>2 DEF Undecided
      <4> QED
        BY <3>2, <4>1, Alone
    <3> QED
      BY <2>1, <3>1, <3>2, ControlRecords
  <2> QED
    BY <2>2, <2>3
<1> QED
  BY <1>2, <1>3

\* The Worker starts, and with it a resume.
LEMMA BootKeepsControl == ControlInv /\ Boot => ControlInv'
<1> SUFFICES ASSUME ControlInv, Boot PROVE ControlInv'
  OBVIOUS
<1> DEFINE k == [pc |-> "waiting"]
<1>1. /\ Becomes("resume", k) /\ UNCHANGED <<facts, locked, ran, overlapped>>
      /\ "resume" \in Tasks \ Deciders
  BY ControlAssumption DEF Boot, Tasks
<1>2. /\ LocksAs("resume", k) /\ Knows("resume", k) /\ Claim("resume", k)
      /\ k.pc = "waiting" /\ overlapped' = overlapped /\ overlapped \in BOOLEAN
  BY <1>1 DEF LocksAs, Knows, Claim, ControlInv, ControlTyped
<1> HIDE DEF k
<1> QED
  BY <1>1, <1>2, ControlStays

\* Somebody resumes the Session.
LEMMA ResumeKeepsControl == ControlInv /\ Resume => ControlInv'
<1> SUFFICES ASSUME ControlInv, Resume PROVE ControlInv'
  OBVIOUS
<1> DEFINE k == [pc |-> "waiting"]
<1>1. /\ Becomes("resume", k) /\ UNCHANGED <<facts, locked, ran, overlapped>>
      /\ "resume" \in Tasks \ Deciders
  BY ControlAssumption DEF Resume, Tasks
<1>2. /\ LocksAs("resume", k) /\ Knows("resume", k) /\ Claim("resume", k)
      /\ k.pc = "waiting" /\ overlapped' = overlapped /\ overlapped \in BOOLEAN
  BY <1>1 DEF LocksAs, Knows, Claim, ControlInv, ControlTyped
<1> HIDE DEF k
<1> QED
  BY <1>1, <1>2, ControlStays

\* A turn begins and is offered what its decision may request.
LEMMA BeginTurnKeepsControl == ControlInv /\ BeginTurn => ControlInv'
<1> SUFFICES ASSUME ControlInv, BeginTurn PROVE ControlInv'
  OBVIOUS
<1> DEFINE k == [pc |-> "deciding", offered |-> Offered]
<1>1. /\ Becomes("turn", k) /\ UNCHANGED <<facts, locked, ran, overlapped>>
      /\ "turn" \in Tasks \ Deciders
  BY ControlAssumption DEF BeginTurn, Tasks
<1>2. /\ LocksAs("turn", k) /\ Knows("turn", k) /\ Claim("turn", k)
      /\ k.pc = "deciding" /\ overlapped' = overlapped /\ overlapped \in BOOLEAN
  BY <1>1 DEF LocksAs, Knows, Claim, ControlInv, ControlTyped, Offered
<1> HIDE DEF k
<1> QED
  BY <1>1, <1>2, ControlStays

\* A Step is committed: a request comes only when none is undecided.
LEMMA EndStepKeepsControl == ControlInv /\ EndStep => ControlInv'
<1> SUFFICES ASSUME ControlInv, EndStep PROVE ControlInv'
  OBVIOUS
<1> DEFINE k == [pc |-> "locked"]
<1>1. /\ Becomes("turn", k) /\ UNCHANGED <<locked, ran, overlapped>>
      /\ "turn" \in Tasks \ Deciders
  BY ControlAssumption DEF EndStep, Tasks
<1>2. /\ LocksAs("turn", k) /\ Knows("turn", k) /\ Claim("turn", k)
      /\ k.pc = "locked" /\ overlapped' = overlapped /\ overlapped \in BOOLEAN
  BY <1>1 DEF LocksAs, Knows, Claim, ControlInv, ControlTyped
<1> HIDE DEF k
<1>3. CASE UNCHANGED facts
  BY <1>1, <1>2, <1>3, ControlStays
<1>4. CASE task["turn"].offered
           /\ \E req \in 1..MaxRequests :
                /\ Requests = 1..(req - 1)
                /\ facts' = Append(facts, Fact(req, "requested", None))
  <2>1. PICK req \in 1..MaxRequests :
                /\ Requests = 1..(req - 1)
                /\ facts' = Append(facts, Fact(req, "requested", None))
    BY <1>4
  <2>2. PICK f : f = Fact(req, "requested", None)
    OBVIOUS
  <2>3. f \in Facts /\ f.req = req /\ f.phase = "requested"
    BY <2>2 DEF Fact, Facts, Phases
  <2>4. Phase(req) = "none"
    <3>1. req \notin Requests
      BY <2>1, ControlAssumption
    <3> QED
      BY <3>1 DEF Requests
  <2>5. ~FactOf(f.req, f.phase)
    <3>1. PICK n \in Nat : n = Len(facts)
      BY DEF ControlInv, ControlTyped
    <3>2. Own(facts, req, n) = {}
      <4>1. SUFFICES ASSUME Own(facts, req, n) # {} PROVE FALSE
        OBVIOUS
      <4>2. n \in 0..Len(facts) /\ facts \in Seq(Facts)
        BY <3>1 DEF ControlInv, ControlTyped
      <4>3. \E i \in 1..n : IsLastOf(facts, req, n, i)
        BY <4>1, <4>2, PhaseIsLast
      <4>4. PhaseIn(facts, req, n) \in Phases
        BY <4>3 DEF IsLastOf
      <4> QED
        BY <2>4, <3>1, <4>4, PhasesOfFacts DEF Phases
    <3> QED
      BY <2>3, <3>1, <3>2 DEF FactOf, Own
  <2>6. ASSUME ~overlapped
        PROVE  /\ Phase(f.req) \notin Terminal /\ f.phase \in Allowed[Phase(f.req)]
               /\ \A q \in 1..MaxRequests : q # f.req => Phase(q) \in Terminal \cup {"none"}
               /\ \A u \in Tasks : u # "turn" => ~Claims(u)
    <3>1. Undecided = {}
      <4>1. Claim("turn", task["turn"]) /\ task["turn"].pc = "deciding"
        BY <1>1, <2>6 DEF ControlInv, InCourse, EndStep
      <4> QED
        BY <1>4, <4>1 DEF Claim
    <3>2. \A q \in 1..MaxRequests : Phase(q) \in Terminal \cup {"none"}
      BY <3>1 DEF Undecided, Requests
    <3>3. \A u \in Tasks : Claims(u) => u = "turn"
      <4>1. SUFFICES ASSUME NEW u \in Tasks, Claims(u), u # "turn" PROVE FALSE
        OBVIOUS
      <4>2. Claim(u, task[u]) /\ Knows(u, task[u])
        BY <2>6 DEF ControlInv, InCourse, ControlTyped
      <4>3. u \in Deciders \/ u = "resume"
        BY <4>1 DEF Tasks
      <4> QED
        BY <3>2, <4>1, <4>2, <4>3 DEF Claims, Claim, Knows, Facts, Terminal
    <3> QED
      BY <2>3, <2>4, <3>2, <3>3 DEF Allowed, Terminal
  <2> QED
    BY <1>1, <1>2, <2>1, <2>2, <2>3, <2>5, <2>6, ControlRecords
<1> QED
  BY <1>3, <1>4 DEF EndStep

\* The resume takes the lock.
LEMMA TakeResumeKeepsControl == ControlInv /\ TakeResume => ControlInv'
<1> SUFFICES ASSUME ControlInv, TakeResume PROVE ControlInv'
  OBVIOUS
<1> DEFINE k == [pc |-> "locked"]
<1>1. /\ Becomes("resume", k) /\ UNCHANGED <<facts, ran, overlapped>>
      /\ TakesLock("resume") /\ "resume" \in Tasks \ Deciders
  BY ControlAssumption DEF TakeResume, Tasks
<1>2. /\ LocksAs("resume", k) /\ Knows("resume", k) /\ Claim("resume", k)
      /\ k.pc = "locked" /\ overlapped' = overlapped /\ overlapped \in BOOLEAN
  BY <1>1 DEF LocksAs, Knows, Claim, ControlInv, ControlTyped, TakesLock
<1> HIDE DEF k
<1> QED
  BY <1>1, <1>2, ControlStays

\* A request is prepared; a second preparation at the same time is the known overlap.
LEMMA PreparingKeepsControl == ASSUME NEW t \in Tasks PROVE ControlInv /\ Preparing(t) => ControlInv'
<1> SUFFICES ASSUME ControlInv, Preparing(t) PROVE ControlInv'
  OBVIOUS
<1>1. /\ t \in {"turn", "resume"} /\ t \notin Deciders /\ task[t].pc = "locked"
      /\ UNCHANGED <<facts, ran>> /\ overlapped \in BOOLEAN
      /\ t # "turn" => locked = t
  BY ControlAssumption DEF Preparing, ControlInv, ControlTyped, Locks
<1>2. CASE InPhase("requested") = {}
  <2>1. PICK k : Becomes(t, k) /\ LocksAs(t, k) /\ k.pc \in {"idle", "recover"}
                 /\ (k.pc = "recover" => t # "turn")
    <3>1. CASE t = "resume"
      <4>1. Becomes(t, [pc |-> "recover"]) /\ locked' = locked /\ locked = t
        BY <1>1, <1>2, <3>1 DEF Preparing
      <4> QED
        BY <3>1, <4>1 DEF LocksAs
    <3>2. CASE t # "resume"
      <4>1. Becomes(t, Idle) /\ Free(t)
        BY <1>2, <3>2 DEF Preparing, Done
      <4> QED
        BY <4>1 DEF LocksAs, Idle
    <3> QED
      BY <3>1, <3>2
  <2>2. Knows(t, k) /\ Claim(t, k) /\ overlapped' = overlapped
    BY <1>1, <1>2, <2>1 DEF Knows, Claim, Preparing
  <2> QED
    BY <1>1, <2>1, <2>2, ControlStays
<1>3. CASE InPhase("requested") # {}
  <2>1. PICK req \in InPhase("requested") : Becomes(t, [pc |-> "preparing", req |-> req])
    BY <1>3 DEF Preparing
  <2>2. PICK k : k = [pc |-> "preparing", req |-> req]
    OBVIOUS
  <2>3. req \in 1..MaxRequests /\ Phase(req) = "requested"
    BY DEF InPhase, Undecided, Requests
  <2>4. Knows(t, k) /\ Claim(t, k) /\ LocksAs(t, k)
    BY <1>1, <1>3, <2>2, <2>3 DEF Knows, Claim, Preparing, LocksAs
  <2>5. overlapped' = (overlapped \/ \E other \in Tasks : Prepares(other))
    BY <1>3 DEF Preparing, Prepares
  <2> QED
    BY <1>1, <2>1, <2>2, <2>4, <2>5, ControlStays
<1> QED
  BY <1>2, <1>3

\* The preparation is over.
LEMMA PreparedKeepsControl == ASSUME NEW t \in Tasks PROVE ControlInv /\ Prepared(t) => ControlInv'
<1> SUFFICES ASSUME ControlInv, Prepared(t) PROVE ControlInv'
  OBVIOUS
<1>1. CASE ~active
  BY <1>1, DeadKeeps DEF Prepared
<1>2. CASE active
  <2>1. PICK fact \in {Fact(task[t].req, "proposed", found) : found \in Candidates}
                        \cup {Fact(task[t].req, "concluded", None),
                               Fact(task[t].req, "preparation_failed", None)} :
               Becomes(t, [pc |-> "prepared", fact |-> fact])
    BY <1>2 DEF Prepared
  <2>2. task[t].pc = "preparing" /\ task[t].req \in 1..MaxRequests /\ Knows(t, task[t])
    BY DEF Prepared, ControlInv, ControlTyped, Knows
  <2>3. /\ fact \in Facts /\ fact.req = task[t].req
        /\ fact.phase \in {"proposed", "concluded", "preparation_failed"}
    BY <2>1, <2>2 DEF Fact, Facts, Phases
  <2>4. PICK k : k = [pc |-> "prepared", fact |-> fact]
    OBVIOUS
  <2>5. Knows(t, k)
    BY <2>2, <2>3, <2>4 DEF Knows
  <2>6. UNCHANGED <<facts, locked, ran, overlapped>> /\ overlapped \in BOOLEAN
    BY <1>2 DEF Prepared, ControlInv, ControlTyped
  <2>7. LocksAs(t, k)
    BY <2>2, <2>4, <2>6 DEF LocksAs, ControlInv, Locks
  <2>8. ~overlapped => /\ Claim(t, k)
                       /\ \A u \in Tasks : Prepares(u) => u = t
    BY <2>2, <2>3, <2>4 DEF ControlInv, InCourse, Claim, Prepares
  <2> QED
    BY <2>1, <2>4, <2>5, <2>6, <2>7, <2>8, ControlStays
<1> QED
  BY <1>1, <1>2

\* Its result is recorded.
LEMMA CommitPreparedKeepsControl ==
  ASSUME NEW t \in Tasks PROVE ControlInv /\ CommitPrepared(t) => ControlInv'
<1> SUFFICES ASSUME ControlInv, CommitPrepared(t) PROVE ControlInv'
  OBVIOUS
<1>1. PICK f : f = task[t].fact
  OBVIOUS
<1>2. PICK k : k = IF t = "resume" THEN [pc |-> "recover"] ELSE Idle
  OBVIOUS
<1>3. /\ f \in Facts /\ f.phase \in {"proposed", "concluded", "preparation_failed"}
      /\ task[t].pc = "prepared" /\ Prepares(t) /\ (t # "turn" => locked = t)
  BY <1>1 DEF CommitPrepared, ControlInv, ControlTyped, Knows, Locks, Prepares
<1>4. Commit(t, f, k) /\ UNCHANGED <<ran, overlapped>>
  BY <1>1, <1>2 DEF CommitPrepared
<1>5. /\ Knows(t, k) /\ (k.pc = "idle" => k = Idle) /\ k.pc \in {"idle", "recover"}
  BY <1>2, ControlAssumption DEF Knows, Idle
<1>6. ~overlapped =>
        f.req \in Undecided /\ f.phase \in Allowed[Phase(f.req)] /\ Phase(f.req) = "requested"
  <2>1. ~overlapped => Phase(f.req) = "requested" /\ f.req \in 1..MaxRequests
    BY <1>1, <1>3 DEF ControlInv, InCourse, Claim, Facts
  <2> QED
    BY <1>3, <2>1 DEF Undecided, Requests, Allowed, Terminal
<1> QED
  BY <1>3, <1>4, <1>5, <1>6, CommitKeeps

\* The resume looks for what is approved.
LEMMA RecoverKeepsControl == ControlInv /\ Recover => ControlInv'
<1> SUFFICES ASSUME ControlInv, Recover PROVE ControlInv'
  OBVIOUS
<1>1. /\ "resume" \in Tasks \ Deciders /\ locked = "resume"
      /\ UNCHANGED <<facts, ran, overlapped>> /\ overlapped \in BOOLEAN
  BY ControlAssumption DEF Recover, ControlInv, ControlTyped, Locks, Tasks
<1>2. PICK k : /\ Becomes("resume", k) /\ LocksAs("resume", k)
               /\ k.pc \in {"idle", "approved"}
  <2>1. CASE InPhase("approved") = {}
    <3>1. Becomes("resume", Idle) /\ Free("resume")
      BY <2>1 DEF Recover, Done
    <3> QED
      BY <3>1 DEF LocksAs, Idle
  <2>2. CASE InPhase("approved") # {}
    <3>1. Becomes("resume", [pc |-> "approved"]) /\ locked' = locked
      BY <2>2 DEF Recover
    <3> QED
      BY <1>1, <3>1 DEF LocksAs
  <2> QED
    BY <2>1, <2>2
<1>3. Knows("resume", k) /\ Claim("resume", k)
  BY <1>1, <1>2 DEF Knows, Claim
<1> QED
  BY <1>1, <1>2, <1>3, ControlStays

\* An answer arrives.
LEMMA AnswerKeepsControl == ASSUME NEW d \in Deciders PROVE ControlInv /\ Answer(d) => ControlInv'
<1> SUFFICES ASSUME ControlInv, Answer(d) PROVE ControlInv'
  OBVIOUS
<1>1. /\ d \in Tasks /\ d \notin {"turn", "resume"}
      /\ UNCHANGED <<facts, locked, ran, overlapped>> /\ overlapped \in BOOLEAN
  BY ControlAssumption DEF Answer, ControlInv, ControlTyped, Tasks
<1>2. PICK req \in Requests, yes \in BOOLEAN :
             Becomes(d, [pc |-> "waiting", req |-> req, yes |-> yes])
  BY DEF Answer
<1>3. PICK k : k = [pc |-> "waiting", req |-> req, yes |-> yes]
  OBVIOUS
<1>4. Knows(d, k) /\ Claim(d, k) /\ LocksAs(d, k) /\ k.pc = "waiting"
  BY <1>1, <1>2, <1>3 DEF Knows, Claim, LocksAs, Requests
<1> QED
  BY <1>1, <1>2, <1>3, <1>4, ControlStays

\* An answer is taken, found to be there, or ends the Worker.
LEMMA DecideKeepsControl == ASSUME NEW d \in Deciders PROVE ControlInv /\ Decide(d) => ControlInv'
<1> SUFFICES ASSUME ControlInv, Decide(d) PROVE ControlInv'
  OBVIOUS
<1>1. /\ d \in Tasks /\ d \notin {"turn", "resume"} /\ task[d].pc = "waiting"
      /\ UNCHANGED <<facts, ran, overlapped>> /\ overlapped \in BOOLEAN
      /\ task[d] \in [pc : {"waiting"}, req : 1..MaxRequests, yes : BOOLEAN]
  BY ControlAssumption DEF Decide, ControlInv, ControlTyped, Tasks, Knows
<1>2. \/ /\ Phase(task[d].req) = "proposed" /\ TakesLock(d)
         /\ Becomes(d, [task[d] EXCEPT !.pc = "deciding"])
      \/ TakesLock(d) /\ Becomes(d, [pc |-> "approved"])
      \/ Done(d)
      \/ Dead
  BY DEF Decide
<1>3. CASE /\ Phase(task[d].req) = "proposed" /\ TakesLock(d)
           /\ Becomes(d, [task[d] EXCEPT !.pc = "deciding"])
  <2>1. PICK k : k = [task[d] EXCEPT !.pc = "deciding"]
    OBVIOUS
  <2>2. k \in [pc : {"deciding"}, req : 1..MaxRequests, yes : BOOLEAN]
        /\ k.req = task[d].req /\ k.pc = "deciding"
    BY <1>1, <2>1
  <2>3. Knows(d, k) /\ Claim(d, k) /\ LocksAs(d, k)
    BY <1>1, <1>3, <2>2 DEF Knows, Claim, LocksAs, TakesLock
  <2> QED
    BY <1>1, <1>3, <2>1, <2>2, <2>3, ControlStays
<1>4. CASE TakesLock(d) /\ Becomes(d, [pc |-> "approved"])
  <2>1. PICK k : k = [pc |-> "approved"]
    OBVIOUS
  <2>2. Knows(d, k) /\ Claim(d, k) /\ LocksAs(d, k) /\ k.pc = "approved"
    BY <1>1, <1>4, <2>1 DEF Knows, Claim, LocksAs, TakesLock
  <2> QED
    BY <1>1, <1>4, <2>1, <2>2, ControlStays
<1>5. CASE Done(d)
  <2>1. Becomes(d, Idle) /\ LocksAs(d, Idle) /\ Idle.pc = "idle"
    BY <1>5 DEF Done, LocksAs, Idle
  <2>2. Knows(d, Idle) /\ Claim(d, Idle)
    BY <1>1, <2>1 DEF Knows, Claim
  <2> QED
    BY <1>1, <2>1, <2>2, ControlStays
<1>6. CASE Dead
  BY <1>1, <1>6, DeadKeeps
<1> QED
  BY <1>2, <1>3, <1>4, <1>5, <1>6

\* An answer is recorded.
LEMMA CommitAnswerKeepsControl ==
  ASSUME NEW d \in Deciders PROVE ControlInv /\ CommitAnswer(d) => ControlInv'
<1> SUFFICES ASSUME ControlInv, CommitAnswer(d) PROVE ControlInv'
  OBVIOUS
<1>1. /\ d \in Tasks /\ d \notin {"turn", "resume"} /\ task[d].pc = "deciding"
      /\ UNCHANGED <<ran, overlapped>> /\ locked = d
      /\ task[d] \in [pc : {"deciding"}, req : 1..MaxRequests, yes : BOOLEAN]
  BY ControlAssumption
     DEF CommitAnswer, ControlInv, ControlTyped, Tasks, Knows, Locks
<1>2. PICK f : f = Fact(task[d].req, IF task[d].yes THEN "approved" ELSE "rejected", None)
  OBVIOUS
<1>3. PICK k : k = IF task[d].yes THEN [pc |-> "approved"] ELSE Idle
  OBVIOUS
<1>4. f \in Facts /\ f.req = task[d].req /\ f.phase \in {"approved", "rejected"}
  BY <1>1, <1>2 DEF Fact, Facts, Phases
<1>5. Commit(d, f, k)
  BY <1>2, <1>3 DEF CommitAnswer
<1>6. Knows(d, k) /\ (k.pc = "idle" => k = Idle) /\ k.pc \in {"idle", "approved"}
  BY <1>1, <1>3 DEF Knows, Idle
<1>7. ~overlapped =>
        f.req \in Undecided /\ f.phase \in Allowed[Phase(f.req)] /\ Phase(f.req) = "proposed"
  <2>1. ~overlapped => Phase(f.req) = "proposed" /\ f.req \in 1..MaxRequests
    BY <1>1, <1>4 DEF ControlInv, InCourse, Claim
  <2> QED
    BY <1>4, <2>1 DEF Undecided, Requests, Allowed, Terminal
<1> QED
  BY <1>1, <1>4, <1>5, <1>6, <1>7, CommitKeeps

\* What is approved has not been started: its start would be the later fact.
LEMMA ApprovedIsNew ==
  ASSUME ControlInv, NEW req \in InPhase("approved")
  PROVE  FactOf(req, "approved") /\ ~FactOf(req, "execution_started")
<1>1. PICK n \in Nat : n = Len(facts)
  BY DEF ControlInv, ControlTyped
<1>2. facts \in Seq(Facts) /\ n \in 0..Len(facts)
  BY <1>1 DEF ControlInv, ControlTyped
<1>3. PhaseIn(facts, req, n) = "approved"
  BY <1>1, PhasesOfFacts DEF InPhase
<1>4. PICK i \in 1..n : IsLastOf(facts, req, n, i)
  BY <1>2, <1>3, PhaseIsLast
<1>5. facts[i].req = req /\ facts[i].phase = "approved"
  BY <1>3, <1>4 DEF IsLastOf, Own
<1>6. ASSUME NEW j \in 1..n, facts[j].req = req, facts[j].phase = "execution_started"
      PROVE  FALSE
  <2>1. j <= i
    BY <1>4, <1>6 DEF IsLastOf, Own
  <2>2. PICK m \in 1..n : m < j /\ facts[m].req = req /\ facts[m].phase = "approved"
    BY <1>1, <1>6 DEF ControlInv, OncePerPhase
  <2>3. m = i
    BY <1>1, <1>5, <2>2 DEF ControlInv, OncePerPhase
  <2> QED
    BY <2>1, <2>2, <2>3
<1> QED
  BY <1>1, <1>5, <1>6 DEF FactOf

\* The execution is recorded before it runs, by whoever holds the lock.
LEMMA StartExecutionKeepsControl ==
  ASSUME NEW t \in Tasks PROVE ControlInv /\ StartExecution(t) => ControlInv'
<1> SUFFICES ASSUME ControlInv, StartExecution(t) PROVE ControlInv'
  OBVIOUS
<1>1. /\ task[t].pc = "approved" /\ t # "turn" /\ locked = t
      /\ UNCHANGED <<ran, overlapped>>
  BY DEF StartExecution, ControlInv, ControlTyped, Knows, Locks
<1>2. PICK req \in InPhase("approved") :
             Commit(t, Fact(req, "execution_started", None), [pc |-> "starting", req |-> req])
  BY DEF StartExecution
<1>3. PICK f : f = Fact(req, "execution_started", None)
  OBVIOUS
<1>4. PICK k : k = [pc |-> "starting", req |-> req]
  OBVIOUS
<1>5. req \in Undecided /\ req \in 1..MaxRequests /\ Phase(req) = "approved"
  BY DEF InPhase, Undecided, Requests
<1>6. f \in Facts /\ f.req = req /\ f.phase = "execution_started"
  BY <1>3, <1>5 DEF Fact, Facts, Phases
<1>7. /\ Knows(t, k) /\ k.pc = "starting" /\ k.req = f.req
  BY <1>1, <1>4, <1>5, <1>6 DEF Knows
<1>8. FactOf(f.req, "approved") /\ ~FactOf(f.req, "execution_started")
  BY <1>6, ApprovedIsNew
<1>9. f.req \in Undecided /\ f.phase \in Allowed[Phase(f.req)] /\ Phase(f.req) = "approved"
  BY <1>5, <1>6 DEF Allowed
<1> QED
  BY <1>1, <1>2, <1>3, <1>4, <1>6, <1>7, <1>8, <1>9, CommitKeeps

\* The outcome is recorded.
LEMMA EndExecutionKeepsControl ==
  ASSUME NEW t \in Tasks PROVE ControlInv /\ EndExecution(t) => ControlInv'
<1> SUFFICES ASSUME ControlInv, EndExecution(t) PROVE ControlInv'
  OBVIOUS
<1>1. /\ task[t].pc = "running" /\ t # "turn" /\ locked = t /\ task[t].req \in 1..MaxRequests
      /\ UNCHANGED <<ran, overlapped>>
  BY DEF EndExecution, ControlInv, ControlTyped, Knows, Locks
<1>2. PICK phase \in {"succeeded", "failed"} : Commit(t, Fact(task[t].req, phase, None), Idle)
  BY DEF EndExecution
<1>3. PICK f : f = Fact(task[t].req, phase, None)
  OBVIOUS
<1>4. f \in Facts /\ f.req = task[t].req /\ f.phase \in {"succeeded", "failed"}
  BY <1>1, <1>3 DEF Fact, Facts, Phases
<1>5. Knows(t, Idle) /\ Idle.pc = "idle"
  BY <1>1 DEF Knows, Idle
<1>6. ~overlapped =>
        f.req \in Undecided /\ f.phase \in Allowed[Phase(f.req)] /\ Phase(f.req) = "execution_started"
  <2>1. ~overlapped => Phase(f.req) = "execution_started" /\ f.req \in 1..MaxRequests
    BY <1>1, <1>4 DEF ControlInv, InCourse, Claim
  <2> QED
    BY <1>4, <2>1 DEF Undecided, Requests, Allowed, Terminal
<1> QED
  BY <1>1, <1>2, <1>3, <1>4, <1>5, <1>6, CommitKeeps

\* The handler runs, once.
LEMMA ExecuteKeepsControl == ASSUME NEW t \in Tasks PROVE ControlInv /\ Execute(t) => ControlInv'
<1> SUFFICES ASSUME ControlInv, Execute(t) PROVE ControlInv'
  OBVIOUS
<1>1. /\ task[t].pc = "starting" /\ t # "turn" /\ task[t].req \in 1..MaxRequests
      /\ UNCHANGED <<facts, locked, overlapped>>
      /\ task[t] \in [pc : {"starting"}, req : 1..MaxRequests]
  BY DEF Execute, ControlInv, ControlTyped, Knows
<1>2. PICK k : k = [task[t] EXCEPT !.pc = "running"]
  OBVIOUS
<1>3. PICK r : r = task[t].req
  OBVIOUS
<1>4. k.pc = "running" /\ k.req = r /\ r \in 1..MaxRequests
  BY <1>1, <1>2, <1>3
<1>5. /\ task' = [u \in Tasks |-> task'[u]] /\ task'[t] = k
      /\ \A u \in Tasks : u # t => task'[u] = task[u]
  BY <1>2, OneMoves DEF Execute, ControlInv
<1>6. /\ \A req : Phase(req)' = Phase(req)
      /\ Legal' <=> Legal
      /\ Undecided' = Undecided
      /\ \A req, p : FactOf(req, p)' <=> FactOf(req, p)
      /\ OncePerPhase' <=> OncePerPhase
  BY <1>1, FactsStay
<1>7. /\ ran \in [1..MaxRequests -> Nat] /\ ran' = [ran EXCEPT ![r] = @ + 1]
      /\ ran[r] = 0 /\ FactOf(r, "execution_started")
      /\ \A u \in Tasks : task[u].pc = "starting" /\ task[u].req = r => u = t
  BY <1>1, <1>3 DEF Execute, ControlInv, ControlTyped, RunsOnce
<1>8. /\ ran' \in [1..MaxRequests -> Nat] /\ ran'[r] = 1
      /\ \A q \in 1..MaxRequests : q # r => ran'[q] = ran[q]
  BY <1>4, <1>7
<1>9. ControlTyped'
  <2>1. Knows(t, k)
    BY <1>1, <1>4 DEF Knows, ControlInv, ControlTyped
  <2>2. \A u \in Tasks : Knows(u, task'[u])
    BY <1>5, <2>1 DEF ControlInv, ControlTyped
  <2> QED
    BY <1>1, <1>5, <1>8, <2>2 DEF ControlInv, ControlTyped, Knows
<1>10. Locks'
  <2>1. locked = t
    BY <1>1 DEF ControlInv, Locks
  <2> QED
    BY <1>1, <1>5, <2>1 DEF ControlInv, Locks
<1>11. RunsOnce'
  <2>1. \A q \in 1..MaxRequests :
          ran'[q] <= 1 /\ (ran'[q] = 1 => FactOf(q, "execution_started"))
    BY <1>7, <1>8 DEF ControlInv, RunsOnce
  <2>2. ASSUME NEW u \in Tasks, task'[u].pc = "starting"
        PROVE  /\ u # t /\ task'[u] = task[u] /\ task[u].req # r
               /\ task[u].req \in 1..MaxRequests
    <3>1. u # t /\ task'[u] = task[u]
      BY <1>4, <1>5, <2>2
    <3> QED
      BY <1>7, <2>2, <3>1 DEF ControlInv, ControlTyped, Knows
  <2>3. ASSUME NEW u \in Tasks, task'[u].pc = "starting"
        PROVE  /\ ran'[task[u].req] = 0 /\ FactOf(task[u].req, "execution_started")
               /\ \A v \in Tasks : task'[v].pc = "starting" /\ task[v].req = task[u].req => v = u
    BY <1>8, <2>2, <2>3 DEF ControlInv, RunsOnce
  <2> QED
    BY <1>1, <2>1, <2>2, <2>3 DEF RunsOnce, FactOf
<1>12. InCourse'
  <2>1. CASE overlapped
    BY <1>1, <2>1 DEF InCourse
  <2>2. CASE ~overlapped
    <3>1. Claim(t, k)
      <4>1. Phase(task[t].req) = "execution_started"
        BY <1>1, <2>2 DEF ControlInv, InCourse, Claim
      <4> QED
        BY <1>3, <1>4, <4>1 DEF Claim
    <3>2. \A u \in Tasks : Claim(u, task'[u])
      BY <1>5, <2>2, <3>1 DEF ControlInv, InCourse
    <3>3. \A u \in Tasks : Claim(u, task[u])'
      BY <1>6, <3>2 DEF Claim
    <3>4. \A u \in Tasks : Prepares(u)' <=> Prepares(u)
      BY <1>1, <1>4, <1>5 DEF Prepares
    <3> QED
      BY <1>6, <2>2, <3>3, <3>4 DEF ControlInv, InCourse
  <2> QED
    BY <2>1, <2>2
<1> QED
  BY <1>6, <1>9, <1>10, <1>11, <1>12 DEF ControlInv

\* A task is cancelled.
LEMMA AbortKeepsControl == ASSUME NEW t \in Tasks PROVE ControlInv /\ Abort(t) => ControlInv'
<1> SUFFICES ASSUME ControlInv, Abort(t) PROVE ControlInv'
  OBVIOUS
<1>1. UNCHANGED <<facts, ran, overlapped>> /\ overlapped \in BOOLEAN
  BY DEF Abort, ControlInv, ControlTyped
<1>2. CASE Dead
  BY <1>1, <1>2, DeadKeeps
<1>3. CASE Done(t)
  <2>1. Becomes(t, Idle) /\ LocksAs(t, Idle) /\ Idle.pc = "idle"
    BY <1>3 DEF Done, LocksAs, Idle
  <2>2. Knows(t, Idle) /\ Claim(t, Idle)
    BY <2>1 DEF Knows, Claim
  <2> QED
    BY <1>1, <2>1, <2>2, ControlStays
<1> QED
  BY <1>2, <1>3 DEF Abort

\* The invariant holds when nothing has been requested.
LEMMA ControlInvStarts == ControlInit => ControlInv
<1> SUFFICES ASSUME ControlInit PROVE ControlInv
  OBVIOUS
<1>1. \A t \in Tasks : task[t].pc = "idle"
  BY DEF ControlInit, Idle
<1>2. facts = <<>> /\ Len(facts) = 0 /\ facts \in Seq(Facts)
  BY DEF ControlInit
<1>3. ControlTyped
  BY <1>1, <1>2 DEF ControlInit, ControlTyped, Knows
<1>4. Locks
  BY <1>1 DEF Locks
<1>5. OncePerPhase /\ Legal
  BY <1>2 DEF OncePerPhase, Legal
<1>6. RunsOnce
  BY <1>1 DEF ControlInit, RunsOnce
<1>7. InCourse
  BY <1>1, <1>5 DEF InCourse, Claim, Prepares
<1> QED
  BY <1>3, <1>4, <1>5, <1>6, <1>7 DEF ControlInv

\* Every step of the Session keeps the invariant.
LEMMA ControlInvKept == ControlInv /\ [ControlNext]_controlVars => ControlInv'
<1> SUFFICES ASSUME ControlInv, [ControlNext]_controlVars PROVE ControlInv'
  OBVIOUS
<1>1. CASE Die
  BY <1>1, DeadKeeps DEF Die
<1>2. CASE \E t \in Tasks : \/ Preparing(t) \/ Prepared(t) \/ CommitPrepared(t)
                            \/ StartExecution(t) \/ Execute(t) \/ EndExecution(t) \/ Abort(t)
  BY <1>2, PreparingKeepsControl, PreparedKeepsControl, CommitPreparedKeepsControl,
     StartExecutionKeepsControl, ExecuteKeepsControl, EndExecutionKeepsControl,
     AbortKeepsControl
<1>3. CASE \E d \in Deciders : Answer(d) \/ Decide(d) \/ CommitAnswer(d)
  BY <1>3, AnswerKeepsControl, DecideKeepsControl, CommitAnswerKeepsControl
<1>4. CASE UNCHANGED controlVars
  <2>1. UNCHANGED <<facts, task, locked, ran, overlapped>>
    BY <1>4 DEF controlVars
  <2>2. /\ \A req : Phase(req)' = Phase(req)
        /\ Legal' <=> Legal
        /\ Undecided' = Undecided
        /\ \A req, p : FactOf(req, p)' <=> FactOf(req, p)
        /\ OncePerPhase' <=> OncePerPhase
    BY <2>1, FactsStay
  <2>3. ControlTyped' /\ Locks'
    BY <2>1 DEF ControlInv, ControlTyped, Knows, Locks
  <2>4. RunsOnce'
    BY <2>1, <2>2 DEF ControlInv, RunsOnce
  <2>5. InCourse'
    BY <2>1, <2>2 DEF ControlInv, InCourse, Claim, Prepares
  <2> QED
    BY <2>2, <2>3, <2>4, <2>5 DEF ControlInv
<1> QED
  BY <1>1, <1>2, <1>3, <1>4, BootKeepsControl, ResumeKeepsControl, BeginTurnKeepsControl,
     EndStepKeepsControl, TakeResumeKeepsControl, RecoverKeepsControl DEF ControlNext

\* The invariant holds.
LEMMA ControlInvHolds == ControlSpec => []ControlInv
  BY ControlInvStarts, ControlInvKept, PTL DEF ControlSpec

\* A control request has one course (assistant/control.py, sessions.py): its handler runs once
\* at most and only when approved, and but for two preparations at the same time the Session
\* can read its history again; through any answers, repetitions, resumes, aborts and deaths.
THEOREM RequestsHaveOneCourse == ControlSpec => []OneCourse
<1>1. ControlInv => OneCourse
  <2> SUFFICES ASSUME ControlInv PROVE OneCourse
    OBVIOUS
  <2>1. OnlyKnownCorruption
    BY DEF ControlInv, InCourse, OnlyKnownCorruption
  <2>2. RunsOnceApproved
    <3> SUFFICES ASSUME NEW req \in 1..MaxRequests
                 PROVE  /\ ran[req] <= 1
                        /\ ran[req] = 1 => FactOf(req, "approved")
      BY DEF RunsOnceApproved, Requests, FactOf
    <3>1. ran[req] <= 1 /\ (ran[req] = 1 => FactOf(req, "execution_started"))
      BY DEF ControlInv, RunsOnce
    <3>2. FactOf(req, "execution_started") => FactOf(req, "approved")
      BY DEF ControlInv, OncePerPhase, FactOf
    <3> QED
      BY <3>1, <3>2
  <2> QED
    BY <2>1, <2>2 DEF OneCourse
<1> QED
  BY <1>1, ControlInvHolds, PTL

-------------------------------------------------------------------------------
\* Publication.

Contents == [identity : Nat, bytes : Image]

Operations ==
  [phase : {"running", "sealed", "accepted", "published"}, identity : Nat,
   before : Image, after : Image]

Transactions ==
  [state : {"prepared", "applying", "done", "complete"}, identity : Nat,
   expected : Image, desired : Image]

PublicationTyped ==
  /\ platform \in {"posix", "windows"}
  /\ live \in Contents
  /\ operation \in Operations \cup {NoOperation}
  /\ left \in SUBSET Positions
  /\ edits \in Nat

\* What a transaction writes is what the tool wrote, over what the tool saw.
Justified ==
  /\ transaction \in Transactions
  /\ operation \in Operations /\ operation.phase \in {"accepted", "published"}
  /\ \A p \in Positions : transaction.expected[p] # transaction.desired[p] =>
       p \in Changed /\ transaction.expected[p] = operation.before[p]

InTransaction == owner \in {"step", "applying", "writing", "stepped", "completed", "rebased"}

\* The transaction belongs to the operation, from its plan to its end.
InOrder ==
  /\ InTransaction \/ transaction # None => Justified
  /\ owner \in {"running", "sealed"} =>
       transaction = None /\ operation \in Operations /\ operation.phase # "published"
  /\ owner = "plan" =>
       transaction = None /\ operation \in Operations /\ operation.phase = "accepted"

\* A step is taken on old and new bytes only; what is left to write are old bytes, as the
\* file still holds them, unless the user has written meanwhile.
OldBytesLeft ==
  /\ owner \in {"applying", "writing"} =>
       /\ taken \in Contents
       /\ \A p \in Positions :
            taken.bytes[p] \in {transaction.expected[p], transaction.desired[p]}
  /\ owner = "writing" =>
       \/ platform = "posix" /\ touched
       \/ \A p \in left : transaction.desired[p] # taken.bytes[p] /\ live.bytes[p] = taken.bytes[p]

PublicationInv == PublicationTyped /\ InOrder /\ OldBytesLeft /\ ReadsAreWhole

\* The next position to write is one that is left.
LEMMA NextPosition ==
  ASSUME NEW T \in SUBSET Positions, T # {}
  PROVE  Min(T) \in T
<1> DEFINE Less == {ss \in Nat \X Nat : ss[1] < ss[2]}
<1>1. IsWellFoundedOn(Less, Nat)
  BY NatLessThanWellFounded DEF OpToRel
<1> HIDE DEF Less
<1>2. T \subseteq Nat
  BY PublicationAssumption
<1>3. PICK m \in T : \A k \in T : <<k, m>> \notin Less
  BY <1>1, <1>2, WFMin
<1>4. \A k \in T : ~(k < m)
  BY <1>2, <1>3 DEF Less
<1>5. \A k \in T : m <= k
  BY <1>2, <1>4
<1> QED
  BY <1>5 DEF Min

\* The user writes while it can, and takes no lock.
LEMMA UserKeepsPublication == PublicationInv /\ (UserEdits \/ UserReplaces) => PublicationInv'
<1> SUFFICES ASSUME PublicationInv, UserEdits \/ UserReplaces PROVE PublicationInv'
  OBVIOUS
<1> USE DEF PublicationInv
<1>1. /\ UserChanges /\ live' \in Contents
      /\ UNCHANGED <<platform, operation, transaction, owner, reading, taken, left>>
  <2>1. CASE UserEdits
    <3>1. PICK p \in Positions : \E b \in Bytes \ {live.bytes[p]} :
            live' = [live EXCEPT !.bytes[p] = b]
      BY <2>1 DEF UserEdits
    <3>2. live' \in Contents
      BY <3>1 DEF PublicationTyped, Contents, Image
    <3> QED
      BY <2>1, <3>2 DEF UserEdits, UserChanges, effectVars, writeVars
  <2>2. CASE UserReplaces
    BY <2>2 DEF UserReplaces, UserChanges, effectVars, writeVars, PublicationTyped, Contents
  <2> QED
    BY <2>1, <2>2
<1>2. PublicationTyped'
  BY <1>1 DEF UserChanges, PublicationTyped
<1>3. InOrder'
  BY <1>1 DEF InOrder, InTransaction, Justified, Changed
<1>4. OldBytesLeft'
  <2>1. owner = "writing" => platform = "posix" /\ touched'
    BY <1>1 DEF UserChanges, PublicationTyped
  <2> QED
    BY <1>1, <2>1 DEF OldBytesLeft
<1>5. ReadsAreWhole'
  BY <1>1 DEF ReadsAreWhole, Publishing
<1> QED
  BY <1>2, <1>3, <1>4, <1>5

\* The holder of the operation lock outside a transaction, and the queries.
LEMMA OutsideKeepsPublication ==
  ASSUME PublicationInv,
         Enter \/ PublishPending \/ Leave \/ Begin \/ Seal \/ Accept \/ BeginRead \/ EndRead
  PROVE  PublicationInv'
<1> USE DEF PublicationInv, fileVars, effectVars, writeVars
<1>1. CASE Enter
  BY <1>1 DEF Enter, PublicationTyped, InOrder, InTransaction, Justified, Changed,
              OldBytesLeft, ReadsAreWhole, Publishing
<1>2. CASE PublishPending
  <2>1. InOrder'
    <3>1. transaction = None => operation.phase = "accepted" /\ operation \in Operations
      BY <1>2 DEF PublishPending, Pending, PublicationTyped, NoOperation
    <3> QED
      BY <1>2, <3>1 DEF PublishPending, InOrder, InTransaction, Justified, Changed
  <2> QED
    BY <1>2, <2>1 DEF PublishPending, PublicationTyped, OldBytesLeft, ReadsAreWhole
<1>3. CASE Leave
  BY <1>3 DEF Leave, PublicationTyped, InOrder, InTransaction, Justified, Changed,
              OldBytesLeft, ReadsAreWhole, Publishing
<1>4. CASE Begin
  <2>1. operation' \in Operations /\ operation'.phase = "running"
    BY <1>4 DEF Begin, Operations, PublicationTyped, Contents
  <2>2. transaction' = None /\ owner' = "running"
    BY <1>4 DEF Begin, Pending
  <2> QED
    BY <1>4, <2>1, <2>2 DEF Begin, PublicationTyped, InOrder, InTransaction,
              OldBytesLeft, ReadsAreWhole, Publishing
<1>5. CASE Seal
  <2>1. operation' \in Operations /\ operation'.phase = "sealed"
    BY <1>5 DEF Seal, Operations, InOrder
  <2>2. transaction' = None /\ owner' = "sealed"
    BY <1>5 DEF Seal, InOrder
  <2> QED
    BY <1>5, <2>1, <2>2 DEF Seal, PublicationTyped, InOrder, InTransaction,
              OldBytesLeft, ReadsAreWhole, Publishing
<1>6. CASE Accept
  <2>1. operation' \in Operations /\ operation'.phase = "accepted"
    BY <1>6 DEF Accept, Operations, InOrder
  <2>2. transaction' = None /\ owner' = "sealed"
    BY <1>6 DEF Accept, InOrder
  <2> QED
    BY <1>6, <2>1, <2>2 DEF Accept, PublicationTyped, InOrder, InTransaction,
              OldBytesLeft, ReadsAreWhole, Publishing
<1>7. CASE BeginRead \/ EndRead
  BY <1>7 DEF BeginRead, EndRead, NothingUnfinished, PublicationTyped, InOrder, InTransaction,
              Justified, Changed, OldBytesLeft, ReadsAreWhole, Publishing
<1> QED
  BY <1>1, <1>2, <1>3, <1>4, <1>5, <1>6, <1>7

\* A conflict lets go of the lock and of nothing that is durable.
LEMMA ConflictKeepsPublication ==
  ASSUME PublicationInv, Conflict,
         UNCHANGED <<platform, live, edits, operation, reading>>, owner = "plan" \/ InTransaction
  PROVE  PublicationInv'
  BY DEF PublicationInv, Conflict, PublicationTyped, InOrder, InTransaction, Justified, Changed,
         OldBytesLeft, ReadsAreWhole, Publishing

\* The plan of a transaction
LEMMA PlanKeepsPublication == PublicationInv /\ Plan => PublicationInv'
<1> SUFFICES ASSUME PublicationInv, Plan PROVE PublicationInv'
  OBVIOUS
<1> USE DEF PublicationInv, fileVars, effectVars, writeVars
<1>1. CASE ~Publishable /\ Conflict
  BY <1>1, ConflictKeepsPublication DEF Plan
<1>2. CASE Publishable /\ Prepare
  <2>1. /\ operation \in Operations /\ operation.phase = "accepted" /\ live \in Contents
        /\ UNCHANGED <<operation, live, platform, edits, reading, left, taken, touched>>
        /\ owner = "plan" /\ owner' = "step"
    BY <1>2 DEF Plan, Prepare, InOrder, PublicationTyped
  <2>2. transaction' \in Transactions
    BY <1>2, <2>1 DEF Prepare, Transactions, Operations, Contents, Image
  <2>3. ASSUME NEW p \in Positions, transaction'.expected[p] # transaction'.desired[p]
        PROVE  p \in Changed /\ transaction'.expected[p] = operation.before[p]
    <3>1. /\ transaction'.expected[p] = live.bytes[p]
          /\ transaction'.desired[p] =
               IF p \in Changed THEN operation.after[p] ELSE live.bytes[p]
      BY <1>2, <2>3 DEF Prepare
    <3> QED
      BY <1>2, <2>3, <3>1 DEF Publishable
  <2>4. Justified'
    BY <2>1, <2>2, <2>3 DEF Justified, Changed
  <2> QED
    BY <2>1, <2>4 DEF PublicationTyped, InOrder, InTransaction, OldBytesLeft,
                      ReadsAreWhole, Publishing
<1> QED
  BY <1>1, <1>2 DEF Plan

\* A step of it is found done, is taken, or conflicts.
LEMMA TakeStepKeepsPublication == PublicationInv /\ TakeStep => PublicationInv'
<1> SUFFICES ASSUME PublicationInv, TakeStep PROVE PublicationInv'
  OBVIOUS
<1> USE DEF PublicationInv, fileVars, effectVars, writeVars
<1>1. /\ owner = "step" /\ Justified /\ live \in Contents
      /\ UNCHANGED <<operation, live, platform, edits, reading>>
  BY DEF TakeStep, InOrder, InTransaction, PublicationTyped
<1>2. CASE Conflict
  BY <1>1, <1>2, ConflictKeepsPublication DEF InTransaction
<1>3. CASE StepFulfilled
  <2>1. Justified'
    BY <1>1, <1>3 DEF StepFulfilled, Justified, Transactions, Changed
  <2> QED
    BY <1>1, <1>3, <2>1 DEF StepFulfilled, PublicationTyped, InOrder, InTransaction,
                            OldBytesLeft, ReadsAreWhole, Publishing
<1>4. CASE StepTaken
  <2>1. Justified'
    BY <1>1, <1>4 DEF StepTaken, Justified, Transactions, Changed
  <2>2. /\ transaction'.expected = transaction.expected
        /\ transaction'.desired = transaction.desired
    BY <1>1, <1>4 DEF StepTaken, Justified, Transactions
  <2>3. \A p \in Positions :
          live.bytes[p] \in {transaction.expected[p], transaction.desired[p]}
    BY <1>4 DEF StepTaken, Applicable, Mixed
  <2>4. OldBytesLeft'
    BY <1>1, <1>4, <2>2, <2>3 DEF StepTaken, OldBytesLeft
  <2> QED
    BY <1>1, <1>4, <2>1, <2>4 DEF StepTaken, PublicationTyped, InOrder, InTransaction,
                                  ReadsAreWhole, Publishing
<1> QED
  BY <1>2, <1>3, <1>4 DEF TakeStep

\* The file is opened as it was taken, or conflicts.
LEMMA OpenKeepsPublication == PublicationInv /\ Open => PublicationInv'
<1> SUFFICES ASSUME PublicationInv, Open PROVE PublicationInv'
  OBVIOUS
<1> USE DEF PublicationInv, fileVars, effectVars, writeVars
<1>1. CASE Conflict
  BY <1>1, ConflictKeepsPublication DEF Open, InTransaction
<1>2. CASE ~Conflict
  <2>1. /\ owner = "applying" /\ owner' = "writing" /\ live = taken /\ taken' = live
        /\ left' = {p \in Positions : transaction.desired[p] # taken.bytes[p]}
        /\ UNCHANGED <<transaction, operation, live, platform, edits, reading>>
    BY <1>2 DEF Open, MatchesOpen
  <2>2. InOrder'
    BY <2>1 DEF InOrder, InTransaction, Justified, Changed
  <2>3. OldBytesLeft'
    BY <2>1 DEF OldBytesLeft
  <2> QED
    BY <2>1, <2>2, <2>3 DEF PublicationTyped, ReadsAreWhole, Publishing
<1> QED
  BY <1>1, <1>2

\* One position is written, into the file if it is still the one that is open.
LEMMA WriteKeepsPublication == PublicationInv /\ Write => PublicationInv'
<1> SUFFICES ASSUME PublicationInv, Write PROVE PublicationInv'
  OBVIOUS
<1> USE DEF PublicationInv, fileVars, effectVars, writeVars
<1>1. PICK p : p = Min(left)
  OBVIOUS
<1>2. p \in left /\ left \in SUBSET Positions
  BY <1>1, NextPosition DEF Write, PublicationTyped
<1>3. /\ owner = "writing" /\ left' = left \ {p}
      /\ live' = IF live.identity = taken.identity
                   THEN [live EXCEPT !.bytes[p] = transaction.desired[p]]
                   ELSE live
      /\ UNCHANGED <<platform, touched, edits, operation, taken, transaction, owner, reading>>
  BY <1>1 DEF Write
<1>4. live \in Contents /\ transaction \in Transactions
  BY <1>3 DEF PublicationTyped, InOrder, InTransaction, Justified
<1>5. live' \in Contents /\ \A q \in left' : live'.bytes[q] = live.bytes[q]
  BY <1>2, <1>3, <1>4 DEF Contents, Transactions, Image
<1>6. InOrder'
  BY <1>3 DEF InOrder, InTransaction, Justified, Changed
<1>7. OldBytesLeft'
  BY <1>3, <1>5 DEF OldBytesLeft
<1> QED
  BY <1>2, <1>3, <1>5, <1>6, <1>7 DEF PublicationTyped, ReadsAreWhole, Publishing

\* The write ends; the transaction and the operation do.
LEMMA EndsKeepPublication ==
  PublicationInv /\ (EndWrite \/ Complete \/ Rebase \/ Finalize) => PublicationInv'
<1> SUFFICES ASSUME PublicationInv, EndWrite \/ Complete \/ Rebase \/ Finalize
             PROVE  PublicationInv'
  OBVIOUS
<1> USE DEF PublicationInv, fileVars, effectVars, writeVars
<1>1. owner \in {"writing", "stepped", "completed", "rebased"} /\ InTransaction /\ Justified
  BY DEF EndWrite, Complete, Rebase, Finalize, InTransaction, InOrder
<1>2. CASE EndWrite
  <2>1. CASE Conflict
    BY <1>1, <1>2, <2>1, ConflictKeepsPublication DEF EndWrite
  <2>2. CASE ~Conflict
    <3>1. Justified'
      BY <1>1, <1>2, <2>2 DEF EndWrite, Justified, Transactions, Changed
    <3> QED
      BY <1>1, <1>2, <2>2, <3>1 DEF EndWrite, PublicationTyped, InOrder, InTransaction,
                                    OldBytesLeft, ReadsAreWhole, Publishing
  <2> QED
    BY <2>1, <2>2
<1>3. CASE Complete
  <2>1. Justified'
    BY <1>1, <1>3 DEF Complete, Justified, Transactions, Changed
  <2> QED
    BY <1>1, <1>3, <2>1 DEF Complete, PublicationTyped, InOrder, InTransaction,
                            OldBytesLeft, ReadsAreWhole, Publishing
<1>4. CASE Rebase
  <2>1. /\ operation' \in Operations /\ operation'.phase = "published"
        /\ operation'.before = operation.before /\ operation'.after = operation.after
    BY <1>1, <1>4 DEF Rebase, Justified, Operations
  <2>2. Justified'
    BY <1>1, <1>4, <2>1 DEF Rebase, Justified, Changed
  <2> QED
    BY <1>1, <1>4, <2>1, <2>2 DEF Rebase, PublicationTyped, InOrder, InTransaction,
                                  OldBytesLeft, ReadsAreWhole, Publishing
<1>5. CASE Finalize
  BY <1>1, <1>5 DEF Finalize, PublicationTyped, InOrder, InTransaction,
                    OldBytesLeft, ReadsAreWhole, Publishing
<1> QED
  BY <1>2, <1>3, <1>4, <1>5

\* The holder of the locks dies; what is durable stays.
LEMMA DeathKeepsPublication == PublicationInv /\ OwnerDies => PublicationInv'
<1> SUFFICES ASSUME PublicationInv, OwnerDies PROVE PublicationInv'
  OBVIOUS
<1> USE DEF PublicationInv
<1>1. transaction # None => operation' = operation /\ Justified
  BY DEF OwnerDies, InOrder, Justified
<1>2. InOrder'
  BY <1>1 DEF OwnerDies, InOrder, InTransaction, Justified, Changed
<1> QED
  BY <1>2 DEF OwnerDies, PublicationTyped, OldBytesLeft, ReadsAreWhole, Publishing

\* The invariant of publication holds: initially, and by every step.
LEMMA PublicationInvHolds == PublicationSpec => []PublicationInv
<1>1. PublicationInit => PublicationInv
  <2> SUFFICES ASSUME PublicationInit PROVE PublicationInv
    OBVIOUS
  <2>1. PublicationTyped
    BY DEF PublicationInit, PublicationTyped, Contents
  <2> QED
    BY <2>1 DEF PublicationInit, PublicationInv, InOrder, InTransaction, OldBytesLeft,
                ReadsAreWhole
<1>2. PublicationInv /\ [PublicationNext]_publicationVars => PublicationInv'
  <2> SUFFICES ASSUME PublicationInv, [PublicationNext]_publicationVars PROVE PublicationInv'
    OBVIOUS
  <2>1. CASE UNCHANGED publicationVars
    BY <2>1 DEF publicationVars, fileVars, effectVars, writeVars, PublicationInv,
                PublicationTyped, InOrder, InTransaction, Justified, Changed, OldBytesLeft,
                ReadsAreWhole, Publishing
  <2> QED
    BY <2>1, UserKeepsPublication, OutsideKeepsPublication, PlanKeepsPublication,
       TakeStepKeepsPublication, OpenKeepsPublication, WriteKeepsPublication,
       EndsKeepPublication, DeathKeepsPublication DEF PublicationNext
<1> QED
  BY <1>1, <1>2, PTL DEF PublicationSpec

\* Only a write changes the file without being an edit of the user.
LEMMA OverwritesAreKnown ==
  PublicationInv /\ [PublicationNext]_publicationVars => OnlyKnownOverwrites
<1> SUFFICES ASSUME PublicationInv, [PublicationNext]_publicationVars,
                    NEW p \in Positions, edits' = edits, live'.bytes[p] # live.bytes[p]
             PROVE  \/ p \in Changed /\ live.bytes[p] = operation.before[p]
                    \/ platform = "posix" /\ touched
  BY DEF OnlyKnownOverwrites
<1> USE DEF PublicationInv, fileVars, effectVars, writeVars
<1>1. live' # live
  OBVIOUS
<1>2. ~UserEdits /\ ~UserReplaces
  BY DEF UserEdits, UserReplaces, UserChanges, PublicationTyped
<1>3. Write
  BY <1>1, <1>2 DEF PublicationNext, publicationVars, Enter, PublishPending, Leave, Begin, Seal,
                    Accept, Plan, TakeStep, Open, EndWrite, Complete, Rebase, Finalize,
                    OwnerDies, BeginRead, EndRead
<1>4. Min(left) \in left
  BY <1>3, NextPosition DEF Write, PublicationTyped
<1>5. live \in Contents /\ Justified /\ owner = "writing"
  BY <1>3 DEF Write, PublicationTyped, InOrder, InTransaction
<1>6. p = Min(left)
  <2>1. live' = [live EXCEPT !.bytes[Min(left)] = transaction.desired[Min(left)]]
    BY <1>1, <1>3 DEF Write
  <2> QED
    BY <1>5, <2>1 DEF Contents, Image
<1> QED
  BY <1>4, <1>5, <1>6 DEF OldBytesLeft, Justified

\* Publication spares who writes, and is all or nothing for who reads (operations.py,
\* publication.py): for any file, any tool, any number of edits, conflicts and deaths.
THEOREM PublicationSpares == PublicationSpec => PublicationIsSafe
<1>1. PublicationInv /\ PublicationInv' /\ [PublicationNext]_publicationVars
        => [OnlyKnownOverwrites /\ ReadsAreWhole']_publicationVars
  BY OverwritesAreKnown DEF PublicationInv
<1> QED
  BY <1>1, PublicationInvHolds, PTL DEF PublicationSpec, PublicationIsSafe

-------------------------------------------------------------------------------
\* ChildFiles.

Reclaims ==
  [at : {"reclaiming", "discarding"}, left : SUBSET Delegations, now : Delegations \cup {None},
   all : SUBSET Delegations]

ChildTyped ==
  /\ root = [p \in Paths |-> root[p]]
  /\ delegator \in [Delegations -> {None, "main"}]
  /\ delegating \in [Delegations -> {"none", "creating", "done", "unknown"}]
  /\ startedFrom = [c \in Delegations |-> startedFrom[c]]
  /\ tree = [c \in Delegations |-> tree[c]]
  /\ result = [c \in Delegations |-> result[c]]
  /\ returned = [c \in Delegations |-> returned[c]]
  /\ origin = [c \in Delegations |-> origin[c]]
  /\ intents \in [TaskLines -> SUBSET Delegations]
  /\ sweep \in [TaskLines -> {NoSweep, [at |-> "archived"]} \cup Reclaims]
  /\ swept \in SUBSET Delegations /\ born \in SUBSET Delegations

Clean(c) == tree[c] = None /\ startedFrom[c] = None /\ result[c] = None

\* Who has delegated has begun to; a branch inherits what is done.
Inherited ==
  /\ \A c \in Delegations : delegator[c] = None <=> delegating[c] = "none"
  /\ \A l \in TaskLines : \A c \in intents[l] :
       delegator[c] = "main" /\ (l = "branch" => delegating[c] = "done")

\* Whom an archive is removing, nobody creates; whom it has removed is clean.
Removes(l) ==
  /\ sweep[l].at = "reclaiming" => sweep[l].all \subseteq intents[l]
  /\ sweep[l].at = "discarding" =>
       /\ sweep[l].left \subseteq sweep[l].all
       /\ \A c \in sweep[l].all :
            delegating[c] # "creating" /\ (l = "branch" => delegating[c] = "done")
       /\ \A c \in sweep[l].all \ sweep[l].left : Clean(c)
       /\ sweep[l].now # None => sweep[l].now \in sweep[l].left /\ tree[sweep[l].now] = None

SweptAway ==
  \A c \in swept :
    /\ Clean(c)
    /\ delegating[c] # "creating"
    /\ delegating[c] = "done" \/ sweep["main"].at = "archived"

\* Who has ended had a Session, and whose tree is there was given it by its baseline.
LinesBegun ==
  /\ \A c \in Delegations : returned[c] # None \/ result[c] # None => c \in born
  /\ \A l \in TaskLines : sweep[l].at = "reclaiming" => sweep[l].left \subseteq born
  /\ \A c \in Delegations : tree[c] # None =>
       startedFrom[c] # None /\ origin[c] = startedFrom[c].base

\* A Session keeps the baseline its first tree was made from, until an archive removes it.
KeptBaseline(c) ==
  c \in born /\ c \notin retaken =>
    /\ startedFrom[c] # None => origin[c] = startedFrom[c].base
    /\ result[c] # None => result[c].base = origin[c]

ChildInv ==
  /\ ChildTyped /\ Inherited /\ (\A l \in TaskLines : Removes(l)) /\ SweptAway
  /\ LinesBegun /\ \A c \in Delegations : KeptBaseline(c)

\* What archives have removed, and what they are removing, stays that way when a step begins
\* no creation under their hands and gives nothing to a child nobody creates.
LEMMA ArchivesAbide ==
  ASSUME ChildInv, UNCHANGED <<sweep, swept>>,
         \A l \in TaskLines : intents[l] \subseteq intents'[l],
         \A c \in Delegations : delegating[c] = "done" => delegating'[c] = "done",
         \A c \in Delegations : delegating'[c] = "creating" =>
           delegating[c] = "creating" \/ (delegating[c] # "done" /\ sweep["main"].at = "none"),
         \A c \in Delegations : delegating[c] # "creating" /\ tree[c] = None => tree'[c] = None,
         \A c \in Delegations : delegating[c] # "creating" /\ Clean(c) => Clean(c)'
  PROVE  (\A l \in TaskLines : Removes(l)') /\ SweptAway'
<1>1. ASSUME NEW l \in TaskLines PROVE Removes(l)'
  <2>1. sweep'[l] = sweep[l]
    OBVIOUS
  <2>2. CASE sweep[l].at = "discarding"
    <3>1. /\ sweep[l].left \subseteq sweep[l].all /\ sweep[l].all \subseteq Delegations
          /\ \A c \in sweep[l].all :
               delegating[c] # "creating" /\ (l = "branch" => delegating[c] = "done")
          /\ \A c \in sweep[l].all \ sweep[l].left : Clean(c)
          /\ sweep[l].now # None => sweep[l].now \in sweep[l].left /\ tree[sweep[l].now] = None
      BY <2>2 DEF ChildInv, Removes, ChildTyped, Reclaims, NoSweep
    <3>2. \A c \in sweep[l].all :
            delegating'[c] # "creating" /\ (l = "branch" => delegating'[c] = "done")
      BY <3>1, <2>2 DEF TaskLines
    <3>3. \A c \in sweep[l].all \ sweep[l].left : Clean(c)'
      BY <3>1
    <3> QED
      BY <2>1, <2>2, <3>1, <3>2, <3>3 DEF Removes
  <2>3. CASE sweep[l].at # "discarding"
    BY <2>1, <2>3 DEF ChildInv, Removes
  <2> QED
    BY <2>2, <2>3
<1>2. SweptAway'
  <2> SUFFICES ASSUME NEW c \in swept
               PROVE  /\ Clean(c)' /\ delegating'[c] # "creating"
                      /\ delegating'[c] = "done" \/ sweep'["main"].at = "archived"
    BY DEF SweptAway
  <2>1. /\ c \in Delegations /\ Clean(c) /\ delegating[c] # "creating"
        /\ delegating[c] = "done" \/ sweep["main"].at = "archived"
    BY DEF ChildInv, ChildTyped, SweptAway
  <2> QED
    BY <2>1
<1> QED
  BY <1>1, <1>2

\* The user edits the task root.
LEMMA UserEditsRootKeepsChildren ==
  ChildInv /\ UserEditsRoot => ChildInv'
<1> SUFFICES ASSUME ChildInv, UserEditsRoot PROVE ChildInv'
  OBVIOUS
<1> USE DEF ChildInv
<1>1. UNCHANGED <<delegator, delegating, startedFrom, tree, result, returned, origin,
                  retaken, intents, sweep, swept, born>>
  BY DEF UserEditsRoot, lineage, exchange, endings, historyVars
<1>10. ChildTyped'
  BY <1>1 DEF UserEditsRoot, ChildTyped
<1>11. Inherited'
  BY <1>1 DEF Inherited
<1>12. (\A m \in TaskLines : Removes(m))'
  BY <1>1 DEF Removes, Clean
<1>13. SweptAway'
  BY <1>1 DEF SweptAway, Clean
<1>14. LinesBegun'
  BY <1>1 DEF LinesBegun
<1>15. (\A d \in Delegations : KeptBaseline(d))'
  BY <1>1 DEF KeptBaseline
<1> QED
  BY <1>10, <1>11, <1>12, <1>13, <1>14, <1>15

\* An operation of a child
LEMMA ChildEditsKeepsChildren ==
  ASSUME NEW c \in Delegations PROVE ChildInv /\ ChildEdits(c) => ChildInv'
<1> SUFFICES ASSUME ChildInv, ChildEdits(c) PROVE ChildInv'
  OBVIOUS
<1> USE DEF ChildInv
<1>1. UNCHANGED <<root, delegator, delegating, startedFrom, result, returned, origin,
                  retaken, intents, sweep, swept, born>>
  BY DEF ChildEdits, lineage, exchange, endings, historyVars
<1>10. ChildTyped'
  BY <1>1 DEF ChildEdits, ChildTyped
<1>11. Inherited'
  BY <1>1 DEF Inherited
<1>12. (\A m \in TaskLines : Removes(m))'
  BY <1>1 DEF ChildEdits, Removes, Clean
<1>13. SweptAway'
  BY <1>1 DEF ChildEdits, SweptAway, Clean
<1>14. LinesBegun'
  BY <1>1 DEF ChildEdits, LinesBegun
<1>15. (\A d \in Delegations : KeptBaseline(d))'
  BY <1>1 DEF KeptBaseline
<1> QED
  BY <1>10, <1>11, <1>12, <1>13, <1>14, <1>15

\* A child ends by itself.
LEMMA ChildReturnsKeepsChildren ==
  ASSUME NEW c \in Delegations PROVE ChildInv /\ ChildReturns(c) => ChildInv'
<1> SUFFICES ASSUME ChildInv, ChildReturns(c) PROVE ChildInv'
  OBVIOUS
<1> USE DEF ChildInv
<1>1. UNCHANGED <<root, delegator, delegating, startedFrom, tree, result, origin, retaken,
                  intents, sweep, swept, born>>
  BY DEF ChildReturns, lineage, exchange, endings, historyVars
<1>10. ChildTyped'
  BY <1>1 DEF ChildReturns, ChildTyped
<1>11. Inherited'
  BY <1>1 DEF Inherited
<1>12. (\A m \in TaskLines : Removes(m))'
  BY <1>1 DEF Removes, Clean
<1>13. SweptAway'
  BY <1>1 DEF SweptAway, Clean
<1>14. LinesBegun'
  BY <1>1 DEF ChildReturns, LinesBegun
<1>15. (\A d \in Delegations : KeptBaseline(d))'
  BY <1>1 DEF KeptBaseline
<1> QED
  BY <1>10, <1>11, <1>12, <1>13, <1>14, <1>15

\* A child is given a baseline; not for the first time if its Session exists.
LEMMA TakeBaselineKeepsChildren ==
  ASSUME NEW c \in Delegations PROVE ChildInv /\ TakeBaseline(c) => ChildInv'
<1> SUFFICES ASSUME ChildInv, TakeBaseline(c) PROVE ChildInv'
  OBVIOUS
<1> USE DEF ChildInv
<1>1. UNCHANGED <<root, delegator, delegating, tree, result, returned, origin, intents,
                  sweep, swept, born>>
  BY DEF TakeBaseline, lineage, exchange, endings, historyVars
<1>10. ChildTyped'
  BY <1>1 DEF TakeBaseline, ChildTyped
<1>11. Inherited'
  BY <1>1 DEF Inherited
<1>12. (\A m \in TaskLines : Removes(m))'
  BY <1>1 DEF TakeBaseline, Removes, Clean
<1>13. SweptAway'
  BY <1>1 DEF TakeBaseline, SweptAway, Clean
<1>14. LinesBegun'
  BY <1>1 DEF TakeBaseline, LinesBegun
<1>15. (\A d \in Delegations : KeptBaseline(d))'
  BY <1>1 DEF TakeBaseline, KeptBaseline
<1> QED
  BY <1>10, <1>11, <1>12, <1>13, <1>14, <1>15

\* Its work tree is made from the baseline.
LEMMA MaterializeTreeKeepsChildren ==
  ASSUME NEW c \in Delegations PROVE ChildInv /\ MaterializeTree(c) => ChildInv'
<1> SUFFICES ASSUME ChildInv, MaterializeTree(c) PROVE ChildInv'
  OBVIOUS
<1> USE DEF ChildInv
<1>1. UNCHANGED <<root, delegator, delegating, startedFrom, result, returned, retaken,
                  intents, sweep, swept, born>>
  BY DEF MaterializeTree, lineage, exchange, endings, historyVars
<1>2. /\ startedFrom[c] # None
      /\ tree' = [d \in Delegations |-> tree'[d]] /\ origin' = [d \in Delegations |-> origin'[d]]
      /\ origin'[c] = startedFrom[c].base
      /\ \A d \in Delegations : d # c => tree'[d] = tree[d] /\ origin'[d] = origin[d]
  BY DEF MaterializeTree, ChildTyped
<1>10. ChildTyped'
  BY <1>1, <1>2 DEF MaterializeTree, ChildTyped
<1>11. Inherited'
  BY <1>1 DEF Inherited
<1>12. (\A m \in TaskLines : Removes(m))'
  BY <1>1, <1>2 DEF MaterializeTree, Removes, Clean
<1>13. SweptAway'
  BY <1>1, <1>2 DEF MaterializeTree, SweptAway, Clean
<1>14. LinesBegun'
  <2>1. \A d \in Delegations : tree'[d] # None =>
          startedFrom'[d] # None /\ origin'[d] = startedFrom'[d].base
    BY <1>1, <1>2 DEF LinesBegun
  <2> QED
    BY <1>1, <2>1 DEF LinesBegun
<1>15. (\A d \in Delegations : KeptBaseline(d))'
  BY <1>1, <1>2 DEF MaterializeTree, KeptBaseline
<1> QED
  BY <1>10, <1>11, <1>12, <1>13, <1>14, <1>15

\* Its Session is created, when its tree is there.
LEMMA CreateSessionKeepsChildren ==
  ASSUME NEW c \in Delegations PROVE ChildInv /\ CreateSession(c) => ChildInv'
<1> SUFFICES ASSUME ChildInv, CreateSession(c) PROVE ChildInv'
  OBVIOUS
<1> USE DEF ChildInv
<1>1. UNCHANGED <<root, delegator, delegating, startedFrom, tree, result, returned, origin,
                  retaken, intents, sweep, swept>>
  BY DEF CreateSession, lineage, exchange, endings, historyVars
<1>2. tree[c] # None /\ born' = born \cup {c}
  BY DEF CreateSession
<1>3. /\ startedFrom[c] # None /\ origin[c] = startedFrom[c].base
      /\ result[c] # None => c \in born
  BY <1>2 DEF LinesBegun
<1>10. ChildTyped'
  BY <1>1, <1>2, <1>3 DEF CreateSession, ChildTyped
<1>11. Inherited'
  BY <1>1 DEF Inherited
<1>12. (\A m \in TaskLines : Removes(m))'
  BY <1>1 DEF Removes, Clean
<1>13. SweptAway'
  BY <1>1 DEF SweptAway, Clean
<1>14. LinesBegun'
  BY <1>1, <1>2, <1>3 DEF CreateSession, LinesBegun
<1>15. (\A d \in Delegations : KeptBaseline(d))'
  BY <1>1, <1>2, <1>3 DEF CreateSession, KeptBaseline
<1> QED
  BY <1>10, <1>11, <1>12, <1>13, <1>14, <1>15

\* The command is done.
LEMMA AcknowledgeTaskKeepsChildren ==
  ASSUME NEW c \in Delegations PROVE ChildInv /\ AcknowledgeTask(c) => ChildInv'
<1> SUFFICES ASSUME ChildInv, AcknowledgeTask(c) PROVE ChildInv'
  OBVIOUS
<1> USE DEF ChildInv
<1>1. UNCHANGED <<root, delegator, startedFrom, tree, result, returned, origin, retaken,
                  intents, sweep, swept, born>>
  BY DEF AcknowledgeTask, lineage, exchange, endings, historyVars
<1>10. ChildTyped'
  BY <1>1 DEF AcknowledgeTask, ChildTyped
<1>11. Inherited'
  BY <1>1 DEF AcknowledgeTask, Inherited
<1>12. (\A m \in TaskLines : Removes(m))'
  BY <1>1 DEF AcknowledgeTask, Removes, Clean
<1>13. SweptAway'
  BY <1>1 DEF AcknowledgeTask, SweptAway, Clean
<1>14. LinesBegun'
  BY <1>1 DEF LinesBegun
<1>15. (\A d \in Delegations : KeptBaseline(d))'
  BY <1>1 DEF KeptBaseline
<1> QED
  BY <1>10, <1>11, <1>12, <1>13, <1>14, <1>15

\* What is unknown is created again, unless its line is archived.
LEMMA CreateAgainKeepsChildren ==
  ASSUME NEW c \in Delegations PROVE ChildInv /\ CreateAgain(c) => ChildInv'
<1> SUFFICES ASSUME ChildInv, CreateAgain(c) PROVE ChildInv'
  OBVIOUS
<1> USE DEF ChildInv
<1>1. UNCHANGED <<root, delegator, startedFrom, tree, result, returned, origin, retaken,
                  intents, sweep, swept, born>>
  BY DEF CreateAgain, lineage, exchange, endings, historyVars
<1>2. /\ delegating[c] = "unknown" /\ delegator[c] = "main" /\ sweep["main"].at = "none"
      /\ delegating' \in [Delegations -> {"none", "creating", "done", "unknown"}]
      /\ delegating'[c] = "creating"
      /\ \A d \in Delegations : d # c => delegating'[d] = delegating[d]
  BY DEF CreateAgain, Inherited, ChildTyped
<1>5. (\A m \in TaskLines : Removes(m)') /\ SweptAway'
  BY <1>1, <1>2, ArchivesAbide DEF Clean
<1>10. ChildTyped'
  BY <1>1, <1>2 DEF CreateAgain, ChildTyped
<1>11. Inherited'
  BY <1>1, <1>2 DEF CreateAgain, Inherited
<1>12. (\A m \in TaskLines : Removes(m))'
  BY <1>5
<1>13. SweptAway'
  BY <1>5
<1>14. LinesBegun'
  BY <1>1 DEF LinesBegun
<1>15. (\A d \in Delegations : KeptBaseline(d))'
  BY <1>1 DEF KeptBaseline
<1> QED
  BY <1>10, <1>11, <1>12, <1>13, <1>14, <1>15

\* A line delegates.
LEMMA DelegateKeepsChildren ==
  ASSUME NEW l \in TaskLines, NEW c \in Delegations
  PROVE  ChildInv /\ Delegate(l, c) => ChildInv'
<1> SUFFICES ASSUME ChildInv, Delegate(l, c) PROVE ChildInv'
  OBVIOUS
<1> USE DEF ChildInv
<1>1. UNCHANGED <<root, startedFrom, tree, result, returned, origin, retaken, sweep, swept,
                  born>>
  BY DEF Delegate, lineage, exchange, endings, historyVars
<1>2. /\ l = "main" /\ delegator[c] = None /\ sweep["main"].at = "none"
      /\ delegating[c] = "none"
      /\ delegating' \in [Delegations -> {"none", "creating", "done", "unknown"}]
      /\ delegating'[c] = "creating"
      /\ delegator' \in [Delegations -> {None, "main"}] /\ delegator'[c] = "main"
      /\ intents' \in [TaskLines -> SUBSET Delegations]
      /\ intents'["main"] = intents["main"] \cup {c} /\ intents'["branch"] = intents["branch"]
      /\ \A d \in Delegations :
           d # c => delegating'[d] = delegating[d] /\ delegator'[d] = delegator[d]
  BY DEF Delegate, Inherited, ChildTyped, TaskLines
<1>5. (\A m \in TaskLines : Removes(m)') /\ SweptAway'
  <2>1. \A m \in TaskLines : intents[m] \subseteq intents'[m]
    BY <1>2 DEF TaskLines
  <2> QED
    BY <1>1, <1>2, <2>1, ArchivesAbide DEF Clean
<1>10. ChildTyped'
  BY <1>1, <1>2 DEF Delegate, ChildTyped
<1>11. Inherited'
  <2>1. None # "main"
    BY ChildFilesAssumption
  <2>2. \A d \in Delegations : delegator'[d] = None <=> delegating'[d] = "none"
    BY <1>2, <2>1 DEF Inherited
  <2>3. \A d \in intents["branch"] : delegator'[d] = "main" /\ delegating'[d] = "done"
    BY <1>2 DEF Inherited, TaskLines, ChildTyped
  <2>4. \A d \in intents'["main"] : delegator'[d] = "main"
    BY <1>2 DEF Inherited, TaskLines, ChildTyped
  <2> QED
    BY <1>2, <2>2, <2>3, <2>4 DEF Inherited, TaskLines
<1>12. (\A m \in TaskLines : Removes(m))'
  BY <1>5
<1>13. SweptAway'
  BY <1>5
<1>14. LinesBegun'
  BY <1>1 DEF LinesBegun
<1>15. (\A d \in Delegations : KeptBaseline(d))'
  BY <1>1 DEF KeptBaseline
<1> QED
  BY <1>10, <1>11, <1>12, <1>13, <1>14, <1>15

\* A child is reclaimed by the tool.
LEMMA ReclaimTaskKeepsChildren ==
  ASSUME NEW l \in TaskLines, NEW c \in Delegations
  PROVE  ChildInv /\ ReclaimTask(l, c) => ChildInv'
<1> SUFFICES ASSUME ChildInv, ReclaimTask(l, c) PROVE ChildInv'
  OBVIOUS
<1> USE DEF ChildInv
<1>1. UNCHANGED <<root, delegator, delegating, startedFrom, tree, result, origin, retaken,
                  intents, sweep, swept, born>>
  BY DEF ReclaimTask, lineage, exchange, endings, historyVars
<1>2. /\ c \in born /\ returned' = [d \in Delegations |-> returned'[d]]
      /\ \A d \in Delegations : d # c => returned'[d] = returned[d]
  BY DEF ReclaimTask, Cancelled, ChildTyped
<1>10. ChildTyped'
  BY <1>1, <1>2 DEF ReclaimTask, ChildTyped
<1>11. Inherited'
  BY <1>1 DEF Inherited
<1>12. (\A m \in TaskLines : Removes(m))'
  BY <1>1 DEF Removes, Clean
<1>13. SweptAway'
  BY <1>1 DEF SweptAway, Clean
<1>14. LinesBegun'
  BY <1>1, <1>2 DEF ReclaimTask, LinesBegun
<1>15. (\A d \in Delegations : KeptBaseline(d))'
  BY <1>1 DEF KeptBaseline
<1> QED
  BY <1>10, <1>11, <1>12, <1>13, <1>14, <1>15

\* A branch inherits the delegations of the line.
LEMMA CutLineKeepsChildren ==
  ChildInv /\ CutLine => ChildInv'
<1> SUFFICES ASSUME ChildInv, CutLine PROVE ChildInv'
  OBVIOUS
<1> USE DEF ChildInv
<1>1. UNCHANGED <<root, delegator, delegating, startedFrom, tree, result, returned, origin,
                  retaken, sweep, swept, born>>
  BY DEF CutLine, lineage, exchange, endings, historyVars
<1>2. /\ intents' \in [TaskLines -> SUBSET Delegations]
      /\ intents'["main"] = intents["main"] /\ intents'["branch"] = intents["main"]
      /\ \A m \in TaskLines : intents[m] \subseteq intents'[m]
      /\ \A d \in Delegations : delegating[d] \in {"none", "done"}
  BY DEF CutLine, ChildTyped, TaskLines
<1>3. None # "main"
  BY ChildFilesAssumption
<1>5. (\A m \in TaskLines : Removes(m)') /\ SweptAway'
  BY <1>1, <1>2, ArchivesAbide DEF Clean
<1>10. ChildTyped'
  BY <1>1, <1>2 DEF CutLine, ChildTyped
<1>11. Inherited'
  <2>1. \A d \in intents["main"] : d \in Delegations /\ delegator[d] = "main"
    BY DEF Inherited, TaskLines, ChildTyped
  <2>2. \A d \in intents["main"] : delegating[d] = "done"
    BY <1>2, <1>3, <2>1 DEF Inherited
  <2> QED
    BY <1>1, <1>2, <2>1, <2>2 DEF Inherited, TaskLines
<1>12. (\A m \in TaskLines : Removes(m))'
  BY <1>5
<1>13. SweptAway'
  BY <1>5
<1>14. LinesBegun'
  BY <1>1 DEF LinesBegun
<1>15. (\A d \in Delegations : KeptBaseline(d))'
  BY <1>1 DEF KeptBaseline
<1> QED
  BY <1>10, <1>11, <1>12, <1>13, <1>14, <1>15

\* The Host dies.
LEMMA FilesHostDiesKeepsChildren ==
  ChildInv /\ FilesHostDies => ChildInv'
<1> SUFFICES ASSUME ChildInv, FilesHostDies PROVE ChildInv'
  OBVIOUS
<1> USE DEF ChildInv
<1>1. UNCHANGED <<root, delegator, startedFrom, tree, result, returned, origin, retaken,
                  intents, swept, born>>
  BY DEF FilesHostDies, lineage, exchange, endings, historyVars
<1>2. /\ delegating' \in [Delegations -> {"none", "creating", "done", "unknown"}]
      /\ \A d \in Delegations : /\ delegating'[d] # "creating"
                                /\ delegating'[d] = "none" <=> delegating[d] = "none"
                                /\ delegating[d] = "done" => delegating'[d] = "done"
  BY DEF FilesHostDies, ChildTyped
<1>3. /\ sweep' \in [TaskLines -> {NoSweep, [at |-> "archived"]} \cup Reclaims]
      /\ \A m \in TaskLines : sweep'[m].at \in {"none", "archived"}
      /\ \A m \in TaskLines : sweep[m].at = "archived" => sweep'[m].at = "archived"
  <2>1. \A m \in TaskLines : sweep'[m] = IF sweep[m].at = "archived" THEN sweep[m] ELSE NoSweep
    BY DEF FilesHostDies
  <2>2. NoSweep.at = "none"
    BY DEF NoSweep
  <2>3. sweep' = [m \in TaskLines |-> sweep'[m]]
    BY DEF FilesHostDies
  <2> QED
    BY <2>1, <2>2, <2>3 DEF ChildTyped
<1>10. ChildTyped'
  BY <1>1, <1>2, <1>3 DEF FilesHostDies, ChildTyped
<1>11. Inherited'
  BY <1>1, <1>2 DEF Inherited, ChildTyped
<1>12. (\A m \in TaskLines : Removes(m))'
  BY <1>3 DEF Removes
<1>13. SweptAway'
  BY <1>1, <1>2, <1>3 DEF SweptAway, Clean, ChildTyped, TaskLines
<1>14. LinesBegun'
  BY <1>1, <1>3 DEF LinesBegun
<1>15. (\A d \in Delegations : KeptBaseline(d))'
  BY <1>1 DEF KeptBaseline
<1> QED
  BY <1>10, <1>11, <1>12, <1>13, <1>14, <1>15

\* A line begins to be archived.
LEMMA BeginArchiveKeepsChildren ==
  ASSUME NEW l \in TaskLines PROVE ChildInv /\ BeginArchive(l) => ChildInv'
<1> SUFFICES ASSUME ChildInv, BeginArchive(l) PROVE ChildInv'
  OBVIOUS
<1> USE DEF ChildInv
<1>1. UNCHANGED <<root, delegator, delegating, startedFrom, tree, result, returned, origin,
                  retaken, intents, swept, born>>
  BY DEF BeginArchive, lineage, exchange, endings, historyVars
<1>2. /\ sweep'[l] = [at |-> "reclaiming", left |-> intents[l] \cap born,
                       now |-> None, all |-> intents[l]]
      /\ sweep'[l] \in Reclaims /\ \A m \in TaskLines : m # l => sweep'[m] = sweep[m]
  BY DEF BeginArchive, ChildTyped, Reclaims
<1>10. ChildTyped'
  BY <1>1, <1>2 DEF BeginArchive, ChildTyped
<1>11. Inherited'
  BY <1>1 DEF Inherited
<1>12. (\A m \in TaskLines : Removes(m))'
  BY <1>1, <1>2 DEF BeginArchive, Removes, Clean
<1>13. SweptAway'
  BY <1>1, <1>2 DEF BeginArchive, SweptAway, Clean
<1>14. LinesBegun'
  BY <1>1, <1>2 DEF BeginArchive, LinesBegun
<1>15. (\A d \in Delegations : KeptBaseline(d))'
  BY <1>1 DEF KeptBaseline
<1> QED
  BY <1>10, <1>11, <1>12, <1>13, <1>14, <1>15

\* A child is stopped for the archive of its line.
LEMMA CancelForArchiveKeepsChildren ==
  ASSUME NEW l \in TaskLines, NEW c \in Delegations
  PROVE  ChildInv /\ CancelForArchive(l, c) => ChildInv'
<1> SUFFICES ASSUME ChildInv, CancelForArchive(l, c) PROVE ChildInv'
  OBVIOUS
<1> USE DEF ChildInv
<1>1. UNCHANGED <<root, delegator, delegating, startedFrom, tree, result, origin, retaken,
                  intents, swept, born>>
  BY DEF CancelForArchive, lineage, exchange, endings, historyVars
<1>2. /\ sweep[l] \in Reclaims /\ sweep[l].at = "reclaiming" /\ c \in sweep[l].left
      /\ c \in born
  BY DEF CancelForArchive, ChildTyped, NoSweep, LinesBegun
<1>3. /\ sweep'[l] \in Reclaims /\ sweep'[l].at = "reclaiming"
      /\ sweep'[l].all = sweep[l].all /\ sweep'[l].left \subseteq sweep[l].left
      /\ \A m \in TaskLines : m # l => sweep'[m] = sweep[m]
  <2>1. sweep'[l] = [sweep[l] EXCEPT !.now = c, !.left = @ \ {c}]
    BY DEF CancelForArchive, ChildTyped
  <2> QED
    BY <1>2, <2>1 DEF CancelForArchive, ChildTyped, Reclaims
<1>4. /\ returned' = [d \in Delegations |-> returned'[d]]
      /\ \A d \in Delegations : d # c => returned'[d] = returned[d]
  BY DEF CancelForArchive, Cancelled, ChildTyped
<1>6. sweep' \in [TaskLines -> {NoSweep, [at |-> "archived"]} \cup Reclaims]
  <2>1. sweep' = [sweep EXCEPT ![l] = sweep'[l]]
    BY DEF CancelForArchive, ChildTyped
  <2> QED
    BY <1>3, <2>1 DEF ChildTyped
<1>7. sweep["main"].at = "archived" <=> sweep'["main"].at = "archived"
  BY <1>2, <1>3 DEF TaskLines
<1>10. ChildTyped'
  BY <1>1, <1>4, <1>6 DEF ChildTyped
<1>11. Inherited'
  BY <1>1 DEF Inherited
<1>12. (\A m \in TaskLines : Removes(m))'
  <2> SUFFICES ASSUME NEW m \in TaskLines PROVE Removes(m)'
    OBVIOUS
  <2>1. CASE m = l
    BY <1>1, <1>2, <1>3, <2>1 DEF Removes
  <2>2. CASE m # l
    BY <1>1, <1>3, <2>2 DEF Removes, Clean
  <2> QED
    BY <2>1, <2>2
<1>13. SweptAway'
  BY <1>1, <1>7 DEF SweptAway, Clean, ChildTyped
<1>14. LinesBegun'
  <2>1. \A m \in TaskLines : sweep'[m].at = "reclaiming" => sweep'[m].left \subseteq born
    BY <1>2, <1>3 DEF LinesBegun
  <2>2. \A d \in Delegations : returned'[d] # None => d \in born
    BY <1>2, <1>4 DEF LinesBegun
  <2> QED
    BY <1>1, <2>1, <2>2 DEF LinesBegun
<1>15. (\A d \in Delegations : KeptBaseline(d))'
  BY <1>1 DEF KeptBaseline
<1> QED
  BY <1>10, <1>11, <1>12, <1>13, <1>14, <1>15

\* A quiet line begins to remove the files of its delegations.
LEMMA BeginDiscardKeepsChildren ==
  ASSUME NEW l \in TaskLines PROVE ChildInv /\ BeginDiscard(l) => ChildInv'
<1> SUFFICES ASSUME ChildInv, BeginDiscard(l) PROVE ChildInv'
  OBVIOUS
<1> USE DEF ChildInv
<1>1. UNCHANGED <<root, delegator, delegating, startedFrom, tree, result, returned, origin,
                  retaken, intents, swept, born>>
  BY DEF BeginDiscard, lineage, exchange, endings, historyVars
<1>2. sweep[l] \in Reclaims /\ sweep[l].at = "reclaiming" /\ sweep[l].now = None
  BY DEF BeginDiscard, ChildTyped, NoSweep
<1>3. /\ sweep'[l] \in Reclaims /\ sweep'[l].at = "discarding" /\ sweep'[l].now = None
      /\ sweep'[l].all = sweep[l].all /\ sweep'[l].left = sweep[l].all
      /\ \A m \in TaskLines : m # l => sweep'[m] = sweep[m]
  <2>1. sweep'[l] = [sweep[l] EXCEPT !.at = "discarding", !.left = sweep[l].all]
    BY DEF BeginDiscard, ChildTyped
  <2> QED
    BY <1>2, <2>1 DEF BeginDiscard, ChildTyped, Reclaims
<1>4. \A c \in sweep[l].all :
        delegating[c] # "creating" /\ (l = "branch" => delegating[c] = "done")
  <2>1. sweep[l].all \subseteq intents[l] /\ intents[l] \subseteq Delegations
    BY <1>2 DEF Removes, ChildTyped
  <2>2. \A c \in intents[l] : /\ delegator[c] = "main"
                              /\ l = "branch" => delegating[c] = "done"
                              /\ delegator[c] = l => delegating[c] # "creating"
    BY DEF Inherited, BeginDiscard, Quiet
  <2> QED
    BY <2>1, <2>2 DEF TaskLines
<1>6. sweep' \in [TaskLines -> {NoSweep, [at |-> "archived"]} \cup Reclaims]
  <2>1. sweep' = [sweep EXCEPT ![l] = sweep'[l]]
    BY DEF BeginDiscard, ChildTyped
  <2> QED
    BY <1>3, <2>1 DEF ChildTyped
<1>7. sweep["main"].at = "archived" <=> sweep'["main"].at = "archived"
  BY <1>2, <1>3 DEF TaskLines
<1>10. ChildTyped'
  BY <1>1, <1>6 DEF ChildTyped
<1>11. Inherited'
  BY <1>1 DEF Inherited
<1>12. (\A m \in TaskLines : Removes(m))'
  <2> SUFFICES ASSUME NEW m \in TaskLines PROVE Removes(m)'
    OBVIOUS
  <2>1. CASE m = l
    BY <1>1, <1>3, <1>4, <2>1 DEF Removes
  <2>2. CASE m # l
    BY <1>1, <1>3, <2>2 DEF Removes, Clean
  <2> QED
    BY <2>1, <2>2
<1>13. SweptAway'
  BY <1>1, <1>7 DEF SweptAway, Clean, ChildTyped
<1>14. LinesBegun'
  BY <1>1, <1>3 DEF LinesBegun
<1>15. (\A d \in Delegations : KeptBaseline(d))'
  BY <1>1 DEF KeptBaseline
<1> QED
  BY <1>10, <1>11, <1>12, <1>13, <1>14, <1>15

\* The work tree of a child is removed.
LEMMA DiscardTreeKeepsChildren ==
  ASSUME NEW l \in TaskLines, NEW c \in Delegations
  PROVE  ChildInv /\ DiscardTree(l, c) => ChildInv'
<1> SUFFICES ASSUME ChildInv, DiscardTree(l, c) PROVE ChildInv'
  OBVIOUS
<1> USE DEF ChildInv
<1>1. UNCHANGED <<root, delegator, delegating, startedFrom, result, returned, origin,
                  retaken, intents, swept, born>>
  BY DEF DiscardTree, lineage, exchange, endings, historyVars
<1>2. /\ sweep[l] \in Reclaims /\ sweep[l].at = "discarding" /\ sweep[l].now = None
      /\ c \in sweep[l].left
  BY DEF DiscardTree, ChildTyped, NoSweep
<1>3. /\ sweep'[l] \in Reclaims /\ sweep'[l].at = "discarding" /\ sweep'[l].now = c
      /\ sweep'[l].all = sweep[l].all /\ sweep'[l].left = sweep[l].left
      /\ \A m \in TaskLines : m # l => sweep'[m] = sweep[m]
  BY <1>2 DEF DiscardTree, ChildTyped, Reclaims
<1>4. /\ tree' = [d \in Delegations |-> tree'[d]] /\ tree'[c] = None
      /\ \A d \in Delegations : d # c => tree'[d] = tree[d]
  BY DEF DiscardTree, ChildTyped
<1>10. ChildTyped'
  BY <1>1, <1>2, <1>3, <1>4 DEF DiscardTree, ChildTyped
<1>11. Inherited'
  BY <1>1 DEF Inherited
<1>12. (\A m \in TaskLines : Removes(m))'
  BY <1>1, <1>2, <1>3, <1>4 DEF DiscardTree, Removes, Clean
<1>13. SweptAway'
  BY <1>1, <1>2, <1>3, <1>4 DEF DiscardTree, SweptAway, Clean
<1>14. LinesBegun'
  BY <1>1, <1>2, <1>3, <1>4 DEF DiscardTree, LinesBegun
<1>15. (\A d \in Delegations : KeptBaseline(d))'
  BY <1>1 DEF KeptBaseline
<1> QED
  BY <1>10, <1>11, <1>12, <1>13, <1>14, <1>15

\* Its exchange is removed, and with it what it started from.
LEMMA DiscardExchangeKeepsChildren ==
  ASSUME NEW l \in TaskLines, NEW c \in Delegations
  PROVE  ChildInv /\ DiscardExchange(l, c) => ChildInv'
<1> SUFFICES ASSUME ChildInv, DiscardExchange(l, c) PROVE ChildInv'
  OBVIOUS
<1> USE DEF ChildInv
<1>1. UNCHANGED <<root, delegator, delegating, tree, returned, origin, retaken, intents,
                  swept, born>>
  BY DEF DiscardExchange, lineage, exchange, endings, historyVars
<1>2. /\ sweep[l] \in Reclaims /\ sweep[l].at = "discarding" /\ sweep[l].now = c
      /\ tree[c] = None /\ c # None /\ c \in sweep[l].left
  BY ChildFilesAssumption DEF DiscardExchange, ChildTyped, NoSweep, Removes
<1>3. /\ sweep'[l] \in Reclaims /\ sweep'[l].at = "discarding" /\ sweep'[l].now = None
      /\ sweep'[l].all = sweep[l].all /\ sweep'[l].left = sweep[l].left \ {c}
      /\ \A m \in TaskLines : m # l => sweep'[m] = sweep[m]
  <2>1. sweep'[l] = [sweep[l] EXCEPT !.now = None, !.left = @ \ {c}]
    BY DEF DiscardExchange, ChildTyped
  <2> QED
    BY <1>2, <2>1 DEF DiscardExchange, ChildTyped, Reclaims
<1>4. /\ startedFrom' = [d \in Delegations |-> startedFrom'[d]] /\ startedFrom'[c] = None
      /\ result' = [d \in Delegations |-> result'[d]] /\ result'[c] = None
      /\ \A d \in Delegations :
           d # c => startedFrom'[d] = startedFrom[d] /\ result'[d] = result[d]
  BY DEF DiscardExchange, ChildTyped
<1>5. \A d \in Delegations : Clean(d) \/ d = c => Clean(d)'
  BY <1>1, <1>2, <1>4 DEF Clean
<1>6. sweep' \in [TaskLines -> {NoSweep, [at |-> "archived"]} \cup Reclaims]
  <2>1. sweep' = [sweep EXCEPT ![l] = sweep'[l]]
    BY DEF DiscardExchange, ChildTyped
  <2> QED
    BY <1>3, <2>1 DEF ChildTyped
<1>7. sweep["main"].at = "archived" <=> sweep'["main"].at = "archived"
  BY <1>2, <1>3 DEF TaskLines
<1>10. ChildTyped'
  BY <1>1, <1>4, <1>6 DEF ChildTyped
<1>11. Inherited'
  BY <1>1 DEF Inherited
<1>12. (\A m \in TaskLines : Removes(m))'
  <2> SUFFICES ASSUME NEW m \in TaskLines PROVE Removes(m)'
    OBVIOUS
  <2>1. CASE m = l
    <3>1. sweep[l].all \subseteq Delegations /\ sweep[l].left \subseteq sweep[l].all
      BY <1>2 DEF Reclaims, Removes
    <3>2. \A d \in sweep[l].all \ sweep[l].left : Clean(d)
      BY <1>2 DEF Removes
    <3>3. \A d \in sweep'[l].all \ sweep'[l].left : Clean(d)'
      BY <1>3, <1>5, <3>1, <3>2
    <3>4. \A d \in sweep'[l].all :
            delegating'[d] # "creating" /\ (l = "branch" => delegating'[d] = "done")
      BY <1>1, <1>2, <1>3 DEF Removes
    <3> QED
      BY <1>3, <2>1, <3>1, <3>3, <3>4 DEF Removes
  <2>2. CASE m # l
    <3>1. sweep'[m] = sweep[m] /\ (sweep[m].at = "discarding" => sweep[m].all \subseteq Delegations)
      BY <1>3, <2>2 DEF ChildTyped, Reclaims, NoSweep
    <3>2. CASE sweep[m].at = "discarding"
      <4>1. \A d \in sweep[m].all \ sweep[m].left : Clean(d)'
        BY <1>5, <3>1, <3>2 DEF Removes
      <4> QED
        BY <1>1, <3>1, <3>2, <4>1 DEF Removes
    <3>3. CASE sweep[m].at # "discarding"
      BY <1>1, <3>1, <3>3 DEF Removes
    <3> QED
      BY <3>2, <3>3
  <2> QED
    BY <2>1, <2>2
<1>13. SweptAway'
  <2>1. \A d \in swept : Clean(d)'
    BY <1>5 DEF SweptAway, ChildTyped
  <2> QED
    BY <1>1, <1>7, <2>1 DEF SweptAway, ChildTyped
<1>14. LinesBegun'
  <2>1. \A d \in Delegations : tree'[d] # None => d # c
    BY <1>1, <1>2
  <2>2. \A d \in Delegations : tree'[d] # None =>
          startedFrom'[d] # None /\ origin'[d] = startedFrom'[d].base
    BY <1>1, <1>4, <2>1 DEF LinesBegun
  <2>3. \A d \in Delegations : returned'[d] # None \/ result'[d] # None => d \in born'
    BY <1>1, <1>4 DEF LinesBegun
  <2>4. \A m \in TaskLines : sweep'[m].at = "reclaiming" => sweep'[m].left \subseteq born'
    BY <1>1, <1>3 DEF LinesBegun
  <2> QED
    BY <2>2, <2>3, <2>4 DEF LinesBegun
<1>15. (\A d \in Delegations : KeptBaseline(d))'
  BY <1>1, <1>2, <1>3, <1>4 DEF DiscardExchange, KeptBaseline
<1> QED
  BY <1>10, <1>11, <1>12, <1>13, <1>14, <1>15

\* The line is archived.
LEMMA EndArchiveKeepsChildren ==
  ASSUME NEW l \in TaskLines PROVE ChildInv /\ EndArchive(l) => ChildInv'
<1> SUFFICES ASSUME ChildInv, EndArchive(l) PROVE ChildInv'
  OBVIOUS
<1> USE DEF ChildInv
<1>1. UNCHANGED <<root, delegator, delegating, startedFrom, tree, result, returned, origin,
                  retaken, intents, born>>
  BY DEF EndArchive, lineage, exchange, endings, historyVars
<1>2. sweep[l] \in Reclaims /\ sweep[l].at = "discarding" /\ sweep[l].left = {}
  BY DEF EndArchive, ChildTyped, NoSweep
<1>3. /\ sweep'[l] = [at |-> "archived"] /\ swept' = swept \cup sweep[l].all
      /\ sweep' \in [TaskLines -> {NoSweep, [at |-> "archived"]} \cup Reclaims]
      /\ \A m \in TaskLines : m # l => sweep'[m] = sweep[m]
  BY <1>2 DEF EndArchive, ChildTyped
<1>4. \A c \in sweep[l].all : /\ Clean(c) /\ delegating[c] # "creating"
                              /\ l = "branch" => delegating[c] = "done"
  BY <1>2 DEF Removes
<1>5. sweep[l].all \subseteq Delegations
  BY <1>2 DEF Reclaims
<1>10. ChildTyped'
  BY <1>1, <1>2, <1>3, <1>4, <1>5 DEF EndArchive, ChildTyped
<1>11. Inherited'
  BY <1>1 DEF Inherited
<1>12. (\A m \in TaskLines : Removes(m))'
  BY <1>1, <1>2, <1>3, <1>4, <1>5 DEF EndArchive, Removes, Clean
<1>13. SweptAway'
  <2>1. \A c \in sweep[l].all : delegating[c] = "done" \/ sweep'["main"].at = "archived"
    BY <1>3, <1>4 DEF TaskLines
  <2>2. sweep["main"].at = "archived" => sweep'["main"].at = "archived"
    BY <1>3 DEF TaskLines
  <2> QED
    BY <1>1, <1>3, <1>4, <2>1, <2>2 DEF SweptAway, Clean
<1>14. LinesBegun'
  BY <1>1, <1>2, <1>3, <1>4, <1>5 DEF EndArchive, LinesBegun
<1>15. (\A d \in Delegations : KeptBaseline(d))'
  BY <1>1 DEF KeptBaseline
<1> QED
  BY <1>10, <1>11, <1>12, <1>13, <1>14, <1>15

\* A result is frozen once, of a child that has ended and from the baseline that is there.
LEMMA FinishedOnce ==
  ASSUME ChildInv, NEW c \in Delegations, Finished(c), returned[c] # None
  PROVE  /\ c \in born
         /\ result' = [d \in Delegations |-> result'[d]]
         /\ \A d \in Delegations : d # c => result'[d] = result[d]
         /\ result[c] # None => result'[c] = result[c]
         /\ result[c] = None =>
              startedFrom[c] # None /\ result'[c].base = startedFrom[c].base
  BY DEF ChildInv, ChildTyped, LinesBegun, Finished, Recordable

\* A child reports.
LEMMA ChildReportsKeepsChildren ==
  ASSUME NEW c \in Delegations PROVE ChildInv /\ ChildReports(c) => ChildInv'
<1> SUFFICES ASSUME ChildInv, ChildReports(c) PROVE ChildInv'
  OBVIOUS
<1> USE DEF ChildInv
<1>1. UNCHANGED <<root, delegator, delegating, startedFrom, tree, returned, origin,
                  retaken, intents, sweep, swept, born>>
  BY DEF ChildReports, lineage, exchange, endings, historyVars
<1>2. Finished(c) /\ returned[c] # None
  BY DEF ChildReports, ReportsTo, FilesReady
<1>3. /\ c \in born
      /\ result' = [d \in Delegations |-> result'[d]]
      /\ \A d \in Delegations : d # c => result'[d] = result[d]
      /\ result[c] # None => result'[c] = result[c]
      /\ result[c] = None => startedFrom[c] # None /\ result'[c].base = startedFrom[c].base
  BY <1>2, FinishedOnce
<1>4. \A d \in Delegations : Clean(d) => Clean(d)'
  BY <1>1, <1>3 DEF Clean
<1>5. (\A m \in TaskLines : Removes(m)') /\ SweptAway'
  BY <1>1, <1>4, ArchivesAbide
<1>10. ChildTyped'
  BY <1>1, <1>2, <1>3, <1>4 DEF ChildReports, ChildTyped
<1>11. Inherited'
  BY <1>1 DEF Inherited
<1>12. (\A m \in TaskLines : Removes(m))'
  BY <1>5
<1>13. SweptAway'
  BY <1>5
<1>14. LinesBegun'
  BY <1>1, <1>2, <1>3, <1>4 DEF ChildReports, LinesBegun
<1>15. (\A d \in Delegations : KeptBaseline(d))'
  BY <1>1, <1>2, <1>3, <1>4 DEF ChildReports, KeptBaseline
<1> QED
  BY <1>10, <1>11, <1>12, <1>13, <1>14, <1>15

\* A result is merged into the task root.
LEMMA MergeResultKeepsChildren ==
  ASSUME NEW l \in TaskLines, NEW c \in Delegations
  PROVE  ChildInv /\ MergeResult(l, c) => ChildInv'
<1> SUFFICES ASSUME ChildInv, MergeResult(l, c) PROVE ChildInv'
  OBVIOUS
<1> USE DEF ChildInv
<1>1. UNCHANGED <<delegator, delegating, startedFrom, tree, returned, origin, retaken,
                  intents, sweep, swept, born>>
  BY DEF MergeResult, lineage, exchange, endings, historyVars
<1>2. Finished(c) /\ returned[c] # None
  BY DEF MergeResult, ReportsTo, FilesReady
<1>3. /\ c \in born
      /\ result' = [d \in Delegations |-> result'[d]]
      /\ \A d \in Delegations : d # c => result'[d] = result[d]
      /\ result[c] # None => result'[c] = result[c]
      /\ result[c] = None => startedFrom[c] # None /\ result'[c].base = startedFrom[c].base
  BY <1>2, FinishedOnce
<1>4. \A d \in Delegations : Clean(d) => Clean(d)'
  BY <1>1, <1>3 DEF Clean
<1>5. (\A m \in TaskLines : Removes(m)') /\ SweptAway'
  BY <1>1, <1>4, ArchivesAbide
<1>10. ChildTyped'
  <2>1. root' = [p \in Paths |-> root'[p]]
    BY DEF MergeResult, MergeTree, ChildTyped
  <2> QED
    BY <1>1, <1>3, <2>1 DEF ChildTyped
<1>11. Inherited'
  BY <1>1 DEF Inherited
<1>12. (\A m \in TaskLines : Removes(m))'
  BY <1>5
<1>13. SweptAway'
  BY <1>5
<1>14. LinesBegun'
  BY <1>1, <1>2, <1>3, <1>4 DEF MergeResult, LinesBegun
<1>15. (\A d \in Delegations : KeptBaseline(d))'
  BY <1>1, <1>2, <1>3, <1>4 DEF MergeResult, KeptBaseline
<1> QED
  BY <1>10, <1>11, <1>12, <1>13, <1>14, <1>15

\* It is reported to the line that is archived, or the archive ends.
LEMMA ReportForArchiveKeepsChildren ==
  ASSUME NEW l \in TaskLines, NEW c \in Delegations
  PROVE  ChildInv /\ ReportForArchive(l, c) => ChildInv'
<1> SUFFICES ASSUME ChildInv, ReportForArchive(l, c) PROVE ChildInv'
  OBVIOUS
<1> USE DEF ChildInv
<1>1. UNCHANGED <<root, delegator, delegating, startedFrom, tree, returned, origin,
                  retaken, intents, swept, born>>
  BY DEF ReportForArchive, lineage, exchange, endings, historyVars
<1>2. sweep[l] \in Reclaims /\ sweep[l].at = "reclaiming"
  BY DEF ReportForArchive, ChildTyped, NoSweep
<1>3. \/ /\ Finished(c) /\ returned[c] # None
         /\ sweep' = [sweep EXCEPT ![l].now = None]
      \/ result' = result /\ sweep' = [sweep EXCEPT ![l] = NoSweep]
  BY DEF ReportForArchive, ReportsTo, FilesReady
<1>4. /\ result' = [d \in Delegations |-> result'[d]]
      /\ \A d \in Delegations : result'[d] = result[d] \/
           (result[d] = None /\ d \in born /\ startedFrom[d] # None
            /\ result'[d].base = startedFrom[d].base)
  BY <1>3, FinishedOnce DEF ChildTyped
<1>5. \A d \in Delegations : Clean(d) => Clean(d)'
  BY <1>1, <1>4 DEF Clean
<1>6. /\ sweep' \in [TaskLines -> {NoSweep, [at |-> "archived"]} \cup Reclaims]
      /\ \A m \in TaskLines : m # l => sweep'[m] = sweep[m]
      /\ \/ sweep'[l] = NoSweep
         \/ /\ sweep'[l].at = "reclaiming" /\ sweep'[l].all = sweep[l].all
            /\ sweep'[l].left = sweep[l].left
  <2>1. CASE sweep' = [sweep EXCEPT ![l] = NoSweep]
    BY <2>1 DEF ChildTyped
  <2>2. CASE sweep' = [sweep EXCEPT ![l].now = None]
    <3>1. sweep'[l] = [sweep[l] EXCEPT !.now = None]
      BY <2>2 DEF ChildTyped
    <3>2. /\ sweep'[l] \in Reclaims /\ sweep'[l].at = "reclaiming"
          /\ sweep'[l].all = sweep[l].all /\ sweep'[l].left = sweep[l].left
      BY <1>2, <3>1 DEF Reclaims
    <3>3. sweep' = [sweep EXCEPT ![l] = sweep'[l]]
      BY <2>2, <3>1 DEF ChildTyped
    <3> QED
      BY <3>2, <3>3 DEF ChildTyped
  <2> QED
    BY <1>3, <2>1, <2>2
<1>7. /\ sweep["main"].at = "archived" <=> sweep'["main"].at = "archived"
      /\ sweep'[l].at \in {"none", "reclaiming"}
  BY <1>2, <1>6 DEF TaskLines, NoSweep
<1>10. ChildTyped'
  BY <1>1, <1>4, <1>6 DEF ChildTyped
<1>11. Inherited'
  BY <1>1 DEF Inherited
<1>12. (\A m \in TaskLines : Removes(m))'
  <2> SUFFICES ASSUME NEW m \in TaskLines PROVE Removes(m)'
    OBVIOUS
  <2>1. CASE m = l
    BY <1>1, <1>2, <1>6, <1>7, <2>1 DEF Removes, NoSweep
  <2>2. CASE m # l
    <3>1. sweep'[m] = sweep[m] /\ (sweep[m].at = "discarding" => sweep[m].all \subseteq Delegations)
      BY <1>6, <2>2 DEF ChildTyped, Reclaims, NoSweep
    <3>2. CASE sweep[m].at = "discarding"
      <4>1. \A d \in sweep[m].all \ sweep[m].left : Clean(d)'
        BY <1>5, <3>1, <3>2 DEF Removes
      <4> QED
        BY <1>1, <3>1, <3>2, <4>1 DEF Removes
    <3>3. CASE sweep[m].at # "discarding"
      BY <1>1, <3>1, <3>3 DEF Removes
    <3> QED
      BY <3>2, <3>3
  <2> QED
    BY <2>1, <2>2
<1>13. SweptAway'
  <2>1. \A d \in swept : Clean(d)'
    BY <1>5 DEF SweptAway, ChildTyped
  <2> QED
    BY <1>1, <1>7, <2>1 DEF SweptAway, ChildTyped
<1>14. LinesBegun'
  <2>1. \A m \in TaskLines : sweep'[m].at = "reclaiming" => sweep'[m].left \subseteq born
    BY <1>2, <1>6 DEF LinesBegun, NoSweep
  <2>2. \A d \in Delegations : result'[d] # None => d \in born
    BY <1>4 DEF LinesBegun
  <2> QED
    BY <1>1, <2>1, <2>2 DEF LinesBegun
<1>15. (\A d \in Delegations : KeptBaseline(d))'
  BY <1>1, <1>4 DEF KeptBaseline
<1> QED
  BY <1>10, <1>11, <1>12, <1>13, <1>14, <1>15

-------------------------------------------------------------------------------
\* The invariant holds at the start.
LEMMA ChildInvInit == ChildFilesInit => ChildInv
<1> SUFFICES ASSUME ChildFilesInit PROVE ChildInv
  OBVIOUS
<1> USE DEF ChildFilesInit
<1>1. ChildTyped
  BY DEF ChildTyped
<1>2. Inherited
  BY DEF Inherited
<1>3. \A l \in TaskLines : Removes(l)
  BY DEF Removes, NoSweep
<1>4. SweptAway
  BY DEF SweptAway
<1>5. LinesBegun
  BY DEF LinesBegun, NoSweep
<1>6. \A c \in Delegations : KeptBaseline(c)
  BY DEF KeptBaseline
<1> QED
  BY <1>1, <1>2, <1>3, <1>4, <1>5, <1>6 DEF ChildInv

\* No step breaks it.
LEMMA ChildInvStep == ChildInv /\ [ChildFilesNext]_childFileVars => ChildInv'
<1> SUFFICES ASSUME ChildInv, [ChildFilesNext]_childFileVars PROVE ChildInv'
  OBVIOUS
<1>1. CASE UserEditsRoot
  BY <1>1, UserEditsRootKeepsChildren
<1>2. ASSUME NEW c \in Delegations, TaskStep(c) PROVE ChildInv'
  BY <1>2, ChildEditsKeepsChildren, ChildReturnsKeepsChildren, ChildReportsKeepsChildren,
     TakeBaselineKeepsChildren, MaterializeTreeKeepsChildren, CreateSessionKeepsChildren,
     AcknowledgeTaskKeepsChildren, CreateAgainKeepsChildren DEF TaskStep
<1>3. ASSUME NEW l \in TaskLines, NEW c \in Delegations, LineStep(l, c) PROVE ChildInv'
  BY <1>3, DelegateKeepsChildren, ReclaimTaskKeepsChildren, MergeResultKeepsChildren,
     CancelForArchiveKeepsChildren, ReportForArchiveKeepsChildren,
     DiscardTreeKeepsChildren, DiscardExchangeKeepsChildren DEF LineStep
<1>4. ASSUME NEW l \in TaskLines, ArchiveStep(l) PROVE ChildInv'
  BY <1>4, BeginArchiveKeepsChildren, BeginDiscardKeepsChildren, EndArchiveKeepsChildren
  DEF ArchiveStep
<1>5. CASE CutLine
  BY <1>5, CutLineKeepsChildren
<1>6. CASE FilesHostDies
  BY <1>6, FilesHostDiesKeepsChildren
<1>7. CASE UNCHANGED childFileVars
  <2>1. UNCHANGED <<root, delegator, delegating, startedFrom, tree, result, returned, origin,
                    retaken, intents, sweep, swept, born>>
    BY <1>7 DEF childFileVars, exchange, lineage, endings, historyVars
  <2>2. ChildTyped'
    BY <2>1 DEF ChildInv, ChildTyped
  <2>3. Inherited' /\ LinesBegun'
    BY <2>1 DEF ChildInv, Inherited, LinesBegun
  <2>4. (\A l \in TaskLines : Removes(l)') /\ SweptAway'
    BY <2>1 DEF ChildInv, Removes, SweptAway, Clean
  <2>5. \A c \in Delegations : KeptBaseline(c)'
    BY <2>1 DEF ChildInv, KeptBaseline
  <2> QED
    BY <2>2, <2>3, <2>4, <2>5 DEF ChildInv
<1> QED
  BY <1>1, <1>2, <1>3, <1>4, <1>5, <1>6, <1>7 DEF ChildFilesNext

\* The inductive invariant of the children's files.
LEMMA ChildInvHolds == ChildFilesSpec => []ChildInv
  BY ChildInvInit, ChildInvStep, PTL DEF ChildFilesSpec

\* What an archive has cleaned up stays away (children.py discard, supervisor archive): while it
\* removes a child's files no command of its line is creating the child, and afterwards either
\* the creation is done or the line that could create it again is archived.
THEOREM ArchivedStaysClean == ChildFilesSpec => []ArchivedIsClean
<1>1. ChildInv => ArchivedIsClean
  BY DEF ChildInv, SweptAway, ArchivedIsClean, Clean
<1> QED
  BY <1>1, ChildInvHolds, PTL

\* A merge replaces only what is still as the child saw it (git.py merge-tree from the frozen
\* baseline): the baseline a result is frozen with is the one the child's tree was made from,
\* for every child that was given one baseline.
THEOREM MergesKeepOthers == ChildFilesSpec => MergesOntoWhatItSaw
<1>1. ASSUME ChildInv, NEW l \in TaskLines, NEW c \in Delegations, MergeResult(l, c),
             NEW p \in Paths, root'[p] # root[p], c \notin retaken
      PROVE  root[p] = origin[c][p]
  <2>1. Finished(c) /\ returned[c] # None
    BY <1>1 DEF MergeResult, FilesReady
  <2>2. /\ c \in born
        /\ result[c] # None => result'[c] = result[c]
        /\ result[c] = None => startedFrom[c] # None /\ result'[c].base = startedFrom[c].base
    BY <1>1, <2>1, FinishedOnce
  <2>3. result'[c].base = origin[c]
    BY <1>1, <2>2 DEF ChildInv, KeptBaseline
  <2>4. /\ Conflicts(result'[c].base, root, result'[c].version) = {}
        /\ root' = MergeTree(result'[c].base, root, result'[c].version)
    BY <1>1 DEF MergeResult
  <2>5. \A base, ours, theirs :
          /\ Conflicts(base, ours, theirs) = {}
          /\ MergeTree(base, ours, theirs)[p] # ours[p]
          => ours[p] = base[p]
    BY DEF Conflicts, MergeTree
  <2> QED
    BY <1>1, <2>3, <2>4, <2>5
<1>2. ChildInv /\ [ChildFilesNext]_childFileVars =>
        [\A l \in TaskLines, c \in Delegations :
           MergeResult(l, c) =>
             \A p \in Paths : root'[p] # root[p] =>
               root[p] = origin[c][p] \/ c \in retaken]_childFileVars
  BY <1>1
<1> QED
  BY <1>2, ChildInvHolds, PTL DEF ChildFilesSpec, MergesOntoWhatItSaw

-------------------------------------------------------------------------------
\* Branches.

\* The flattening of a sequence of sequences, as a fold
FlatBase(p) == <<>>
FlatStep(p, view, n) == view \o p[n]
Flat == INSTANCE LogFolds WITH Base <- FlatBase, Step <- FlatStep

\* What a Journal holds
Entries ==
  [kind : {"message"}, id : Deliveries, owner : Lines]
  \cup [kind : {"answer", "call", "outcome", "stop", "version"}]

SpanRecords == [of : Lines, first : Nat, last : Nat]

\* Spans follow on each other.
Contiguous(list) ==
  /\ list \in Seq(SpanRecords)
  /\ \A i \in 1..Len(list) :
       /\ list[i].first = (IF i = 1 THEN 0 ELSE list[i - 1].last) + 1
       /\ list[i].first <= list[i].last

\* The history of s in Journals with the rows o and the spans sp
HistoryOf(o, sp, s) ==
  FlattenSeq([i \in DOMAIN sp[s] |->
    SubSeq(o[sp[s][i].of], sp[s][i].first - SpansEnd(sp[sp[s][i].of]),
                           sp[s][i].last - SpansEnd(sp[sp[s][i].of]))]) \o o[s]

\* Every span is of rows that its Journal holds itself.
JournalsWhole(o, sp) ==
  /\ o \in [Lines -> Seq(Entries)]
  /\ sp \in [Lines -> Seq(SpanRecords)]
  /\ \A s \in Lines :
       /\ Contiguous(sp[s])
       /\ \A i \in 1..Len(sp[s]) :
            /\ SpansEnd(sp[sp[s][i].of]) < sp[s][i].first
            /\ sp[s][i].last <= SpansEnd(sp[sp[s][i].of]) + Len(o[sp[s][i].of])

-------------------------------------------------------------------------------
\* Two sequences after each other
LEMMA Joined ==
  ASSUME NEW E, NEW a \in Seq(E), NEW b \in Seq(E)
  PROVE  /\ a \o b \in Seq(E) /\ Len(a \o b) = Len(a) + Len(b)
         /\ Len(a) \in Nat /\ Len(b) \in Nat
         /\ \A k \in 1..Len(a) : (a \o b)[k] = a[k]
         /\ \A k \in 1..Len(b) : (a \o b)[Len(a) + k] = b[k]
OBVIOUS

\* The recursive function that flattens exists.
LEMMA FlattenDefined ==
  ASSUME NEW E, NEW p \in Seq(Seq(E)), p # <<>>
  PROVE  \E f : /\ f = [i \in 1..Len(p) |-> IF i = 1 THEN p[i] ELSE f[i - 1] \o p[i]]
                /\ FlattenSeq(p) = f[Len(p)]
<1> DEFINE IsFlat(g) == g = [i \in 1..Len(p) |-> IF i = 1 THEN p[i] ELSE g[i - 1] \o p[i]]
           f == CHOOSE g : IsFlat(g)
           views == Flat!Chain(p, Len(p))
           g == [i \in 1..Len(p) |-> views[i]]
<1>1. Len(p) \in Nat \ {0} /\ \A i \in 1..Len(p) : p[i] \in Seq(E)
  OBVIOUS
<1>2. views[0] = <<>> /\ \A n \in 1..Len(p) : views[n] = views[n - 1] \o p[n]
  BY <1>1, Flat!ChainStep DEF FlatBase, FlatStep
<1> HIDE DEF views
<1>3. \A i \in 1..Len(p) : g[i] = IF i = 1 THEN p[i] ELSE g[i - 1] \o p[i]
  <2> SUFFICES ASSUME NEW i \in 1..Len(p)
               PROVE  g[i] = IF i = 1 THEN p[i] ELSE g[i - 1] \o p[i]
    OBVIOUS
  <2>1. CASE i = 1
    <3>1. 1 \in 1..Len(p) /\ 1 - 1 = 0
      BY <1>1
    <3>4. views[1] = <<>> \o p[1]
      BY <1>2, <3>1
    <3>2. <<>> \o p[1] = p[1]
      BY <1>1
    <3>3. QED
      BY <2>1, <3>2, <3>4
  <2>2. CASE i # 1
    <3>1. i - 1 \in 1..Len(p)
      BY <1>1, <2>2
    <3>2. QED
      BY <1>2, <2>2, <3>1
  <2>3. QED
    BY <2>1, <2>2
<1>4. IsFlat(g)
  BY <1>3
<1>5. IsFlat(f)
  <2> HIDE DEF IsFlat, g
  <2>1. QED
    BY <1>4
<1>6. FlattenSeq(p) = f[Len(p)]
  BY <1>1 DEF FlattenSeq
<1>7. QED
  BY <1>5, <1>6

\* What it reads at each place
LEMMA Flattened ==
  ASSUME NEW E, NEW p \in Seq(Seq(E)), NEW ends \in [0..Len(p) -> Nat], ends[0] = 0,
         \A i \in 1..Len(p) : ends[i] = ends[i - 1] + Len(p[i])
  PROVE  /\ FlattenSeq(p) \in Seq(E) /\ Len(FlattenSeq(p)) = ends[Len(p)]
         /\ \A i \in 1..Len(p) : \A k \in 1..Len(p[i]) :
              FlattenSeq(p)[ends[i - 1] + k] = p[i][k]
<1>1. CASE p = <<>>
  <2>1. FlattenSeq(p) = p
    BY <1>1 DEF FlattenSeq
  <2>2. Len(p) = 0 /\ 1..0 = {} /\ <<>> \in Seq(E)
    BY <1>1
  <2>3. QED
    BY <1>1, <2>1, <2>2
<1>2. CASE p # <<>>
  <2>1. PICK f : /\ f = [i \in 1..Len(p) |-> IF i = 1 THEN p[i] ELSE f[i - 1] \o p[i]]
                 /\ FlattenSeq(p) = f[Len(p)]
    BY <1>2, FlattenDefined
  <2>2. Len(p) \in Nat \ {0} /\ \A i \in 1..Len(p) : p[i] \in Seq(E) /\ Len(p[i]) \in Nat
    BY <1>2
  <2> DEFINE Reads(n) ==
        /\ f[n] \in Seq(E) /\ Len(f[n]) = ends[n]
        /\ \A i \in 1..n : /\ ends[i] <= ends[n]
                           /\ \A k \in 1..Len(p[i]) : f[n][ends[i - 1] + k] = p[i][k]
      S == {n \in 0..Len(p) : n # 0 => Reads(n)}
  <2>3. 0 \in S
    BY <2>2
  <2>4. ASSUME NEW n \in 0..Len(p) - 1, n \in S
        PROVE  n + 1 \in S
    <3>1. /\ n + 1 \in 1..Len(p) /\ p[n + 1] \in Seq(E) /\ Len(p[n + 1]) \in Nat
          /\ ends[n + 1] = ends[n] + Len(p[n + 1]) /\ ends[n] \in Nat
      <4>1. n + 1 \in 1..Len(p) /\ (n + 1) - 1 = n /\ n \in 0..Len(p)
        BY <2>2
      <4>2. ends[n + 1] = ends[n] + Len(p[n + 1])
        BY <4>1
      <4>3. QED
        BY <2>2, <4>1, <4>2
    <3>2. CASE n = 0
      <4>1. f[1] = p[1]
        BY <2>1, <3>1, <3>2
      <4>2. \A i \in 1..1 : i = 1
        OBVIOUS
      <4>3. ends[1] = Len(p[1])
        BY <3>1, <3>2
      <4>4. \A k \in 1..Len(p[1]) : ends[1 - 1] + k = k
        BY <3>1, <3>2
      <4>5. Reads(1)
        BY <3>1, <3>2, <4>1, <4>2, <4>3, <4>4
      <4>6. QED
        BY <3>1, <3>2, <4>5
    <3>3. CASE n # 0
      <4>1. Reads(n)
        BY <2>4, <3>3
      <4>0. n + 1 \in 1..Len(p) /\ n + 1 # 1 /\ (n + 1) - 1 = n
        BY <3>1, <3>3
      <4>2. f[n + 1] = f[n] \o p[n + 1]
        BY <2>1, <4>0
      <4> DEFINE g == f[n + 1]
      <4>3. /\ g \in Seq(E) /\ Len(g) = ends[n + 1]
            /\ \A k \in 1..ends[n] : g[k] = f[n][k]
            /\ \A k \in 1..Len(p[n + 1]) : g[ends[n] + k] = p[n + 1][k]
        <5>1. f[n] \in Seq(E) /\ Len(f[n]) = ends[n] /\ Len(f[n]) \in Nat
          BY <3>1, <4>1
        <5>2. g = f[n] \o p[n + 1]
          BY <4>2
        <5> HIDE DEF g
        <5>3. /\ g \in Seq(E) /\ Len(g) = Len(f[n]) + Len(p[n + 1])
              /\ \A k \in 1..Len(f[n]) : g[k] = f[n][k]
              /\ \A k \in 1..Len(p[n + 1]) : g[Len(f[n]) + k] = p[n + 1][k]
          <6> DEFINE a == f[n]
                     b == p[n + 1]
          <6>1. a \in Seq(E) /\ b \in Seq(E) /\ g = a \o b
            BY <3>1, <5>1, <5>2
          <6> HIDE DEF a, b
          <6>2. /\ g \in Seq(E) /\ Len(g) = Len(a) + Len(b)
                /\ \A k \in 1..Len(a) : g[k] = a[k]
                /\ \A k \in 1..Len(b) : g[Len(a) + k] = b[k]
            BY <6>1, Joined
          <6>3. QED
            BY <6>2 DEF a, b
        <5>4. QED
          BY <3>1, <5>1, <5>3
      <4> HIDE DEF g
      <4>4. ASSUME NEW i \in 1..n + 1
            PROVE  /\ ends[i] <= ends[n + 1]
                   /\ \A k \in 1..Len(p[i]) : g[ends[i - 1] + k] = p[i][k]
        <5>1. CASE i = n + 1
          BY <3>1, <4>3, <5>1
        <5>2. CASE i # n + 1
          <6>1. i \in 1..n /\ i \in 1..Len(p) /\ i \in 0..Len(p) /\ i - 1 \in 0..Len(p)
            BY <2>2, <5>2
          <6>5. ends[i] \in Nat /\ ends[i - 1] \in Nat
            BY <6>1
          <6>8. Len(p[i]) \in Nat
            BY <2>2, <6>1
          <6>9. ends[i] = ends[i - 1] + Len(p[i])
            BY <6>1
          <6>6. Len(p[i]) \in Nat /\ ends[i] = ends[i - 1] + Len(p[i])
            BY <6>8, <6>9
          <6>7. ends[i] <= ends[n]
            BY <4>1, <6>1
          <6>2. /\ ends[i] \in Nat /\ ends[i - 1] \in Nat /\ ends[i] = ends[i - 1] + Len(p[i])
                /\ ends[i] <= ends[n] /\ Len(p[i]) \in Nat
            BY <6>5, <6>6, <6>7
          <6>3. ASSUME NEW k \in 1..Len(p[i])
                PROVE  g[ends[i - 1] + k] = p[i][k]
            <7> DEFINE x == ends[i - 1]
                       y == ends[i]
                       z == ends[n]
            <7>0. x \in Nat /\ y \in Nat /\ z \in Nat /\ y = x + Len(p[i]) /\ y <= z /\ Len(p[i]) \in Nat
              BY <3>1, <6>2
            <7> HIDE DEF x, y, z
            <7>2. x + k \in 1..z
              BY <7>0
            <7>1. ends[i - 1] + k \in 1..ends[n]
              BY <7>2 DEF x, z
            <7>3. QED
              BY <4>1, <4>3, <6>1, <7>1
          <6>4. QED
            BY <3>1, <6>2, <6>3
        <5>3. QED
          BY <5>1, <5>2
      <4>5. Reads(n + 1)
        BY <4>3, <4>4 DEF g
      <4>6. QED
        BY <3>1, <4>5
    <3>4. QED
      BY <3>2, <3>3
  <2> HIDE DEF S
  <2>5. Len(p) \in 0..Len(p) /\ 0..Len(p) \subseteq S
    <3>1. Len(p) \in Nat
      BY <2>2
    <3>2. 0..Len(p) \subseteq S
      BY <2>3, <2>4, <3>1, Flat!UpTo
    <3>3. QED
      BY <3>1, <3>2
  <2>6. Reads(Len(p))
    BY <2>2, <2>5 DEF S
  <2>7. QED
    BY <2>1, <2>6
<1>3. QED
  BY <1>1, <1>2

\* Spans that follow on each other cover every place up to their end, once.
LEMMA SpansCover ==
  ASSUME NEW list, Contiguous(list)
  PROVE  /\ SpansEnd(list) \in Nat /\ Len(list) \in Nat
         /\ SpansEnd(list) = IF list = <<>> THEN 0 ELSE list[Len(list)].last
         /\ \A i \in 1..Len(list) :
              /\ list[i] \in SpanRecords /\ 1 <= list[i].first
              /\ list[i].last <= SpansEnd(list)
              /\ \A j \in 1..Len(list) : i < j => list[i].last < list[j].first
         /\ \A n \in 1..SpansEnd(list) : \E i \in 1..Len(list) : n \in list[i].first..list[i].last
<1>1. /\ Len(list) \in Nat
      /\ \A i \in 1..Len(list) :
           /\ list[i] \in SpanRecords /\ list[i].first \in Nat /\ list[i].last \in Nat
           /\ list[i].first = (IF i = 1 THEN 0 ELSE list[i - 1].last) + 1
           /\ list[i].first <= list[i].last
  <2>1. list \in Seq(SpanRecords)
    BY DEF Contiguous
  <2>2. \A i \in 1..Len(list) : list[i] \in SpanRecords
    BY <2>1
  <2>3. QED
    BY <2>1, <2>2 DEF Contiguous, SpanRecords
<1> DEFINE End(j) == IF j = 0 THEN 0 ELSE list[j].last
           Covers(j) ==
             /\ \A i \in 1..j : list[i].last <= End(j)
             /\ \A i, k \in 1..j : i < k => list[i].last < list[k].first
             /\ \A n \in 1..End(j) : \E i \in 1..j : n \in list[i].first..list[i].last
           S == {j \in 0..Len(list) : Covers(j)}
<1>2. 0 \in S
  <2>1. 1..0 = {} /\ End(0) = 0
    OBVIOUS
  <2>2. QED
    BY <1>1, <2>1
<1>3. ASSUME NEW j \in 0..Len(list) - 1, j \in S
      PROVE  j + 1 \in S
  <2>1. /\ j + 1 \in 1..Len(list) /\ End(j) \in Nat /\ End(j + 1) = list[j + 1].last
        /\ list[j + 1].first = End(j) + 1 /\ list[j + 1].first <= list[j + 1].last
        /\ list[j + 1].last \in Nat
    <3>1. j + 1 \in 1..Len(list) /\ j + 1 # 0 /\ (j # 0 => j \in 1..Len(list)) /\ (j + 1) - 1 = j
          /\ (j + 1 = 1 <=> j = 0)
      BY <1>1
    <3>2. QED
      BY <1>1, <3>1
  <2>2. \A i \in 1..j + 1 : i \in 1..j \/ i = j + 1
    OBVIOUS
  <2>3. \A i \in 1..j : i \in 1..Len(list) /\ list[i].last \in Nat /\ i \in 1..j + 1
    BY <1>1
  <2>4. Covers(j)
    BY <1>3
  <2> DEFINE x == End(j)
             y == End(j + 1)
             f == list[j + 1].first
  <2>5. x \in Nat /\ y \in Nat /\ f = x + 1 /\ f <= y /\ list[j + 1].last = y
    BY <2>1
  <2> HIDE DEF x, y, f, End
  <2>6. \A i \in 1..j + 1 : list[i].last <= y
    BY <2>2, <2>3, <2>4, <2>5 DEF x
  <2>7. \A i, k \in 1..j + 1 : i < k => list[i].last < list[k].first
    <3> SUFFICES ASSUME NEW i \in 1..j + 1, NEW k \in 1..j + 1, i < k
                 PROVE  list[i].last < list[k].first
      OBVIOUS
    <3>1. i \in 1..j
      OBVIOUS
    <3>2. CASE k \in 1..j
      BY <2>4, <3>1, <3>2
    <3>3. CASE k = j + 1
      <4>1. list[i].last \in Nat /\ list[i].last <= x
        BY <2>3, <2>4, <3>1 DEF x
      <4>2. list[k].first = x + 1
        BY <2>5, <3>3 DEF f
      <4>3. QED
        BY <2>5, <4>1, <4>2
    <3>4. QED
      BY <2>2, <3>2, <3>3
  <2>8. \A n \in 1..y : \E i \in 1..j + 1 : n \in list[i].first..list[i].last
    <3> SUFFICES ASSUME NEW n \in 1..y
                 PROVE  \E i \in 1..j + 1 : n \in list[i].first..list[i].last
      OBVIOUS
    <3>1. CASE n \in 1..x
      <4>1. PICK i \in 1..j : n \in list[i].first..list[i].last
        BY <2>4, <3>1 DEF x
      <4>2. QED
        BY <2>3, <4>1
    <3>2. CASE n \notin 1..x
      <4>1. n \in f..y /\ j + 1 \in 1..j + 1
        BY <2>5, <3>2
      <4>2. n \in list[j + 1].first..list[j + 1].last
        BY <2>5, <4>1 DEF f
      <4>3. QED
        BY <4>1, <4>2
    <3>3. QED
      BY <3>1, <3>2
  <2>9. Covers(j + 1)
    BY <2>6, <2>7, <2>8 DEF y
  <2>10. QED
    BY <2>1, <2>9
<1> HIDE DEF S
<1>4. Len(list) \in 0..Len(list) /\ 0..Len(list) \subseteq S
  <2>1. Len(list) \in Nat
    BY <1>1
  <2>2. 0..Len(list) \subseteq S
    BY <1>2, <1>3, <2>1, Flat!UpTo
  <2>3. QED
    BY <2>1, <2>2
<1>5. Covers(Len(list))
  BY <1>1, <1>4 DEF S
<1>6. SpansEnd(list) = End(Len(list)) /\ (list = <<>> <=> Len(list) = 0)
  <2>1. list \in Seq(SpanRecords)
    BY DEF Contiguous
  <2>2. list = <<>> <=> Len(list) = 0
    BY <2>1
  <2>3. QED
    BY <2>2 DEF SpansEnd, Last
<1>7. SpansEnd(list) \in Nat
  BY <1>1, <1>6
<1>8. \A i \in 1..Len(list) : 1 <= list[i].first
  <2> SUFFICES ASSUME NEW i \in 1..Len(list)
               PROVE  1 <= list[i].first
    OBVIOUS
  <2>1. CASE i = 1
    BY <1>1, <2>1
  <2>2. CASE i # 1
    <3>1. i - 1 \in 1..Len(list)
      BY <1>1, <2>2
    <3>2. QED
      BY <1>1, <2>2, <3>1
  <2>3. QED
    BY <2>1, <2>2
<1> HIDE DEF Covers
<1>9. /\ \A i \in 1..Len(list) : list[i].last <= SpansEnd(list)
      /\ \A i, k \in 1..Len(list) : i < k => list[i].last < list[k].first
      /\ \A n \in 1..SpansEnd(list) : \E i \in 1..Len(list) : n \in list[i].first..list[i].last
  BY <1>5, <1>6 DEF Covers
<1>10. QED
  BY <1>1, <1>6, <1>7, <1>8, <1>9

\* What a history reads at each place
LEMMA HistoryCells ==
  ASSUME NEW o, NEW sp, JournalsWhole(o, sp), NEW s \in Lines
  PROVE  /\ HistoryOf(o, sp, s) \in Seq(Entries)
         /\ Len(HistoryOf(o, sp, s)) = SpansEnd(sp[s]) + Len(o[s])
         /\ \A i \in 1..Len(sp[s]) : \A n \in sp[s][i].first..sp[s][i].last :
              HistoryOf(o, sp, s)[n] = o[sp[s][i].of][n - SpansEnd(sp[sp[s][i].of])]
         /\ \A n \in 1..Len(o[s]) : HistoryOf(o, sp, s)[SpansEnd(sp[s]) + n] = o[s][n]
<1> DEFINE list == sp[s]
           Start(i) == list[i].first - SpansEnd(sp[list[i].of])
           End(i) == list[i].last - SpansEnd(sp[list[i].of])
           p == [i \in DOMAIN list |-> SubSeq(o[list[i].of], Start(i), End(i))]
           ends == [i \in 0..Len(list) |-> IF i = 0 THEN 0 ELSE list[i].last]
<1>1. /\ Contiguous(list) /\ list \in Seq(SpanRecords) /\ Len(list) \in Nat
      /\ DOMAIN list = 1..Len(list) /\ o[s] \in Seq(Entries)
  BY DEF JournalsWhole
<1>2. ASSUME NEW i \in 1..Len(list)
      PROVE  /\ list[i].of \in Lines /\ list[i].first \in Nat /\ list[i].last \in Nat
             /\ SpansEnd(sp[list[i].of]) \in Nat /\ o[list[i].of] \in Seq(Entries)
             /\ Start(i) \in 1..Len(o[list[i].of]) /\ End(i) \in 1..Len(o[list[i].of])
             /\ Start(i) <= End(i) /\ list[i].last - list[i].first + 1 = End(i) - Start(i) + 1
  <2>1. list[i] \in SpanRecords
    BY <1>1
  <2>2. list[i].of \in Lines /\ list[i].first \in Nat /\ list[i].last \in Nat
    BY <2>1 DEF SpanRecords
  <2>3. SpansEnd(sp[list[i].of]) \in Nat /\ o[list[i].of] \in Seq(Entries)
    BY <2>2, SpansCover DEF JournalsWhole
  <2>4. /\ SpansEnd(sp[list[i].of]) < list[i].first
        /\ list[i].last <= SpansEnd(sp[list[i].of]) + Len(o[list[i].of])
        /\ list[i].first <= list[i].last
    BY <1>1 DEF JournalsWhole, Contiguous
  <2>5. Len(o[list[i].of]) \in Nat
    BY <2>3
  <2> DEFINE a == list[i].first
             z == list[i].last
             c == SpansEnd(sp[list[i].of])
             l == Len(o[list[i].of])
  <2>6. /\ a \in Nat /\ z \in Nat /\ c \in Nat /\ l \in Nat
        /\ c < a /\ z <= c + l /\ a <= z
    BY <2>2, <2>3, <2>4, <2>5
  <2> HIDE DEF a, z, c, l
  <2>7. /\ a - c \in 1..l /\ z - c \in 1..l /\ a - c <= z - c
        /\ z - a + 1 = (z - c) - (a - c) + 1
    BY <2>6
  <2>8. QED
    BY <2>2, <2>3, <2>7 DEF a, z, c, l
<1>3. /\ p \in Seq(Seq(Entries)) /\ Len(p) = Len(list)
      /\ \A i \in 1..Len(list) :
           /\ p[i] = SubSeq(o[list[i].of], Start(i), End(i))
           /\ Len(p[i]) = list[i].last - list[i].first + 1
           /\ \A k \in 1..Len(p[i]) : p[i][k] = o[list[i].of][Start(i) + k - 1]
  <2>1. ASSUME NEW i \in 1..Len(list)
        PROVE  /\ SubSeq(o[list[i].of], Start(i), End(i)) \in Seq(Entries)
               /\ Len(SubSeq(o[list[i].of], Start(i), End(i))) = list[i].last - list[i].first + 1
               /\ \A k \in 1..(list[i].last - list[i].first + 1) :
                    SubSeq(o[list[i].of], Start(i), End(i))[k] = o[list[i].of][Start(i) + k - 1]
    <3> DEFINE r == o[list[i].of]
               x == Start(i)
               y == End(i)
               d == list[i].last - list[i].first + 1
    <3>1. /\ r \in Seq(Entries) /\ x \in 1..Len(r) /\ y \in 1..Len(r) /\ x <= y
          /\ d = y - x + 1
      BY <1>2
    <3> HIDE DEF r, x, y, d
    <3>2. /\ SubSeq(r, x, y) \in Seq(Entries) /\ Len(SubSeq(r, x, y)) = d
          /\ \A k \in 1..d : SubSeq(r, x, y)[k] = r[x + k - 1]
      BY <3>1
    <3>3. QED
      BY <3>2 DEF r, x, y, d
  <2> HIDE DEF Start, End
  <2>2. p \in Seq(Seq(Entries)) /\ Len(p) = Len(list)
    BY <1>1, <2>1
  <2>3. QED
    BY <1>1, <2>1, <2>2
<1>4. /\ ends \in [0..Len(p) -> Nat] /\ ends[0] = 0
      /\ \A i \in 1..Len(p) : ends[i] = ends[i - 1] + Len(p[i]) /\ ends[i - 1] = list[i].first - 1
  <2>1. \A i \in 1..Len(list) : i # 0 /\ i \in 0..Len(list) /\ i - 1 \in 0..Len(list)
          /\ (i - 1 = 0 <=> i = 1)
    BY <1>1
  <2>2. \A i \in 1..Len(list) : list[i].first = (IF i = 1 THEN 0 ELSE list[i - 1].last) + 1
    BY <1>1 DEF Contiguous
  <2>3. \A i \in 1..Len(list) : ends[i] = list[i].last /\ ends[i - 1] = list[i].first - 1
    <3> SUFFICES ASSUME NEW i \in 1..Len(list)
                 PROVE  ends[i] = list[i].last /\ ends[i - 1] = list[i].first - 1
      OBVIOUS
    <3>1. CASE i = 1
      <4>1. list[i].first = 1
        BY <2>2, <3>1
      <4>2. ends[i] = list[i].last /\ i - 1 = 0 /\ ends[0] = 0
        BY <1>1, <2>1, <3>1
      <4> HIDE DEF ends
      <4>3. QED
        BY <4>1, <4>2
    <3>2. CASE i # 1
      <4>1. i - 1 \in 1..Len(list)
        BY <1>1, <3>2
      <4> DEFINE w == list[i - 1].last
      <4>2. w \in Nat /\ list[i].first = w + 1
        BY <1>2, <2>2, <3>2, <4>1
      <4>3. ends[i] = list[i].last /\ ends[i - 1] = w
        BY <2>1, <3>2
      <4> HIDE DEF w, ends
      <4>4. QED
        BY <4>2, <4>3
    <3>3. QED
      BY <3>1, <3>2
  <2>4. ends \in [0..Len(p) -> Nat]
    <3>1. \A i \in 0..Len(list) : i # 0 => i \in 1..Len(list)
      BY <1>1
    <3>2. QED
      BY <1>2, <1>3, <3>1
  <2>5. ends[0] = 0
    BY <1>1
  <2> HIDE DEF ends
  <2>6. ASSUME NEW i \in 1..Len(list)
        PROVE  ends[i] = ends[i - 1] + Len(p[i])
    <3> DEFINE a == list[i].first
               z == list[i].last
    <3>1. /\ a \in Nat /\ z \in Nat /\ ends[i] = z /\ ends[i - 1] = a - 1
          /\ Len(p[i]) = z - a + 1
      BY <1>2, <1>3, <2>3
    <3> HIDE DEF a, z, p
    <3>2. QED
      BY <3>1
  <2>7. QED
    BY <1>3, <2>3, <2>4, <2>5, <2>6
<1> DEFINE prefix == FlattenSeq(p)
<1>5. /\ prefix \in Seq(Entries) /\ Len(prefix) = ends[Len(p)]
      /\ \A i \in 1..Len(p) : \A k \in 1..Len(p[i]) : prefix[ends[i - 1] + k] = p[i][k]
  <2>1. p \in Seq(Seq(Entries))
    BY <1>3
  <2>2. ends \in [0..Len(p) -> Nat] /\ ends[0] = 0 /\ \A i \in 1..Len(p) : ends[i] = ends[i - 1] + Len(p[i])
    BY <1>4
  <2> HIDE DEF p, ends, list, Start, End
  <2>3. /\ FlattenSeq(p) \in Seq(Entries) /\ Len(FlattenSeq(p)) = ends[Len(p)]
        /\ \A i \in 1..Len(p) : \A k \in 1..Len(p[i]) :
             FlattenSeq(p)[ends[i - 1] + k] = p[i][k]
    BY <2>1, <2>2, Flattened
  <2>4. QED
    BY <2>3
<1>6. HistoryOf(o, sp, s) = prefix \o o[s]
  BY DEF HistoryOf
<1>7. Len(prefix) = SpansEnd(list)
  <2>1. list = <<>> <=> Len(list) = 0
    BY <1>1
  <2>2. Len(list) \in 0..Len(list) /\ SpansEnd(list) = IF list = <<>> THEN 0 ELSE list[Len(list)].last
    BY <1>1, SpansCover
  <2>3. ends[Len(list)] = IF Len(list) = 0 THEN 0 ELSE list[Len(list)].last
    BY <2>2
  <2>4. QED
    BY <1>3, <1>5, <2>1, <2>2, <2>3
<1>8. ASSUME NEW i \in 1..Len(list), NEW n \in list[i].first..list[i].last
      PROVE  prefix[n] = o[list[i].of][n - SpansEnd(sp[list[i].of])] /\ n \in 1..Len(prefix)
  <2> DEFINE k == n - list[i].first + 1
  <2>1. k \in 1..Len(p[i]) /\ ends[i - 1] + k = n /\ Start(i) + k - 1 = n - SpansEnd(sp[list[i].of])
    <3> DEFINE a == list[i].first
               z == list[i].last
               c == SpansEnd(sp[list[i].of])
    <3>1. /\ a \in Nat /\ z \in Nat /\ c \in Nat /\ Len(p[i]) = z - a + 1 /\ ends[i - 1] = a - 1
          /\ n \in a..z /\ k = n - a + 1 /\ Start(i) = a - c
      BY <1>2, <1>3, <1>4
    <3> HIDE DEF a, z, c, p, ends, k, Start
    <3>2. k \in 1..Len(p[i]) /\ ends[i - 1] + k = n /\ Start(i) + k - 1 = n - c
      BY <3>1
    <3>3. QED
      BY <3>2 DEF c
  <2>2. n \in 1..Len(prefix)
    <3> DEFINE a == list[i].first
               z == list[i].last
               l == Len(prefix)
    <3>1. 1 <= a /\ z <= l /\ l \in Nat /\ a \in Nat /\ z \in Nat /\ n \in a..z
      BY <1>1, <1>2, <1>7, SpansCover
    <3> HIDE DEF a, z, l
    <3>2. n \in 1..l
      BY <3>1
    <3>3. QED
      BY <3>2 DEF l
  <2> HIDE DEF p, ends, Start, prefix, k
  <2>3. prefix[n] = p[i][k]
    BY <1>3, <1>5, <2>1
  <2>4. p[i][k] = o[list[i].of][Start(i) + k - 1]
    BY <1>3, <2>1
  <2>5. QED
    BY <2>1, <2>2, <2>3, <2>4
<1> HIDE DEF prefix, p, ends, list
<1>9. /\ HistoryOf(o, sp, s) \in Seq(Entries)
      /\ Len(HistoryOf(o, sp, s)) = Len(prefix) + Len(o[s])
      /\ \A k \in 1..Len(prefix) : HistoryOf(o, sp, s)[k] = prefix[k]
      /\ \A k \in 1..Len(o[s]) : HistoryOf(o, sp, s)[Len(prefix) + k] = o[s][k]
  <2> DEFINE r == o[s]
  <2>1. r \in Seq(Entries) /\ prefix \in Seq(Entries) /\ HistoryOf(o, sp, s) = prefix \o r
    BY <1>1, <1>5, <1>6
  <2> HIDE DEF r
  <2>2. /\ prefix \o r \in Seq(Entries) /\ Len(prefix \o r) = Len(prefix) + Len(r)
        /\ \A k \in 1..Len(prefix) : (prefix \o r)[k] = prefix[k]
        /\ \A k \in 1..Len(r) : (prefix \o r)[Len(prefix) + k] = r[k]
    BY <2>1, Joined
  <2>3. QED
    BY <2>1, <2>2 DEF r
<1>10. QED
  BY <1>7, <1>8, <1>9 DEF list

\* Each place of a history is in one of its spans, or its own; a span's is in the Journal it is of.
LEMMA Places ==
  ASSUME NEW o, NEW sp, JournalsWhole(o, sp), NEW s \in Lines
  PROVE  /\ SpansEnd(sp[s]) \in Nat /\ Len(o[s]) \in Nat /\ Len(sp[s]) \in Nat
         /\ \A n \in 1..Len(HistoryOf(o, sp, s)) :
              \/ \E i \in 1..Len(sp[s]) : n \in sp[s][i].first..sp[s][i].last
              \/ \E k \in 1..Len(o[s]) : n = SpansEnd(sp[s]) + k
         /\ \A i \in 1..Len(sp[s]) :
              /\ sp[s][i] \in SpanRecords /\ sp[s][i].of \in Lines
              /\ \A n \in sp[s][i].first..sp[s][i].last :
                   n - SpansEnd(sp[sp[s][i].of]) \in 1..Len(o[sp[s][i].of])
<1>1. Contiguous(sp[s]) /\ o[s] \in Seq(Entries) /\ sp[s] \in Seq(SpanRecords)
  BY DEF JournalsWhole
<1>2. SpansEnd(sp[s]) \in Nat /\ Len(o[s]) \in Nat /\ Len(sp[s]) \in Nat
  BY <1>1, SpansCover
<1>3. ASSUME NEW n \in 1..Len(HistoryOf(o, sp, s))
      PROVE  \/ \E i \in 1..Len(sp[s]) : n \in sp[s][i].first..sp[s][i].last
             \/ \E k \in 1..Len(o[s]) : n = SpansEnd(sp[s]) + k
  <2> DEFINE e == SpansEnd(sp[s])
             l == Len(o[s])
  <2>1. e \in Nat /\ l \in Nat /\ n \in 1..(e + l)
    BY <1>2, HistoryCells
  <2> HIDE DEF e, l
  <2>2. n \in 1..e \/ (n - e \in 1..l /\ n = e + (n - e))
    BY <2>1
  <2>3. CASE n \in 1..e
    BY <1>1, <2>3, SpansCover DEF e
  <2>4. CASE n - e \in 1..l /\ n = e + (n - e)
    BY <2>4 DEF e, l
  <2>5. QED
    BY <2>2, <2>3, <2>4
<1>4. ASSUME NEW i \in 1..Len(sp[s])
      PROVE  /\ sp[s][i] \in SpanRecords /\ sp[s][i].of \in Lines
             /\ \A n \in sp[s][i].first..sp[s][i].last :
                  n - SpansEnd(sp[sp[s][i].of]) \in 1..Len(o[sp[s][i].of])
  <2>1. sp[s][i] \in SpanRecords
    BY <1>1
  <2> DEFINE t == sp[s][i].of
             a == sp[s][i].first
             z == sp[s][i].last
  <2>2. t \in Lines /\ a \in Nat /\ z \in Nat
    BY <2>1 DEF SpanRecords
  <2> DEFINE e == SpansEnd(sp[t])
             l == Len(o[t])
  <2>3. e \in Nat /\ l \in Nat
    BY <2>2, SpansCover DEF JournalsWhole
  <2>4. e < a /\ z <= e + l
    BY DEF JournalsWhole
  <2> HIDE DEF t, a, z, e, l
  <2>5. \A n \in a..z : n - e \in 1..l
    BY <2>2, <2>3, <2>4
  <2>6. QED
    BY <2>1, <2>2, <2>5 DEF t, a, z, e, l
<1>5. QED
  BY <1>2, <1>3, <1>4

\* A history stays as it is where the Journals it reads do.
LEMMA HistoryStays ==
  ASSUME NEW o, NEW sp, JournalsWhole(o, sp), NEW p, NEW sq, JournalsWhole(p, sq),
         NEW t \in Lines, sq[t] = sp[t],
         \A u \in Lines : (u = t \/ \E i \in 1..Len(sp[t]) : sp[t][i].of = u) =>
           /\ SpansEnd(sq[u]) = SpansEnd(sp[u])
           /\ Len(o[u]) <= Len(p[u])
           /\ \A n \in 1..Len(o[u]) : p[u][n] = o[u][n]
  PROVE  /\ Len(HistoryOf(p, sq, t)) = SpansEnd(sp[t]) + Len(p[t])
         /\ \A n \in 1..Len(HistoryOf(o, sp, t)) : HistoryOf(p, sq, t)[n] = HistoryOf(o, sp, t)[n]
<1>1. Len(HistoryOf(p, sq, t)) = SpansEnd(sp[t]) + Len(p[t])
  BY HistoryCells
<1>2. ASSUME NEW n \in 1..Len(HistoryOf(o, sp, t))
      PROVE  HistoryOf(p, sq, t)[n] = HistoryOf(o, sp, t)[n]
  <2>1. ASSUME NEW i \in 1..Len(sp[t]), n \in sp[t][i].first..sp[t][i].last
        PROVE  HistoryOf(p, sq, t)[n] = HistoryOf(o, sp, t)[n]
    <3> DEFINE u == sp[t][i].of
               e == SpansEnd(sp[u])
    <3>1. u \in Lines /\ n - e \in 1..Len(o[u])
      BY <2>1, Places
    <3>2. SpansEnd(sq[u]) = e /\ p[u][n - e] = o[u][n - e]
      BY <3>1
    <3>3. HistoryOf(o, sp, t)[n] = o[u][n - e]
      BY <2>1, HistoryCells
    <3>4. HistoryOf(p, sq, t)[n] = p[u][n - SpansEnd(sq[u])]
      BY <2>1, HistoryCells
    <3>5. QED
      BY <3>2, <3>3, <3>4
  <2>2. ASSUME NEW k \in 1..Len(o[t]), n = SpansEnd(sp[t]) + k
        PROVE  HistoryOf(p, sq, t)[n] = HistoryOf(o, sp, t)[n]
    <3>1. HistoryOf(o, sp, t)[n] = o[t][k]
      BY <2>2, HistoryCells
    <3>2. k \in 1..Len(p[t]) /\ p[t][k] = o[t][k]
      <4> DEFINE l == Len(o[t])
                 m == Len(p[t])
      <4>1. l \in Nat /\ m \in Nat /\ l <= m
        BY Places
      <4> HIDE DEF l, m
      <4>2. k \in 1..m
        BY <2>2, <4>1 DEF l
      <4>3. QED
        BY <4>2 DEF m
    <3>3. HistoryOf(p, sq, t)[SpansEnd(sq[t]) + k] = p[t][k]
      BY <3>2, HistoryCells
    <3>4. QED
      BY <2>2, <3>1, <3>2, <3>3
  <2>3. QED
    BY <2>1, <2>2, Places
<1>3. QED
  BY <1>1, <1>2

\* Two sequences that are the same at each place are the same.
LEMMA SameSeq ==
  ASSUME NEW E, NEW a \in Seq(E), NEW b \in Seq(E), Len(a) = Len(b),
         \A n \in 1..Len(a) : a[n] = b[n]
  PROVE  a = b
OBVIOUS

\* Events are recorded in one Journal.
Adds(p, o, s, events) ==
  /\ p \in [Lines -> Seq(Entries)]
  /\ p[s] = o[s] \o events
  /\ \A t \in Lines \ {s} : p[t] = o[t]

\* Events that are recorded are added to the history of their Session, and to no other.
LEMMA RecordAdds ==
  ASSUME NEW o, NEW sp, JournalsWhole(o, sp), NEW s \in Lines, NEW events \in Seq(Entries),
         NEW p, Adds(p, o, s, events)
  PROVE  /\ JournalsWhole(p, sp)
         /\ HistoryOf(p, sp, s) = HistoryOf(o, sp, s) \o events
         /\ \A t \in Lines \ {s} : HistoryOf(p, sp, t) = HistoryOf(o, sp, t)
<1>1. o \in [Lines -> Seq(Entries)]
  BY DEF JournalsWhole
<1>2. p[s] = o[s] \o events /\ \A t \in Lines \ {s} : p[t] = o[t]
  BY DEF Adds
<1>3. /\ p[s] \in Seq(Entries) /\ Len(p[s]) = Len(o[s]) + Len(events)
      /\ Len(o[s]) \in Nat /\ Len(events) \in Nat
      /\ \A n \in 1..Len(o[s]) : p[s][n] = o[s][n]
      /\ \A k \in 1..Len(events) : p[s][Len(o[s]) + k] = events[k]
  <2> DEFINE r == o[s]
  <2>1. r \in Seq(Entries) /\ p[s] = r \o events
    BY <1>1, <1>2
  <2> HIDE DEF r
  <2>2. /\ r \o events \in Seq(Entries) /\ Len(r \o events) = Len(r) + Len(events)
        /\ Len(r) \in Nat /\ Len(events) \in Nat
        /\ \A k \in 1..Len(r) : (r \o events)[k] = r[k]
        /\ \A k \in 1..Len(events) : (r \o events)[Len(r) + k] = events[k]
    BY <2>1, Joined
  <2>3. QED
    BY <2>1, <2>2 DEF r
<1>4. \A t \in Lines : Len(o[t]) \in Nat /\ Len(p[t]) \in Nat /\ Len(o[t]) <= Len(p[t])
                       /\ \A n \in 1..Len(o[t]) : p[t][n] = o[t][n]
  <2> SUFFICES ASSUME NEW t \in Lines
               PROVE  Len(o[t]) \in Nat /\ Len(p[t]) \in Nat /\ Len(o[t]) <= Len(p[t])
                      /\ \A n \in 1..Len(o[t]) : p[t][n] = o[t][n]
    OBVIOUS
  <2>1. CASE t = s
    <3> DEFINE x == Len(o[s])
               y == Len(p[s])
    <3>1. x \in Nat /\ y = x + Len(events) /\ Len(events) \in Nat
      BY <1>3
    <3> HIDE DEF x, y
    <3>2. x \in Nat /\ y \in Nat /\ x <= y
      BY <3>1
    <3>3. QED
      BY <1>3, <2>1, <3>2 DEF x, y
  <2>2. CASE t # s
    <3>1. p[t] = o[t] /\ Len(o[t]) \in Nat
      BY <1>1, <1>2, <2>2
    <3>2. QED
      BY <3>1
  <2>3. QED
    BY <2>1, <2>2
<1>5. p \in [Lines -> Seq(Entries)]
  BY DEF Adds
<1>6. JournalsWhole(p, sp)
  <2>1. ASSUME NEW t \in Lines, NEW i \in 1..Len(sp[t])
        PROVE  sp[t][i].last <= SpansEnd(sp[sp[t][i].of]) + Len(p[sp[t][i].of])
    <3> DEFINE u == sp[t][i].of
               z == sp[t][i].last
               e == SpansEnd(sp[u])
               x == Len(o[u])
               y == Len(p[u])
    <3>1. u \in Lines /\ z \in Nat
      BY Places DEF SpanRecords
    <3>2. e \in Nat
      BY <3>1, Places
    <3>3. z <= e + x
      BY DEF JournalsWhole
    <3>4. x \in Nat /\ y \in Nat /\ x <= y
      BY <1>4, <3>1
    <3> HIDE DEF u, z, e, x, y
    <3>5. z <= e + y
      BY <3>1, <3>2, <3>3, <3>4
    <3>6. QED
      BY <3>5 DEF u, z, e, y
  <2>2. QED
    BY <1>5, <2>1 DEF JournalsWhole
<1>7. ASSUME NEW t \in Lines
      PROVE  /\ Len(HistoryOf(p, sp, t)) = SpansEnd(sp[t]) + Len(p[t])
             /\ \A n \in 1..Len(HistoryOf(o, sp, t)) :
                  HistoryOf(p, sp, t)[n] = HistoryOf(o, sp, t)[n]
  BY <1>4, <1>6, HistoryStays
<1>8. \A t \in Lines : /\ HistoryOf(o, sp, t) \in Seq(Entries) /\ HistoryOf(p, sp, t) \in Seq(Entries)
                       /\ Len(HistoryOf(o, sp, t)) = SpansEnd(sp[t]) + Len(o[t])
                       /\ SpansEnd(sp[t]) \in Nat
  BY <1>6, HistoryCells, Places
<1>9. ASSUME NEW t \in Lines \ {s}
      PROVE  HistoryOf(p, sp, t) = HistoryOf(o, sp, t)
  <2>1. Len(HistoryOf(p, sp, t)) = Len(HistoryOf(o, sp, t))
    BY <1>2, <1>7, <1>8
  <2>2. QED
    BY <1>7, <1>8, <2>1, SameSeq
<1>10. HistoryOf(p, sp, s) = HistoryOf(o, sp, s) \o events
  <2> DEFINE h == HistoryOf(o, sp, s)
             g == HistoryOf(p, sp, s)
             e == SpansEnd(sp[s])
             x == Len(o[s])
  <2>1. /\ h \in Seq(Entries) /\ g \in Seq(Entries) /\ e \in Nat /\ x \in Nat
        /\ Len(h) = e + x /\ Len(g) = e + (x + Len(events)) /\ Len(events) \in Nat
        /\ \A n \in 1..Len(h) : g[n] = h[n]
    BY <1>3, <1>7, <1>8
  <2>2. \A k \in 1..Len(events) : g[e + (x + k)] = events[k]
    <3> SUFFICES ASSUME NEW k \in 1..Len(events)
                 PROVE  g[e + (x + k)] = events[k]
      OBVIOUS
    <3>1. x + k \in 1..Len(p[s])
      <4>1. Len(p[s]) = x + Len(events)
        BY <1>3
      <4> HIDE DEF x
      <4>2. x + k \in 1..(x + Len(events))
        BY <2>1
      <4>3. QED
        BY <4>1, <4>2
    <3>2. g[e + (x + k)] = p[s][x + k]
      BY <1>6, <3>1, HistoryCells
    <3>3. QED
      BY <1>3, <3>2
  <2> HIDE DEF h, g, e, x
  <2>3. /\ h \o events \in Seq(Entries) /\ Len(h \o events) = Len(g)
        /\ \A n \in 1..Len(g) : (h \o events)[n] = g[n]
    <3>1. /\ h \o events \in Seq(Entries) /\ Len(h \o events) = Len(h) + Len(events)
          /\ \A k \in 1..Len(h) : (h \o events)[k] = h[k]
          /\ \A k \in 1..Len(events) : (h \o events)[Len(h) + k] = events[k]
      <4>1. h \in Seq(Entries) /\ events \in Seq(Entries)
        BY <2>1
      <4>2. QED
        BY <4>1, Joined
    <3>2. ASSUME NEW n \in 1..Len(g)
          PROVE  (h \o events)[n] = g[n]
      <4>1. CASE n \in 1..Len(h)
        BY <2>1, <3>1, <4>1
      <4>2. CASE n \notin 1..Len(h)
        <5> DEFINE a == Len(h)
                   b == Len(events)
                   c == Len(g)
        <5>3. /\ a \in Nat /\ b \in Nat /\ c = e + (x + b) /\ a = e + x /\ n \in 1..c
              /\ n \notin 1..a
          BY <2>1, <4>2
        <5> HIDE DEF a, b, c
        <5>4. n - a \in 1..b /\ n = a + (n - a) /\ n = e + (x + (n - a))
          BY <2>1, <5>3
        <5>1. n - Len(h) \in 1..Len(events) /\ n = Len(h) + (n - Len(h)) /\ n = e + (x + (n - Len(h)))
          BY <5>4 DEF a, b
        <5>2. QED
          BY <2>2, <3>1, <5>1
      <4>3. QED
        BY <4>1, <4>2
    <3>3. QED
      BY <2>1, <3>1, <3>2
  <2>4. h \o events = g
    BY <2>1, <2>3, SameSeq
  <2>5. QED
    BY <2>4 DEF h, g
<1>11. QED
  BY <1>6, <1>9, <1>10

\* An inhabited set of numbers up to a bound has a greatest member.
LEMMA GreatestOf ==
  ASSUME NEW length \in Nat, NEW T \in SUBSET (0..length), T # {}
  PROVE  Max(T) \in T /\ \A n \in T : n <= Max(T)
<1> DEFINE R == {n \in 0..length : length - n \in T}
<1>1. R \in SUBSET Nat /\ R # {}
  <2>1. PICK n \in T : TRUE
    OBVIOUS
  <2>2. n \in 0..length /\ length - n \in 0..length /\ length - (length - n) = n
    BY <2>1
  <2>4. length - n \in R
    BY <2>1, <2>2
  <2>5. 0..length \subseteq Nat
    OBVIOUS
  <2>3. QED
    BY <2>4, <2>5
<1>2. PICK m \in R : \A n \in R : m <= n
  <2> HIDE DEF R
  <2>1. QED
    BY <1>1, Flat!LeastNumber
<1>3. length - m \in T /\ \A n \in T : length - m >= n
  <2>1. m \in 0..length /\ length - m \in T
    BY <1>2
  <2>2. ASSUME NEW n \in T
        PROVE  length - m >= n
    <3>1. n \in 0..length /\ length - n \in 0..length /\ length - (length - n) = n
      OBVIOUS
    <3>2. length - n \in R
      BY <3>1
    <3>3. m <= length - n
      BY <1>2, <3>2
    <3>4. QED
      BY <2>1, <3>1, <3>3
  <2>3. QED
    BY <2>1, <2>2
<1>4. Max(T) \in T /\ \A n \in T : Max(T) >= n
  BY <1>3 DEF Max
<1>5. \A n \in T : n \in 0..length
  OBVIOUS
<1>6. QED
  BY <1>4, <1>5

\* Spans of what s reads up to a place: some of the spans of s, the last of them clipped, and
\* then of s itself
CutOf(list, sp, s, through) ==
  /\ Contiguous(list) /\ SpansEnd(list) = through
  /\ \A i \in 1..Len(list) :
       \/ /\ i \in 1..Len(sp[s]) /\ list[i].of = sp[s][i].of
          /\ list[i].first = sp[s][i].first /\ list[i].last <= sp[s][i].last
       \/ /\ list[i].of = s /\ list[i].first = SpansEnd(sp[s]) + 1
          /\ list[i].last = through

\* What history_through gives: the spans of the source up to the cut, the last one clipped, and
\* then what the source holds itself.
LEMMA ThroughFacts ==
  ASSUME NEW s \in Lines, NEW through \in Nat, Contiguous(spans[s])
  PROVE  CutOf(HistoryThrough(s, through), spans, s, through)
<1> DEFINE old == spans[s]
           before == {n \in 0..Len(old) : \A i \in 1..n : old[i].first <= through}
           k == Max(before)
           kept == Kept(s, through)
           clipped == [i \in DOMAIN kept |->
                         [kept[i] EXCEPT !.last = IF @ < through THEN @ ELSE through]]
           list == HistoryThrough(s, through)
<1>1. /\ old \in Seq(SpanRecords) /\ Len(old) \in Nat
      /\ \A i \in 1..Len(old) :
           /\ old[i] \in SpanRecords /\ old[i].first \in Nat /\ old[i].last \in Nat
           /\ old[i].first = (IF i = 1 THEN 0 ELSE old[i - 1].last) + 1
           /\ old[i].first <= old[i].last
  <2>1. old \in Seq(SpanRecords)
    BY DEF Contiguous
  <2>2. \A i \in 1..Len(old) : old[i] \in SpanRecords
    BY <2>1
  <2>3. QED
    BY <2>1, <2>2 DEF Contiguous, SpanRecords
<1>2. /\ k \in 0..Len(old) /\ \A i \in 1..k : old[i].first <= through
      /\ k # Len(old) => through < old[k + 1].first
  <2>1. 0 \in before /\ before \in SUBSET (0..Len(old))
    BY <1>1
  <2>2. k \in before /\ \A n \in before : n <= k
    <3> HIDE DEF before
    <3>1. QED
      BY <1>1, <2>1, GreatestOf
  <2>3. k \in 0..Len(old) /\ \A i \in 1..k : old[i].first <= through
    BY <2>2
  <2> HIDE DEF k
  <2>4. ASSUME k # Len(old), ~(through < old[k + 1].first)
        PROVE  FALSE
    <3>1. k + 1 \in 1..Len(old) /\ k + 1 \in 0..Len(old) /\ k \in Nat
      BY <1>1, <2>3, <2>4
    <3>2. old[k + 1].first <= through
      BY <1>1, <2>4, <3>1
    <3>3. \A i \in 1..k + 1 : i \in 1..k \/ i = k + 1
      BY <3>1
    <3>4. k + 1 \in before
      BY <2>3, <3>1, <3>2, <3>3
    <3>5. QED
      BY <2>2, <3>1, <3>4
  <2>5. QED
    BY <2>3, <2>4
<1> HIDE DEF k
<1>3. /\ kept \in Seq(SpanRecords) /\ Len(kept) = k /\ DOMAIN kept = 1..k
      /\ \A i \in 1..k : i \in 1..Len(old) /\ kept[i] = old[i]
  <2>1. kept = SubSeq(old, 1, k)
    BY DEF Kept, k
  <2>2. k \in 0..Len(old) /\ 1 \in 1..k + 1
    BY <1>2
  <2> HIDE DEF old
  <2>3. /\ SubSeq(old, 1, k) \in Seq(SpanRecords) /\ Len(SubSeq(old, 1, k)) = k
        /\ \A i \in 1..k : SubSeq(old, 1, k)[i] = old[i]
    BY <1>1, <2>2
  <2>4. QED
    BY <1>1, <1>2, <2>1, <2>3
<1> HIDE DEF kept
<1>4. /\ clipped \in Seq(SpanRecords) /\ Len(clipped) = k
      /\ \A i \in 1..k :
           /\ clipped[i].of = old[i].of /\ clipped[i].first = old[i].first
           /\ clipped[i].last = IF old[i].last < through THEN old[i].last ELSE through
           /\ clipped[i].first <= clipped[i].last /\ clipped[i].last <= old[i].last
           /\ clipped[i].last \in Nat
           /\ clipped[i].first = (IF i = 1 THEN 0 ELSE clipped[i - 1].last) + 1
  <2>1. ASSUME NEW i \in 1..k
        PROVE  /\ clipped[i] \in SpanRecords
               /\ clipped[i].of = old[i].of /\ clipped[i].first = old[i].first
               /\ clipped[i].last = IF old[i].last < through THEN old[i].last ELSE through
               /\ clipped[i].first <= clipped[i].last /\ clipped[i].last <= old[i].last
               /\ clipped[i].last \in Nat
    <3>1. kept[i] = old[i] /\ i \in 1..Len(old) /\ old[i] \in SpanRecords /\ i \in DOMAIN kept
      BY <1>1, <1>3
    <3>2. clipped[i] = [old[i] EXCEPT !.last = IF @ < through THEN @ ELSE through]
      BY <3>1
    <3>3. old[i].first <= old[i].last /\ old[i].first <= through
          /\ old[i].first \in Nat /\ old[i].last \in Nat
      BY <1>1, <1>2, <3>1
    <3> HIDE DEF clipped, old
    <3>4. /\ clipped[i] \in SpanRecords
          /\ clipped[i].of = old[i].of /\ clipped[i].first = old[i].first
          /\ clipped[i].last = IF old[i].last < through THEN old[i].last ELSE through
      BY <3>1, <3>2, <3>3 DEF SpanRecords
    <3>5. QED
      BY <3>3, <3>4
  <2>2. clipped \in Seq(SpanRecords) /\ Len(clipped) = k
    <3>1. k \in Nat /\ DOMAIN clipped = 1..k
      BY <1>2, <1>3
    <3> HIDE DEF clipped
    <3>2. clipped = [i \in 1..k |-> clipped[i]]
      BY <1>3, <3>1 DEF clipped
    <3>3. QED
      BY <2>1, <3>1, <3>2
  <2> HIDE DEF clipped
  <2>3. ASSUME NEW i \in 1..k
        PROVE  clipped[i].first = (IF i = 1 THEN 0 ELSE clipped[i - 1].last) + 1
    <3>1. i \in 1..Len(old) /\ clipped[i].first = old[i].first
      BY <1>3, <2>1
    <3>2. CASE i = 1
      BY <1>1, <3>1, <3>2
    <3>3. CASE i # 1
      <4>1. i - 1 \in 1..k /\ i - 1 \in 1..Len(old) /\ k \in Nat
        BY <1>1, <1>2, <3>1, <3>3
      <4> DEFINE w == old[i - 1].last
                 f == old[i].first
      <4>2. w \in Nat /\ f = w + 1 /\ f <= through
        BY <1>1, <1>2, <3>1, <3>3, <4>1
      <4>3. clipped[i - 1].last = IF w < through THEN w ELSE through
        BY <2>1, <4>1
      <4>4. clipped[i].first = f
        BY <3>1
      <4> HIDE DEF w, f
      <4>5. clipped[i - 1].last = w
        BY <4>2, <4>3
      <4>6. QED
        BY <3>3, <4>2, <4>4, <4>5
    <3>4. QED
      BY <3>2, <3>3
  <2>4. QED
    BY <2>1, <2>2, <2>3
<1> HIDE DEF clipped
<1>5. Contiguous(clipped)
  BY <1>4 DEF Contiguous
<1>6. list = WithOwn(clipped, s, through)
  BY DEF HistoryThrough, clipped, kept
<1>7. SpansEnd(clipped) = (IF k = 0 THEN 0 ELSE clipped[k].last) /\ (clipped = <<>> <=> k = 0)
  <2>1. clipped = <<>> <=> k = 0
    BY <1>4
  <2>2. QED
    BY <1>4, <1>5, <2>1, SpansCover
<1>8. SpansEnd(old) = (IF Len(old) = 0 THEN 0 ELSE old[Len(old)].last)
  <2>1. old = <<>> <=> Len(old) = 0
    BY <1>1
  <2>2. QED
    BY <2>1, SpansCover
<1>9. \/ SpansEnd(clipped) = through
      \/ SpansEnd(clipped) < through /\ SpansEnd(clipped) = SpansEnd(old) /\ SpansEnd(old) \in Nat
  <2>1. CASE k = Len(old)
    <3>1. CASE k = 0
      BY <1>7, <1>8, <2>1, <3>1
    <3>2. CASE k # 0
      <4>1. k \in 1..k /\ k \in 1..Len(old)
        BY <1>2, <2>1, <3>2
      <4> DEFINE w == old[k].last
      <4>2. w \in Nat /\ SpansEnd(old) = w
            /\ SpansEnd(clipped) = IF w < through THEN w ELSE through
        BY <1>1, <1>4, <1>7, <1>8, <2>1, <3>2, <4>1
      <4> HIDE DEF w
      <4>3. QED
        BY <4>2
    <3>3. QED
      BY <3>1, <3>2
  <2>2. CASE k # Len(old)
    <3>1. k + 1 \in 1..Len(old) /\ through < old[k + 1].first /\ k \in Nat
      BY <1>1, <1>2, <2>2
    <3>2. CASE k = 0
      <4>1. old[1].first = 1
        BY <1>1, <3>1, <3>2
      <4>2. through = 0
        BY <3>1, <3>2, <4>1
      <4>3. QED
        BY <1>7, <3>2, <4>2
    <3>3. CASE k # 0
      <4>1. k \in 1..k /\ k \in 1..Len(old) /\ k + 1 # 1 /\ (k + 1) - 1 = k
        BY <1>1, <1>2, <3>1, <3>3
      <4> DEFINE w == old[k].last
      <4>2. w \in Nat /\ old[k + 1].first = w + 1
        BY <1>1, <3>1, <4>1
      <4>3. SpansEnd(clipped) = IF w < through THEN w ELSE through
        BY <1>4, <1>7, <3>3, <4>1
      <4> HIDE DEF w
      <4>4. ~(w < through)
        BY <3>1, <4>2
      <4>5. QED
        BY <4>3, <4>4
    <3>4. QED
      BY <3>2, <3>3
  <2>3. QED
    BY <2>1, <2>2
<1>10. CASE SpansEnd(clipped) = through
  <2>1. list = clipped
    BY <1>6, <1>10 DEF WithOwn
  <2> HIDE DEF list, old
  <2>2. QED
    BY <1>3, <1>4, <1>5, <1>10, <2>1 DEF list, old, CutOf
<1>11. CASE SpansEnd(clipped) < through /\ SpansEnd(clipped) = SpansEnd(old) /\ SpansEnd(old) \in Nat
  <2> DEFINE e == SpansEnd(old)
             span == [of |-> s, first |-> e + 1, last |-> through]
  <2>1. list = Append(clipped, span)
    BY <1>6, <1>11 DEF WithOwn
  <2>2. span \in SpanRecords /\ e \in Nat /\ e < through
    BY <1>11 DEF SpanRecords
  <2>3. /\ list \in Seq(SpanRecords) /\ Len(list) = k + 1 /\ k \in Nat
        /\ list[k + 1] = span /\ \A i \in 1..k : list[i] = clipped[i]
    <3> HIDE DEF list, span
    <3>1. k \in Nat
      BY <1>2
    <3>2. QED
      BY <1>4, <2>1, <2>2, <3>1
  <2> HIDE DEF list
  <2>4. SpansEnd(list) = through
    <3>1. list # <<>> /\ list[Len(list)].last = through
      BY <2>3
    <3>2. QED
      BY <3>1 DEF SpansEnd, Last
  <2>5. Contiguous(list)
    <3> SUFFICES ASSUME NEW i \in 1..k + 1
                 PROVE  /\ list[i].first = (IF i = 1 THEN 0 ELSE list[i - 1].last) + 1
                        /\ list[i].first <= list[i].last
      BY <2>3 DEF Contiguous
    <3>1. CASE i \in 1..k
      <4>1. i = 1 \/ i - 1 \in 1..k
        BY <2>3, <3>1
      <4>2. list[i] = clipped[i] /\ (i # 1 => list[i - 1] = clipped[i - 1])
        BY <2>3, <3>1, <4>1
      <4>3. QED
        BY <1>4, <3>1, <4>2
    <3>2. CASE i = k + 1
      <4>1. list[i].first = e + 1 /\ list[i].last = through
        BY <2>3, <3>2
      <4>2. e = IF i = 1 THEN 0 ELSE list[i - 1].last
        <5>1. CASE k = 0
          BY <1>7, <1>11, <3>2, <5>1
        <5>2. CASE k # 0
          <6>1. i # 1 /\ i - 1 = k /\ k \in 1..k
            BY <2>3, <3>2, <5>2
          <6>2. list[i - 1] = clipped[k]
            BY <2>3, <6>1
          <6>3. QED
            BY <1>7, <1>11, <5>2, <6>1, <6>2
        <5>3. QED
          BY <5>1, <5>2
      <4> HIDE DEF e
      <4>3. QED
        BY <2>2, <4>1, <4>2
    <3>3. i \in 1..k \/ i = k + 1
      BY <2>3
    <3>4. QED
      BY <3>1, <3>2, <3>3
  <2>6. ASSUME NEW i \in 1..Len(list)
        PROVE  \/ /\ i \in 1..Len(old) /\ list[i].of = old[i].of
                  /\ list[i].first = old[i].first /\ list[i].last <= old[i].last
               \/ /\ list[i].of = s /\ list[i].first = SpansEnd(old) + 1
                  /\ list[i].last = through
    <3>1. i \in 1..k \/ i = k + 1
      BY <2>3
    <3>2. CASE i \in 1..k
      <4>1. list[i] = clipped[i] /\ i \in 1..Len(old)
        BY <1>3, <2>3, <3>2
      <4> HIDE DEF old
      <4>2. QED
        BY <1>4, <3>2, <4>1
    <3>3. CASE i = k + 1
      BY <2>3, <3>3
    <3>4. QED
      BY <3>1, <3>2, <3>3
  <2>7. QED
    BY <2>4, <2>5, <2>6 DEF list, CutOf
<1>12. QED
  BY <1>9, <1>10, <1>11

\* One Journal gets its spans.
Begins(sq, sp, b, list) ==
  /\ sq \in [Lines -> Seq(SpanRecords)]
  /\ sq[b] = list
  /\ \A t \in Lines \ {b} : sq[t] = sp[t]

\* A new Journal with a part of a source's history and nothing of its own reads that part; the
\* others read what they did.
LEMMA BranchHistory ==
  ASSUME NEW o, NEW sp, JournalsWhole(o, sp),
         NEW s \in Lines, NEW b \in Lines, s # b, o[b] = <<>>, sp[b] = <<>>,
         \A t \in Lines : \A i \in 1..Len(sp[t]) : sp[t][i].of # b,
         NEW through \in 0..Len(HistoryOf(o, sp, s)), NEW list, CutOf(list, sp, s, through),
         NEW sq, Begins(sq, sp, b, list)
  PROVE  /\ JournalsWhole(o, sq)
         /\ HistoryOf(o, sq, b) = SubSeq(HistoryOf(o, sp, s), 1, through)
         /\ \A t \in Lines \ {b} : HistoryOf(o, sq, t) = HistoryOf(o, sp, t)
<1> DEFINE h == HistoryOf(o, sp, s)
           g == HistoryOf(o, sq, b)
           e == SpansEnd(sp[s])
           l == Len(o[s])
<1>0. /\ Contiguous(list) /\ SpansEnd(list) = through
      /\ \A i \in 1..Len(list) :
           \/ /\ i \in 1..Len(sp[s]) /\ list[i].of = sp[s][i].of
              /\ list[i].first = sp[s][i].first /\ list[i].last <= sp[s][i].last
           \/ /\ list[i].of = s /\ list[i].first = SpansEnd(sp[s]) + 1
              /\ list[i].last = through
  BY DEF CutOf
<1> USE <1>0
<1>1. sp \in [Lines -> Seq(SpanRecords)] /\ o \in [Lines -> Seq(Entries)]
  BY DEF JournalsWhole
<1>2. list \in Seq(SpanRecords) /\ Len(list) \in Nat
  BY DEF Contiguous
<1>3. sq[b] = list /\ (\A t \in Lines \ {b} : sq[t] = sp[t]) /\ sq \in [Lines -> Seq(SpanRecords)]
  BY DEF Begins
<1>4. h \in Seq(Entries) /\ Len(h) = e + l /\ e \in Nat /\ l \in Nat /\ through \in 0..(e + l)
  BY HistoryCells, Places
<1>5. ASSUME NEW i \in 1..Len(list)
      PROVE  /\ list[i].of \in Lines \ {b} /\ sq[list[i].of] = sp[list[i].of]
             /\ SpansEnd(sq[list[i].of]) < list[i].first
             /\ list[i].last <= SpansEnd(sq[list[i].of]) + Len(o[list[i].of])
             /\ \A n \in list[i].first..list[i].last :
                  h[n] = o[list[i].of][n - SpansEnd(sp[list[i].of])]
  <2>1. list[i] \in SpanRecords
    BY <1>2
  <2>2. CASE /\ i \in 1..Len(sp[s]) /\ list[i].of = sp[s][i].of
             /\ list[i].first = sp[s][i].first /\ list[i].last <= sp[s][i].last
    <3> DEFINE u == sp[s][i].of
               f == sp[s][i].first
               y == list[i].last
               z == sp[s][i].last
               c == SpansEnd(sp[u])
               m == Len(o[u])
    <3>1. u \in Lines /\ f \in Nat /\ z \in Nat /\ y \in Nat /\ u # b
      BY <2>1, <2>2, Places DEF SpanRecords
    <3>2. c \in Nat /\ m \in Nat
      BY <3>1, Places
    <3>3. c < f /\ z <= c + m /\ y <= z
      BY <2>2 DEF JournalsWhole
    <3>4. \A n \in f..z : h[n] = o[u][n - c]
      BY <2>2, HistoryCells
    <3>5. list[i].of = u /\ list[i].first = f /\ list[i].last = y /\ sq[u] = sp[u]
      BY <1>3, <2>2, <3>1
    <3> HIDE DEF u, f, y, z, c, m, h
    <3>6. c < f /\ y <= c + m /\ \A n \in f..y : n \in f..z
      BY <3>1, <3>2, <3>3
    <3>7. u \in Lines \ {b} /\ \A n \in f..y : h[n] = o[u][n - c]
      BY <3>1, <3>4, <3>6
    <3>8. SpansEnd(sq[u]) = c
      BY <3>5 DEF c
    <3>9. QED
      BY <3>5, <3>6, <3>7, <3>8 DEF c, m
  <2>3. CASE /\ list[i].of = s /\ list[i].first = SpansEnd(sp[s]) + 1
             /\ list[i].last = through
    <3>1. \A n \in 1..l : h[e + n] = o[s][n]
      BY HistoryCells
    <3>2. list[i].of = s /\ list[i].first = e + 1 /\ list[i].last = through /\ sq[s] = sp[s]
      BY <1>3, <2>3
    <3> HIDE DEF h, e, l
    <3>3. \A n \in e + 1..through : n - e \in 1..l /\ e + (n - e) = n
      BY <1>4
    <3>4. \A n \in e + 1..through : h[n] = o[s][n - e]
      BY <3>1, <3>3
    <3>5. e < e + 1 /\ through <= e + l
      BY <1>4
    <3>6. SpansEnd(sq[s]) = e /\ s \in Lines \ {b}
      BY <3>2 DEF e
    <3>7. QED
      BY <3>2, <3>4, <3>5, <3>6 DEF e, l
  <2>4. QED
    BY <2>2, <2>3
<1>6. JournalsWhole(o, sq)
  <2>1. ASSUME NEW t \in Lines
        PROVE  /\ Contiguous(sq[t])
               /\ \A i \in 1..Len(sq[t]) :
                    /\ SpansEnd(sq[sq[t][i].of]) < sq[t][i].first
                    /\ sq[t][i].last <= SpansEnd(sq[sq[t][i].of]) + Len(o[sq[t][i].of])
    <3>1. CASE t = b
      BY <1>3, <1>5, <3>1
    <3>2. CASE t # b
      <4>1. sq[t] = sp[t] /\ Contiguous(sp[t])
        BY <1>3, <3>2 DEF JournalsWhole
      <4>2. ASSUME NEW i \in 1..Len(sp[t])
            PROVE  /\ SpansEnd(sq[sp[t][i].of]) < sp[t][i].first
                   /\ sp[t][i].last <= SpansEnd(sq[sp[t][i].of]) + Len(o[sp[t][i].of])
        <5>1. sp[t][i].of \in Lines \ {b}
          BY Places
        <5>2. sq[sp[t][i].of] = sp[sp[t][i].of]
          BY <1>3, <5>1
        <5>3. QED
          BY <5>2 DEF JournalsWhole
      <4>3. QED
        BY <4>1, <4>2
    <3>3. QED
      BY <3>1, <3>2
  <2>2. QED
    BY <1>1, <1>3, <2>1 DEF JournalsWhole
<1>7. /\ g \in Seq(Entries) /\ Len(g) = through
      /\ \A i \in 1..Len(list) : \A n \in list[i].first..list[i].last :
           g[n] = o[list[i].of][n - SpansEnd(sq[list[i].of])]
  <2>1. Len(o[b]) = 0
    OBVIOUS
  <2>2. /\ g \in Seq(Entries) /\ Len(g) = SpansEnd(sq[b]) + Len(o[b])
        /\ \A i \in 1..Len(sq[b]) : \A n \in sq[b][i].first..sq[b][i].last :
             g[n] = o[sq[b][i].of][n - SpansEnd(sq[sq[b][i].of])]
    BY <1>6, HistoryCells
  <2>3. SpansEnd(sq[b]) + Len(o[b]) = through
    BY <1>3, <2>1
  <2> HIDE DEF g
  <2>4. QED
    BY <1>3, <2>2, <2>3
<1>8. \A n \in 1..through : g[n] = h[n]
  <2> SUFFICES ASSUME NEW n \in 1..through
               PROVE  g[n] = h[n]
    OBVIOUS
  <2>1. PICK i \in 1..Len(list) : n \in list[i].first..list[i].last
    BY SpansCover
  <2> HIDE DEF g, h
  <2>2. g[n] = o[list[i].of][n - SpansEnd(sp[list[i].of])]
    BY <1>5, <1>7, <2>1
  <2>3. QED
    BY <1>5, <2>1, <2>2
<1>9. g = SubSeq(h, 1, through)
  <2> HIDE DEF g, h, e, l
  <2>1. through \in 0..Len(h)
    BY <1>4
  <2>2. /\ SubSeq(h, 1, through) \in Seq(Entries) /\ Len(SubSeq(h, 1, through)) = through
        /\ \A n \in 1..through : SubSeq(h, 1, through)[n] = h[n]
    BY <1>4, <2>1
  <2>3. QED
    BY <1>7, <1>8, <2>2, SameSeq
<1>10. ASSUME NEW t \in Lines \ {b}
       PROVE  HistoryOf(o, sq, t) = HistoryOf(o, sp, t)
  <2>1. sq[t] = sp[t] /\ t \in Lines
    BY <1>3
  <2>2. \A u \in Lines : (u = t \/ \E i \in 1..Len(sp[t]) : sp[t][i].of = u) =>
          /\ SpansEnd(sq[u]) = SpansEnd(sp[u])
          /\ Len(o[u]) <= Len(o[u])
          /\ \A n \in 1..Len(o[u]) : o[u][n] = o[u][n]
    <3> SUFFICES ASSUME NEW u \in Lines, u = t \/ \E i \in 1..Len(sp[t]) : sp[t][i].of = u
                 PROVE  SpansEnd(sq[u]) = SpansEnd(sp[u]) /\ Len(o[u]) <= Len(o[u])
      OBVIOUS
    <3>1. u # b
      OBVIOUS
    <3>2. sq[u] = sp[u] /\ Len(o[u]) \in Nat
      BY <1>1, <1>3, <3>1
    <3>3. QED
      BY <3>2
  <2>3. /\ Len(HistoryOf(o, sq, t)) = SpansEnd(sp[t]) + Len(o[t])
        /\ \A n \in 1..Len(HistoryOf(o, sp, t)) : HistoryOf(o, sq, t)[n] = HistoryOf(o, sp, t)[n]
    BY <1>6, <2>1, <2>2, HistoryStays
  <2>4. /\ HistoryOf(o, sp, t) \in Seq(Entries) /\ HistoryOf(o, sq, t) \in Seq(Entries)
        /\ Len(HistoryOf(o, sp, t)) = SpansEnd(sp[t]) + Len(o[t])
    BY <1>6, HistoryCells
  <2>5. QED
    BY <2>3, <2>4, SameSeq
<1>11. QED
  BY <1>6, <1>9, <1>10

-------------------------------------------------------------------------------
\* What a history goes on from

\* Where the last event that is not a version is
LEMMA LastTurnIs ==
  ASSUME NEW h \in Seq(Entries)
  PROVE  LET turns == {i \in 1..Len(h) : h[i].kind # "version"} IN
         LastTurn(h) = IF turns = {} THEN 0 ELSE Max(turns)
<1> DEFINE turns == {i \in 1..Len(h) : h[i].kind # "version"}
<1>1. DOMAIN h = 1..Len(h)
  OBVIOUS
<1>2. LastTurn(h) = IF turns # {} THEN Max(turns) ELSE 0
  BY <1>1 DEF LastTurn, SelectLastInSeq
<1> HIDE DEF turns
<1>3. QED
  BY <1>2 DEF turns

\* A version makes no difference to whether a Session goes on.
LEMMA VersionsAreQuiet ==
  ASSUME NEW h \in Seq(Entries)
  PROVE  Runnable(h \o <<Turn("version")>>) = Runnable(h)
<1> DEFINE event == Turn("version")
           g == h \o <<event>>
           turns(x) == {i \in 1..Len(x) : x[i].kind # "version"}
<1>1. event \in Entries /\ event.kind = "version"
  BY DEF Turn, Entries
<1> HIDE DEF event
<1>2. /\ g \in Seq(Entries) /\ Len(g) = Len(h) + 1 /\ Len(h) \in Nat
      /\ (\A i \in 1..Len(h) : g[i] = h[i]) /\ g[Len(h) + 1] = event
      /\ DOMAIN g = 1..Len(g) /\ DOMAIN h = 1..Len(h)
  BY <1>1
<1> HIDE DEF g
<1>3. \A i \in 1..Len(g) : i \in 1..Len(h) \/ i = Len(h) + 1
  BY <1>2
<1>4. \A i \in 1..Len(h) : i \in 1..Len(g)
  BY <1>2
<1>5. Begun(g) = Begun(h) /\ Ended(g) = Ended(h)
  <2>1. \A i \in 1..Len(g) : g[i].kind \in {"call", "outcome"} => i \in 1..Len(h)
    BY <1>1, <1>2, <1>3
  <2>2. \A i : i \in Begun(g) <=> i \in Begun(h)
    BY <1>2, <1>4, <2>1 DEF Begun
  <2>3. \A i : i \in Ended(g) <=> i \in Ended(h)
    BY <1>2, <1>4, <2>1 DEF Ended
  <2>4. QED
    BY <2>2, <2>3
<1>6. turns(g) = turns(h)
  BY <1>1, <1>2, <1>3, <1>4
<1>7. /\ LastTurn(g) = IF turns(g) = {} THEN 0 ELSE Max(turns(g))
      /\ LastTurn(h) = IF turns(h) = {} THEN 0 ELSE Max(turns(h))
  BY <1>2, LastTurnIs
<1>8. LastTurn(g) = LastTurn(h) /\ (LastTurn(h) # 0 => LastTurn(h) \in 1..Len(h))
  <2>1. LastTurn(g) = LastTurn(h)
    <3> HIDE DEF turns
    <3>1. QED
      BY <1>6, <1>7
  <2>2. turns(h) # {} => Max(turns(h)) \in turns(h)
    <3>1. turns(h) \in SUBSET (0..Len(h))
      BY <1>2
    <3> HIDE DEF turns
    <3>2. QED
      BY <1>2, <3>1, GreatestOf
  <2>3. QED
    BY <1>7, <2>1, <2>2
<1>9. Runnable(g) = Runnable(h)
  BY <1>2, <1>5, <1>8 DEF Runnable, Unresolved
<1>10. QED
  BY <1>9 DEF g, event

\* After a stop it does not.
LEMMA StopEnds ==
  ASSUME NEW h \in Seq(Entries), NEW events \in Seq(Entries),
         events # <<>>, events[Len(events)].kind = "stop"
  PROVE  ~Runnable(h \o events)
<1> DEFINE g == h \o events
           turns == {i \in 1..Len(g) : g[i].kind # "version"}
<1>1. /\ h \o events \in Seq(Entries) /\ Len(h \o events) = Len(h) + Len(events)
      /\ Len(h) \in Nat /\ Len(events) \in Nat
      /\ \A k \in 1..Len(events) : (h \o events)[Len(h) + k] = events[k]
  BY Joined
<1>2. Len(events) \in 1..Len(events)
  OBVIOUS
<1>9. /\ g \in Seq(Entries) /\ Len(g) = Len(h) + Len(events)
      /\ \A k \in 1..Len(events) : g[Len(h) + k] = events[k]
  BY <1>1
<1> HIDE DEF g
<1>3. Len(g) \in 1..Len(g) /\ Len(g) \in Nat /\ g[Len(g)].kind = "stop"
  <2> DEFINE x == Len(h)
             y == Len(events)
             z == Len(g)
  <2>1. x \in Nat /\ y \in 1..y /\ y \in Nat /\ z = x + y
    BY <1>1, <1>2, <1>9
  <2>2. g[x + y].kind = "stop"
    BY <1>2, <1>9
  <2> HIDE DEF x, y, z
  <2>3. z \in 1..z /\ z \in Nat /\ g[z].kind = "stop"
    BY <2>1, <2>2
  <2>4. QED
    BY <2>3 DEF z
<1>4. Len(g) \in turns /\ turns \in SUBSET (0..Len(g))
  BY <1>3
<1>5. LastTurn(g) = Max(turns)
  <2>1. LastTurn(g) = IF turns = {} THEN 0 ELSE Max(turns)
    BY <1>9, LastTurnIs
  <2> HIDE DEF turns
  <2>2. QED
    BY <1>4, <2>1
<1>6. Max(turns) = Len(g)
  <2> HIDE DEF turns
  <2>1. Max(turns) \in turns /\ Len(g) <= Max(turns)
    BY <1>3, <1>4, GreatestOf
  <2>2. Max(turns) \in 0..Len(g)
    BY <1>4, <2>1
  <2>3. QED
    BY <1>3, <2>1, <2>2
<1>7. ~Runnable(g)
  BY <1>3, <1>5, <1>6 DEF Runnable
<1>8. QED
  BY <1>7 DEF g

-------------------------------------------------------------------------------
\* The inductive invariant.

\* What a branch is of
Kinds == {"edit", "turn", "restart"}

\* How far the Host is with a branch
Flows ==
  {NoFlow}
  \cup [at : {"stopping", "quieting", "cut"}, kind : Kinds, source : Lines, through : Nat,
        message : Entries]
  \cup [at : {"named"}, kind : Kinds, message : Entries]
  \cup [at : {"made"}, kind : Kinds]

\* What every Session reads
Histories(o, sp) == [s \in Lines |-> HistoryOf(o, sp, s)]

Here == Histories(own, spans)

\* Only what has its name has anything in it, and is read by others.
InPlace(o, sp, as, th) ==
  /\ th \subseteq Lines
  /\ as \in [Lines -> SUBSET Lines]
  /\ \A s \in Lines \ th : o[s] = <<>> /\ sp[s] = <<>>
  /\ \A s \in Lines : \A i \in 1..Len(sp[s]) : sp[s][i].of \in th

\* Each delivery once, and the owners of attachments where they are looked for
Sound(history, places) ==
  /\ \A i, j \in 1..Len(history) :
       /\ history[i].kind = "message" /\ history[j].kind = "message"
       /\ history[i].id = history[j].id
       => i = j
  /\ \A i \in 1..Len(history) : history[i].kind = "message" => history[i].owner \in places

\* What is known of a branch by how far the Host is with it
FlowFine(f, b, th, h, as, inherits) ==
  /\ b \in th <=> f.at \in {"named", "made"}
  /\ f.at \in {"stopping", "quieting", "cut"} =>
       /\ f.source \in th
       /\ f.through \in 0..Len(h[f.source])
  /\ f.at = "cut" =>
       /\ inherits = SubSeq(h[f.source], 1, f.through)
       /\ f.kind = "edit" => f.message.owner \in {f.source} \cup as[f.source]
  /\ f.at = "named" /\ f.kind = "edit" => f.message.owner \in {b} \cup as[b]

\* No decision, and nothing that one would lead to
OnlyEnds(history) == \A i \in 1..Len(history) : history[i].kind \in {"version", "outcome", "stop"}

\* A restarted branch nobody has written to
Unspoken(b) == flow[b].at \in {"named", "made"} /\ flow[b].kind = "restart" /\ b \notin spoken

\* Spans are of rows that are there, and every history is sound.
JournalsSound ==
  /\ JournalsWhole(own, spans)
  /\ InPlace(own, spans, assets, there)
  /\ \A s \in there : Sound(Here[s], {s} \cup assets[s])
  /\ seen \in [Lines -> Seq(Entries)]
  /\ \A b \in there \cap Branches : Here[b] = seen[b] \o own[b]

\* What is known of each branch
FlowsFine ==
  /\ flow \in [Branches -> Flows]
  /\ \A b \in Branches : FlowFine(flow[b], b, there, Here, assets, seen[b])

\* A restarted branch is paused, or has nothing to go on from.
RestartsWait ==
  /\ paused \subseteq there /\ awake \subseteq there /\ deciding \subseteq there
  /\ \A b \in Branches : Unspoken(b) =>
       /\ b \notin deciding /\ OnlyEnds(own[b])
       /\ b \in paused \/ ~Runnable(Here[b])

\* The inductive invariant
BranchInv == JournalsSound /\ FlowsFine /\ RestartsWait

\* What is added to a history: nothing it has already
NewTo(history, events, places) ==
  \A k \in 1..Len(events) : events[k].kind = "message" =>
    /\ Len(events) = 1 /\ events[k].owner \in places
    /\ \A i \in 1..Len(history) :
         history[i].kind = "message" => history[i].id # events[k].id

\* What is added to a Session that waits: a version, or the end of what was going on
Closing(events) ==
  \/ events = <<>>
  \/ events = <<Turn("version")>>
  \/ /\ events # <<>> /\ events[Len(events)].kind = "stop"
     /\ \A k \in 1..Len(events) : events[k].kind \in {"outcome", "stop"}

\* The histories are those of the model.
LEMMA HereIs ==
  /\ \A s \in Lines : History(s) = Here[s]
  /\ \A s \in Lines : History(s)' = Here'[s]
<1>1. ASSUME NEW s \in Lines PROVE History(s) = Here[s]
  BY DEF History, Here, Histories, HistoryOf, Rows
<1>2. ASSUME NEW s \in Lines PROVE History(s)' = Here'[s]
  BY DEF History, Here, Histories, HistoryOf, Rows
<1> QED
  BY <1>1, <1>2

\* They are sequences of what a Journal holds.
LEMMA HistoriesTyped ==
  ASSUME NEW o, NEW sp, JournalsWhole(o, sp)
  PROVE  Histories(o, sp) \in [Lines -> Seq(Entries)]
BY HistoryCells DEF Histories

\* Events after one of the histories
Lengthened(h, s, events) == [h EXCEPT ![s] = @ \o events]

\* Recorded events are added to one of them.
LEMMA HistoriesGrow ==
  ASSUME NEW o, NEW sp, JournalsWhole(o, sp), NEW s \in Lines, NEW events \in Seq(Entries),
         NEW p, Adds(p, o, s, events)
  PROVE  /\ JournalsWhole(p, sp)
         /\ Histories(p, sp) = Lengthened(Histories(o, sp), s, events)
<1>1. /\ JournalsWhole(p, sp)
      /\ HistoryOf(p, sp, s) = HistoryOf(o, sp, s) \o events
      /\ \A t \in Lines \ {s} : HistoryOf(p, sp, t) = HistoryOf(o, sp, t)
  BY RecordAdds
<1> QED
  BY <1>1 DEF Histories, Lengthened

\* A prefix of a history stays one.
LEMMA PrefixStays ==
  ASSUME NEW h \in Seq(Entries), NEW events \in Seq(Entries), NEW n \in 0..Len(h)
  PROVE  n \in 0..Len(h \o events) /\ SubSeq(h \o events, 1, n) = SubSeq(h, 1, n)
<1> DEFINE g == h \o events
<1>1. /\ h \o events \in Seq(Entries) /\ Len(h \o events) = Len(h) + Len(events)
      /\ Len(h) \in Nat /\ Len(events) \in Nat
      /\ \A k \in 1..Len(h) : (h \o events)[k] = h[k]
  BY Joined
<1>2. /\ g \in Seq(Entries) /\ Len(g) = Len(h) + Len(events)
      /\ \A k \in 1..Len(h) : g[k] = h[k]
  BY <1>1
<1> HIDE DEF g
<1>3. n \in 0..Len(g)
  BY <1>1, <1>2
<1>4. /\ SubSeq(g, 1, n) \in Seq(Entries) /\ Len(SubSeq(g, 1, n)) = n
      /\ \A k \in 1..n : SubSeq(g, 1, n)[k] = g[k]
  BY <1>2, <1>3
<1>5. /\ SubSeq(h, 1, n) \in Seq(Entries) /\ Len(SubSeq(h, 1, n)) = n
      /\ \A k \in 1..n : SubSeq(h, 1, n)[k] = h[k]
  OBVIOUS
<1>6. \A k \in 1..n : k \in 1..Len(h)
  BY <1>1
<1>7. SubSeq(g, 1, n) = SubSeq(h, 1, n)
  BY <1>2, <1>4, <1>5, <1>6, SameSeq
<1> QED
  BY <1>3, <1>7 DEF g

\* A sound history stays sound with what is new to it.
LEMMA SoundGrows ==
  ASSUME NEW h \in Seq(Entries), NEW events \in Seq(Entries), NEW places,
         Sound(h, places), NewTo(h, events, places)
  PROVE  Sound(h \o events, places)
<1> DEFINE g == h \o events
<1>1. /\ Len(h \o events) = Len(h) + Len(events) /\ Len(h) \in Nat /\ Len(events) \in Nat
      /\ \A k \in 1..Len(h) : (h \o events)[k] = h[k]
      /\ \A k \in 1..Len(events) : (h \o events)[Len(h) + k] = events[k]
  BY Joined
<1>2. /\ Len(g) = Len(h) + Len(events)
      /\ \A k \in 1..Len(h) : g[k] = h[k]
      /\ \A k \in 1..Len(events) : g[Len(h) + k] = events[k]
  BY <1>1
<1> HIDE DEF g
<1>3. ASSUME NEW i \in 1..Len(g)
      PROVE  \/ i \in 1..Len(h) /\ g[i] = h[i]
             \/ /\ i - Len(h) \in 1..Len(events) /\ i = Len(h) + (i - Len(h))
                /\ g[i] = events[i - Len(h)]
  <2> DEFINE x == Len(h)
             y == Len(events)
  <2>1. x \in Nat /\ y \in Nat /\ Len(g) = x + y
    BY <1>1, <1>2
  <2> HIDE DEF x, y
  <2>2. i \in 1..x \/ (i - x \in 1..y /\ i = x + (i - x))
    BY <2>1
  <2>3. QED
    BY <1>2, <2>2 DEF x, y
<1>4. ASSUME NEW i \in 1..Len(g), g[i].kind = "message"
      PROVE  /\ g[i].owner \in places
             /\ \/ i \in 1..Len(h) /\ g[i] = h[i]
                \/ /\ i = Len(h) + 1
                   /\ \A j \in 1..Len(h) : h[j].kind = "message" => h[j].id # g[i].id
  <2>1. CASE i \in 1..Len(h) /\ g[i] = h[i]
    BY <1>4, <2>1 DEF Sound
  <2>2. CASE /\ i - Len(h) \in 1..Len(events) /\ i = Len(h) + (i - Len(h))
             /\ g[i] = events[i - Len(h)]
    <3> DEFINE k == i - Len(h)
    <3>1. k \in 1..Len(events) /\ g[i] = events[k] /\ i = Len(h) + k
      BY <2>2
    <3> HIDE DEF k
    <3>2. /\ Len(events) = 1 /\ events[k].owner \in places
          /\ \A j \in 1..Len(h) : h[j].kind = "message" => h[j].id # events[k].id
      BY <1>4, <3>1 DEF NewTo
    <3>3. k = 1
      BY <3>1, <3>2
    <3>4. QED
      BY <3>1, <3>2, <3>3
  <2>3. QED
    BY <1>3, <2>1, <2>2
<1>5. ASSUME NEW i \in 1..Len(g), NEW j \in 1..Len(g),
             g[i].kind = "message", g[j].kind = "message", g[i].id = g[j].id
      PROVE  i = j
  <2>1. \/ i \in 1..Len(h) /\ g[i] = h[i]
        \/ /\ i = Len(h) + 1
           /\ \A k \in 1..Len(h) : h[k].kind = "message" => h[k].id # g[i].id
    BY <1>4, <1>5
  <2>2. \/ j \in 1..Len(h) /\ g[j] = h[j]
        \/ /\ j = Len(h) + 1
           /\ \A k \in 1..Len(h) : h[k].kind = "message" => h[k].id # g[j].id
    BY <1>4, <1>5
  <2>3. CASE i \in 1..Len(h) /\ j \in 1..Len(h)
    <3>1. g[i] = h[i] /\ g[j] = h[j]
      BY <1>2, <2>3
    <3>2. QED
      BY <1>5, <2>3, <3>1 DEF Sound
  <2>4. CASE i \in 1..Len(h) /\ j \notin 1..Len(h)
    <3>1. g[i] = h[i]
      BY <1>2, <2>4
    <3>2. QED
      BY <1>5, <2>2, <2>4, <3>1
  <2>5. CASE i \notin 1..Len(h) /\ j \in 1..Len(h)
    <3>1. g[j] = h[j]
      BY <1>2, <2>5
    <3>2. QED
      BY <1>5, <2>1, <2>5, <3>1
  <2>6. CASE i \notin 1..Len(h) /\ j \notin 1..Len(h)
    BY <2>1, <2>2, <2>6
  <2>7. QED
    BY <2>3, <2>4, <2>5, <2>6
<1>6. QED
  BY <1>4, <1>5 DEF Sound, g

\* So does a part of it, wherever attachments are looked for in more places.
LEMMA SoundPrefix ==
  ASSUME NEW h \in Seq(Entries), NEW n \in 0..Len(h), NEW places, NEW more,
         Sound(h, places), places \subseteq more
  PROVE  Sound(SubSeq(h, 1, n), more)
<1> DEFINE g == SubSeq(h, 1, n)
<1>1. Len(g) = n /\ \A k \in 1..n : g[k] = h[k] /\ k \in 1..Len(h)
  OBVIOUS
<1> HIDE DEF g
<1>2. Sound(g, more)
  BY <1>1 DEF Sound
<1> QED
  BY <1>2 DEF g

\* What is quiet adds no decision, and nothing to go on from.
LEMMA QuietAdds ==
  ASSUME NEW h \in Seq(Entries), NEW o \in Seq(Entries), NEW events \in Seq(Entries),
         Closing(events)
  PROVE  /\ OnlyEnds(o) => OnlyEnds(o \o events)
         /\ ~Runnable(h) => ~Runnable(h \o events)
<1>1. CASE events = <<>>
  <2>1. h \o events = h /\ o \o events = o
    BY <1>1
  <2>2. QED
    BY <2>1
<1>2. \A k \in 1..Len(events) : events[k].kind \in {"version", "outcome", "stop"}
  <2>1. Turn("version").kind = "version"
    BY DEF Turn
  <2> DEFINE e == Turn("version")
  <2>2. <<e>>[1] = e /\ Len(<<e>>) = 1 /\ \A k \in 1..1 : k = 1
    OBVIOUS
  <2> HIDE DEF e
  <2>3. CASE events = <<e>>
    BY <2>1, <2>2, <2>3 DEF e
  <2>4. QED
    BY <2>3 DEF Closing, e
<1>3. OnlyEnds(o) => OnlyEnds(o \o events)
  <2> SUFFICES ASSUME OnlyEnds(o) PROVE OnlyEnds(o \o events)
    OBVIOUS
  <2> DEFINE g == o \o events
  <2>1. /\ Len(o \o events) = Len(o) + Len(events) /\ Len(o) \in Nat /\ Len(events) \in Nat
        /\ \A k \in 1..Len(o) : (o \o events)[k] = o[k]
        /\ \A k \in 1..Len(events) : (o \o events)[Len(o) + k] = events[k]
    BY Joined
  <2>2. /\ Len(g) = Len(o) + Len(events)
        /\ \A k \in 1..Len(o) : g[k] = o[k]
        /\ \A k \in 1..Len(events) : g[Len(o) + k] = events[k]
    BY <2>1
  <2> HIDE DEF g
  <2>3. ASSUME NEW i \in 1..Len(g) PROVE g[i].kind \in {"version", "outcome", "stop"}
    <3> DEFINE x == Len(o)
               y == Len(events)
    <3>1. x \in Nat /\ y \in Nat /\ Len(g) = x + y
      BY <2>1, <2>2
    <3> HIDE DEF x, y
    <3>2. i \in 1..x \/ (i - x \in 1..y /\ i = x + (i - x))
      BY <3>1
    <3>3. CASE i \in 1..x
      BY <2>2, <3>3 DEF OnlyEnds, x
    <3>4. CASE i - x \in 1..y /\ i = x + (i - x)
      <4>1. g[i] = events[i - x]
        BY <2>2, <3>4 DEF x, y
      <4>2. QED
        BY <1>2, <3>4, <4>1 DEF y
    <3>5. QED
      BY <3>2, <3>3, <3>4
  <2>4. QED
    BY <2>3 DEF OnlyEnds, g
<1>4. CASE events = <<Turn("version")>>
  BY <1>3, <1>4, VersionsAreQuiet
<1>5. CASE events # <<>> /\ events[Len(events)].kind = "stop"
  BY <1>3, <1>5, StopEnds
<1> QED
  BY <1>1, <1>4, <1>5 DEF Closing

\* What is known of a branch stays so while histories grow.
LEMMA FlowsGrow ==
  ASSUME NEW h \in [Lines -> Seq(Entries)], NEW s \in Lines, NEW events \in Seq(Entries),
         NEW th, th \subseteq Lines, NEW as, NEW f, NEW b, NEW inherits,
         FlowFine(f, b, th, h, as, inherits)
  PROVE  FlowFine(f, b, th, Lengthened(h, s, events), as, inherits)
<1> DEFINE g == Lengthened(h, s, events)
<1>1. g[s] = h[s] \o events /\ \A t \in Lines \ {s} : g[t] = h[t]
  BY DEF Lengthened
<1> HIDE DEF g
<1>2. ASSUME NEW t \in Lines, NEW n \in 0..Len(h[t])
      PROVE  n \in 0..Len(g[t]) /\ SubSeq(g[t], 1, n) = SubSeq(h[t], 1, n)
  <2>1. CASE t = s
    <3> DEFINE x == h[s]
    <3>1. x \in Seq(Entries) /\ n \in 0..Len(x)
      BY <2>1
    <3> HIDE DEF x
    <3>2. n \in 0..Len(x \o events) /\ SubSeq(x \o events, 1, n) = SubSeq(x, 1, n)
      BY <3>1, PrefixStays
    <3>3. QED
      BY <1>1, <2>1, <3>2 DEF x
  <2>2. CASE t # s
    BY <1>1, <2>2
  <2>3. QED
    BY <2>1, <2>2
<1>3. FlowFine(f, b, th, g, as, inherits)
  <2>1. f.at \in {"stopping", "quieting", "cut"} =>
          f.source \in Lines /\ f.through \in 0..Len(h[f.source])
    BY DEF FlowFine
  <2>2. f.at \in {"stopping", "quieting", "cut"} =>
          /\ f.through \in 0..Len(g[f.source])
          /\ SubSeq(g[f.source], 1, f.through) = SubSeq(h[f.source], 1, f.through)
    BY <1>2, <2>1
  <2>3. QED
    BY <2>2 DEF FlowFine
<1> QED
  BY <1>3 DEF g

\* What is recorded leaves the Journals sound.
LEMMA JournalsGrow ==
  ASSUME JournalsSound, NEW s \in there, NEW events \in Seq(Entries),
         NewTo(Here[s], events, {s} \cup assets[s]),
         own' = [own EXCEPT ![s] = @ \o events], UNCHANGED <<spans, assets, there, seen>>
  PROVE  JournalsSound' /\ Here' = Lengthened(Here, s, events)
<1>0. /\ JournalsWhole(own, spans) /\ InPlace(own, spans, assets, there)
      /\ seen \in [Lines -> Seq(Entries)]
  BY DEF JournalsSound
<1>1. s \in Lines /\ there \subseteq Lines
  BY <1>0 DEF InPlace
<1>3. Here \in [Lines -> Seq(Entries)] /\ own \in [Lines -> Seq(Entries)]
  BY <1>0, HistoriesTyped DEF Here, JournalsWhole
<1>9. Adds(own', own, s, events)
  <2>1. own[s] \in Seq(Entries)
    BY <1>1, <1>3
  <2> DEFINE x == own[s]
  <2>2. x \in Seq(Entries) /\ own' = [own EXCEPT ![s] = x \o events]
    BY <2>1
  <2> HIDE DEF x
  <2>3. x \o events \in Seq(Entries)
    BY <2>2
  <2>4. own' \in [Lines -> Seq(Entries)] /\ own'[s] = x \o events
        /\ \A t \in Lines \ {s} : own'[t] = own[t]
    BY <1>1, <1>3, <2>2, <2>3
  <2>5. QED
    BY <2>4 DEF x, Adds
<1>2. JournalsWhole(own', spans') /\ Here' = Lengthened(Here, s, events)
  <2>1. /\ JournalsWhole(own', spans)
        /\ Histories(own', spans) = Lengthened(Histories(own, spans), s, events)
    BY <1>0, <1>1, <1>9, HistoriesGrow
  <2>2. QED
    BY <2>1 DEF Here
<1>4. /\ own'[s] = own[s] \o events /\ \A t \in Lines \ {s} : own'[t] = own[t]
      /\ Here'[s] = Here[s] \o events /\ \A t \in Lines \ {s} : Here'[t] = Here[t]
  BY <1>1, <1>2, <1>3, <1>9 DEF Adds, Lengthened
<1>5. InPlace(own', spans', assets', there')
  BY <1>0, <1>1, <1>4 DEF InPlace
<1>6. \A t \in there' : Sound(Here'[t], {t} \cup assets'[t])
  <2>1. Sound(Here[s] \o events, {s} \cup assets[s])
    <3> DEFINE h == Here[s]
    <3>1. h \in Seq(Entries)
      BY <1>1, <1>3
    <3> HIDE DEF h
    <3>2. Sound(h, {s} \cup assets[s]) /\ NewTo(h, events, {s} \cup assets[s])
      BY DEF h, JournalsSound
    <3>3. QED
      BY <3>1, <3>2, SoundGrows DEF h
  <2>2. QED
    BY <1>1, <1>4, <2>1 DEF JournalsSound
<1>7. \A b \in there' \cap Branches : Here'[b] = seen'[b] \o own'[b]
  <2> SUFFICES ASSUME NEW b \in there \cap Branches
               PROVE  Here'[b] = seen[b] \o own'[b]
    OBVIOUS
  <2>1. b \in Lines /\ Here[b] = seen[b] \o own[b]
    BY <1>1 DEF JournalsSound
  <2>2. CASE b = s
    <3> DEFINE x == seen[s]
               y == own[s]
    <3>1. x \in Seq(Entries) /\ y \in Seq(Entries)
      BY <1>0, <1>1, <1>3
    <3> HIDE DEF x, y
    <3>2. (x \o y) \o events = x \o (y \o events)
      BY <3>1
    <3>3. QED
      BY <1>4, <2>1, <2>2, <3>2 DEF x, y
  <2>3. CASE b # s
    BY <1>4, <2>1, <2>3
  <2>4. QED
    BY <2>2, <2>3
<1>8. seen' \in [Lines -> Seq(Entries)]
  BY <1>0
<1> QED
  BY <1>2, <1>5, <1>6, <1>7, <1>8 DEF JournalsSound

\* Journals that nothing is recorded in stay as they are.
LEMMA JournalsStay ==
  ASSUME JournalsSound, UNCHANGED journalFiles, seen' \in [Lines -> Seq(Entries)],
         \A b \in there \cap Branches : seen'[b] = seen[b]
  PROVE  JournalsSound' /\ Here' = Here
<1>1. own' = own /\ spans' = spans /\ assets' = assets /\ there' = there
  BY DEF journalFiles
<1>2. Here' = Here
  BY <1>1 DEF Here
<1> QED
  BY <1>1, <1>2 DEF JournalsSound

-------------------------------------------------------------------------------
\* What a step leaves as it was

\* How far the Host is stays as it is.
FlowsKeep ==
  \A b \in Branches : \A f :
    FlowFine(f, b, there, Here, assets, seen[b]) =>
      FlowFine(f, b, there', Here', assets', seen'[b])

\* Nothing is recorded.
LEMMA Staying ==
  ASSUME BranchInv, UNCHANGED <<journalFiles, seen>>
  PROVE  /\ JournalsSound' /\ FlowsKeep /\ there' = there /\ assets' = assets
         /\ own' = own /\ Here' = Here
<1>1. /\ own' = own /\ there' = there /\ assets' = assets /\ seen' = seen
      /\ seen \in [Lines -> Seq(Entries)] /\ JournalsSound /\ UNCHANGED journalFiles
  BY DEF journalFiles, BranchInv, JournalsSound
<1>2. JournalsSound' /\ Here' = Here
  BY <1>1, JournalsStay
<1>3. FlowsKeep
  BY <1>1, <1>2 DEF FlowsKeep
<1> QED
  BY <1>1, <1>2, <1>3

\* Events are recorded in one Journal.
LEMMA Adding ==
  ASSUME BranchInv, NEW s \in there, NEW events \in Seq(Entries),
         NewTo(Here[s], events, {s} \cup assets[s]), Record(s, events), seen' = seen
  PROVE  /\ JournalsSound' /\ FlowsKeep /\ there' = there /\ assets' = assets
         /\ own'[s] = own[s] \o events /\ Here'[s] = Here[s] \o events
         /\ \A t \in Lines \ {s} : own'[t] = own[t] /\ Here'[t] = Here[t]
<1>1. JournalsSound /\ own' = [own EXCEPT ![s] = @ \o events] /\ UNCHANGED <<spans, assets, there, seen>>
  BY DEF BranchInv, Record
<1>2. JournalsSound' /\ Here' = Lengthened(Here, s, events)
  BY <1>1, JournalsGrow
<1>3. /\ JournalsWhole(own, spans) /\ s \in Lines /\ there \subseteq Lines
      /\ own \in [Lines -> Seq(Entries)] /\ Here \in [Lines -> Seq(Entries)]
  BY <1>1, HistoriesTyped DEF JournalsSound, InPlace, Here, JournalsWhole
<1>4. FlowsKeep
  <2> SUFFICES ASSUME NEW b \in Branches, NEW f, FlowFine(f, b, there, Here, assets, seen[b])
               PROVE  FlowFine(f, b, there', Here', assets', seen'[b])
    BY DEF FlowsKeep
  <2> DEFINE x == seen[b]
  <2>1. FlowFine(f, b, there, Here, assets, x)
    OBVIOUS
  <2>3. there' = there /\ assets' = assets /\ seen'[b] = x
    BY <1>1
  <2> HIDE DEF x
  <2>2. FlowFine(f, b, there, Lengthened(Here, s, events), assets, x)
    BY <1>3, <2>1, FlowsGrow
  <2>4. QED
    BY <1>2, <2>2, <2>3
<1>5. own'[s] = own[s] \o events /\ \A t \in Lines \ {s} : own'[t] = own[t]
  BY <1>1, <1>3
<1>6. Here'[s] = Here[s] \o events /\ \A t \in Lines \ {s} : Here'[t] = Here[t]
  BY <1>2, <1>3 DEF Lengthened
<1> QED
  BY <1>1, <1>2, <1>4, <1>5, <1>6

\* What a Worker or the Host records is no message.
LEMMA TurnsAreNew ==
  ASSUME NEW kind \in {"answer", "call", "outcome", "stop", "version"}, NEW h, NEW places
  PROVE  /\ <<Turn(kind)>> \in Seq(Entries) /\ NewTo(h, <<Turn(kind)>>, places)
         /\ <<Turn("outcome"), Turn(kind)>> \in Seq(Entries)
         /\ NewTo(h, <<Turn("outcome"), Turn(kind)>>, places)
<1> DEFINE e == Turn(kind)
           f == Turn("outcome")
<1>1. e \in Entries /\ e.kind # "message" /\ f \in Entries /\ f.kind # "message"
  BY DEF Turn, Entries
<1> HIDE DEF e, f
<1>2. <<e>> \in Seq(Entries) /\ Len(<<e>>) = 1 /\ \A k \in 1..1 : <<e>>[k] = e
  BY <1>1
<1>3. /\ <<f, e>> \in Seq(Entries) /\ Len(<<f, e>>) = 2
      /\ \A k \in 1..2 : <<f, e>>[k] = f \/ <<f, e>>[k] = e
  BY <1>1
<1>4. NewTo(h, <<e>>, places)
  BY <1>1, <1>2 DEF NewTo
<1>5. NewTo(h, <<f, e>>, places)
  BY <1>1, <1>3 DEF NewTo
<1> QED
  BY <1>2, <1>3, <1>4, <1>5 DEF e, f

\* A restarted branch waits on while nothing, or what is quiet, is recorded in it.
LEMMA WaitsOn ==
  ASSUME BranchInv, NEW b \in Branches, Unspoken(b), b \in paused => b \in paused',
         \/ own'[b] = own[b] /\ Here'[b] = Here[b]
         \/ \E events \in Seq(Entries) :
              /\ Closing(events)
              /\ own'[b] = own[b] \o events /\ Here'[b] = Here[b] \o events
  PROVE  OnlyEnds(own'[b]) /\ (b \in paused' \/ ~Runnable(Here'[b]))
<1>1. OnlyEnds(own[b]) /\ (b \in paused \/ ~Runnable(Here[b]))
  BY DEF BranchInv, RestartsWait
<1>2. CASE own'[b] = own[b] /\ Here'[b] = Here[b]
  BY <1>1, <1>2
<1>3. CASE \E events \in Seq(Entries) :
             /\ Closing(events)
             /\ own'[b] = own[b] \o events /\ Here'[b] = Here[b] \o events
  <2>1. PICK events \in Seq(Entries) :
          /\ Closing(events)
          /\ own'[b] = own[b] \o events /\ Here'[b] = Here[b] \o events
    BY <1>3
  <2> DEFINE x == own[b]
             h == Here[b]
  <2>2. x \in Seq(Entries) /\ h \in Seq(Entries)
    BY HistoriesTyped DEF BranchInv, JournalsSound, JournalsWhole, Here, Lines
  <2>3. own'[b] = x \o events /\ Here'[b] = h \o events
    BY <2>1
  <2>4. OnlyEnds(x) /\ (b \in paused \/ ~Runnable(h))
    BY <1>1
  <2> HIDE DEF x, h
  <2>5. /\ OnlyEnds(x) => OnlyEnds(x \o events)
        /\ ~Runnable(h) => ~Runnable(h \o events)
    BY <2>1, <2>2, QuietAdds
  <2>6. QED
    BY <2>3, <2>4, <2>5
<1> QED
  BY <1>2, <1>3

\* A message that is accepted is new, or is not recorded.
LEMMA Accepting ==
  ASSUME BranchInv, NEW s \in there, NEW message \in Entries, message.kind = "message",
         message.owner \in {s} \cup assets[s], AcceptInput(s, message), seen' = seen
  PROVE  /\ JournalsSound' /\ FlowsKeep /\ there' = there /\ assets' = assets
         /\ \A t \in Lines \ {s} : own'[t] = own[t] /\ Here'[t] = Here[t]
<1>1. CASE message.id \in Delivered(s)
  BY <1>1, Staying DEF AcceptInput
<1>2. CASE message.id \notin Delivered(s)
  <2>1. Record(s, <<message>>)
    BY <1>2 DEF AcceptInput
  <2>2. /\ <<message>> \in Seq(Entries) /\ Len(<<message>>) = 1
        /\ \A k \in 1..1 : <<message>>[k] = message
    OBVIOUS
  <2>3. s \in Lines /\ History(s) = Here[s] /\ Here[s] \in Seq(Entries)
    BY HereIs, HistoriesTyped DEF BranchInv, JournalsSound, InPlace, Here
  <2>4. \A i \in 1..Len(Here[s]) : Here[s][i].kind = "message" => Here[s][i].id # message.id
    <3> DEFINE h == Here[s]
    <3>1. h \in Seq(Entries) /\ DOMAIN h = 1..Len(h)
      BY <2>3
    <3>2. Delivered(s) = {h[i].id : i \in {j \in DOMAIN h : h[j].kind = "message"}}
      BY <2>3 DEF Delivered
    <3> HIDE DEF h
    <3>3. \A i \in 1..Len(h) : h[i].kind = "message" => h[i].id # message.id
      BY <1>2, <3>1, <3>2
    <3>4. QED
      BY <3>3 DEF h
  <2>5. NewTo(Here[s], <<message>>, {s} \cup assets[s])
    BY <2>2, <2>4 DEF NewTo
  <2>6. QED
    BY <2>1, <2>2, <2>5, Adding
<1> QED
  BY <1>1, <1>2

\* A step that makes no branch leaves what is known of each.
LEMMA FlowsStay ==
  ASSUME FlowsFine, FlowsKeep, flow' = flow
  PROVE  FlowsFine'
BY DEF FlowsFine, FlowsKeep

\* The Sessions of a branch, and their number
LEMMA LinesThere ==
  ASSUME BranchInv
  PROVE  /\ there \subseteq Lines /\ Branches \subseteq Lines /\ JournalsSound /\ FlowsFine
         /\ paused \subseteq there /\ awake \subseteq there /\ deciding \subseteq there
         /\ Here \in [Lines -> Seq(Entries)] /\ own \in [Lines -> Seq(Entries)]
         /\ assets \in [Lines -> SUBSET Lines]
BY HistoriesTyped
   DEF BranchInv, JournalsSound, InPlace, RestartsWait, Here, JournalsWhole, Lines

\* An accepted message leaves all of it.
LEMMA UserMessageKeeps ==
  ASSUME BranchInv, NEW s \in Lines, NEW id \in Deliveries, UserMessage(s, id)
  PROVE  BranchInv'
<1> DEFINE message == Message(id, s)
<1>1. /\ s \in there /\ AcceptInput(s, message) /\ flow' = flow /\ deciding' = deciding
      /\ seen' = seen /\ paused' = paused \ {s} /\ awake' = awake \cup {s}
      /\ spoken' = spoken \cup ({s} \cap Branches)
  BY DEF UserMessage, AcceptInput
<1>2. message \in Entries /\ message.kind = "message" /\ message.owner \in {s} \cup assets[s]
  BY DEF Message, Entries
<1> HIDE DEF message
<1>3. /\ JournalsSound' /\ FlowsKeep /\ there' = there
      /\ \A t \in Lines \ {s} : own'[t] = own[t] /\ Here'[t] = Here[t]
  BY <1>1, <1>2, Accepting
<1>4. FlowsFine'
  BY <1>1, <1>3, FlowsStay, LinesThere
<1>5. RestartsWait'
  <2>1. paused' \subseteq there' /\ awake' \subseteq there' /\ deciding' \subseteq there'
    BY <1>1, <1>3, LinesThere
  <2>2. ASSUME NEW b \in Branches, Unspoken(b)'
        PROVE  b \notin deciding' /\ OnlyEnds(own'[b]) /\ (b \in paused' \/ ~Runnable(Here'[b]))
    <3>1. Unspoken(b) /\ b # s
      BY <1>1, <2>2 DEF Unspoken
    <3>2. own'[b] = own[b] /\ Here'[b] = Here[b] /\ (b \in paused => b \in paused')
      BY <1>1, <1>3, <3>1, LinesThere
    <3>3. b \notin deciding'
      BY <1>1, <3>1 DEF BranchInv, RestartsWait
    <3>4. QED
      BY <3>1, <3>2, <3>3, WaitsOn
  <2>3. QED
    BY <2>1, <2>2 DEF RestartsWait
<1> QED
  BY <1>3, <1>4, <1>5 DEF BranchInv

\* Waking, pausing and going on record nothing.
LEMMA GoingOnKeeps ==
  ASSUME BranchInv, NEW s \in Lines, SelectLine(s) \/ Continue(s) \/ BeginAdvance(s)
  PROVE  BranchInv'
<1>1. /\ UNCHANGED <<journalFiles, seen>> /\ flow' = flow /\ s \in there
      /\ paused' \subseteq paused /\ spoken \subseteq spoken'
      /\ awake' \subseteq awake \cup {s} /\ deciding' \subseteq deciding \cup {s}
  BY LinesThere DEF SelectLine, Continue, BeginAdvance
<1>2. /\ JournalsSound' /\ FlowsKeep /\ there' = there /\ own' = own /\ Here' = Here
  BY <1>1, Staying
<1>3. FlowsFine'
  BY <1>1, <1>2, FlowsStay, LinesThere
<1>4. RestartsWait'
  <2>1. paused' \subseteq there' /\ awake' \subseteq there' /\ deciding' \subseteq there'
    BY <1>1, <1>2, LinesThere
  <2>2. ASSUME NEW b \in Branches, Unspoken(b)'
        PROVE  b \notin deciding' /\ OnlyEnds(own'[b]) /\ (b \in paused' \/ ~Runnable(Here'[b]))
    <3>1. Unspoken(b)
      BY <1>1, <2>2 DEF Unspoken
    <3>2. b \notin deciding /\ (b \in paused \/ ~Runnable(Here[b]))
      BY <3>1 DEF BranchInv, RestartsWait
    <3>3. b \in paused => b \in paused'
      BY <2>2 DEF SelectLine, Continue, BeginAdvance, Unspoken
    <3>4. b \notin deciding'
      <4>1. CASE BeginAdvance(s)
        <5>1. b # s
          BY <3>2, <4>1, HereIs DEF BeginAdvance
        <5>2. QED
          BY <3>2, <4>1, <5>1 DEF BeginAdvance
      <4>2. CASE SelectLine(s) \/ Continue(s)
        BY <3>2, <4>2 DEF SelectLine, Continue
      <4>3. QED
        BY <4>1, <4>2
    <3>5. QED
      BY <1>2, <3>1, <3>3, <3>4, WaitsOn
  <2>3. QED
    BY <2>1, <2>2 DEF RestartsWait
<1> QED
  BY <1>2, <1>3, <1>4 DEF BranchInv

\* A restarted branch that waits has no decision to commit and no command to end.
LEMMA WorkingKeeps ==
  ASSUME BranchInv, NEW s \in Lines, RecordVersion(s) \/ CommitStep(s) \/ EndCall(s)
  PROVE  BranchInv'
<1>1. /\ s \in there /\ seen' = seen /\ flow' = flow /\ paused' = paused /\ awake' = awake
      /\ spoken' = spoken /\ deciding' \subseteq deciding
  BY LinesThere DEF RecordVersion, CommitStep, EndCall
<1>2. PICK kind \in {"answer", "call", "outcome", "version"} :
        /\ Record(s, <<Turn(kind)>>)
        /\ RecordVersion(s) => kind = "version"
  BY DEF RecordVersion, CommitStep, EndCall
<1>3. /\ <<Turn(kind)>> \in Seq(Entries) /\ NewTo(Here[s], <<Turn(kind)>>, {s} \cup assets[s])
  BY TurnsAreNew
<1>4. /\ JournalsSound' /\ FlowsKeep /\ there' = there
      /\ own'[s] = own[s] \o <<Turn(kind)>> /\ Here'[s] = Here[s] \o <<Turn(kind)>>
      /\ \A t \in Lines \ {s} : own'[t] = own[t] /\ Here'[t] = Here[t]
  BY <1>1, <1>2, <1>3, Adding
<1>5. FlowsFine'
  BY <1>1, <1>4, FlowsStay, LinesThere
<1>6. RestartsWait'
  <2>1. paused' \subseteq there' /\ awake' \subseteq there' /\ deciding' \subseteq there'
    BY <1>1, <1>4, LinesThere
  <2>2. ASSUME NEW b \in Branches, Unspoken(b)'
        PROVE  b \notin deciding' /\ OnlyEnds(own'[b]) /\ (b \in paused' \/ ~Runnable(Here'[b]))
    <3>1. Unspoken(b)
      BY <1>1, <2>2 DEF Unspoken
    <3>2. b \notin deciding /\ OnlyEnds(own[b]) /\ b \in Lines
      BY <3>1, LinesThere DEF BranchInv, RestartsWait
    <3>3. CASE b # s
      BY <1>1, <1>4, <3>1, <3>2, <3>3, WaitsOn
    <3>4. CASE b = s
      <4>1. ~CommitStep(s)
        BY <3>2, <3>4 DEF CommitStep
      <4>2. ~EndCall(s)
        <5> DEFINE x == own[b]
        <5>1. x \in Seq(Entries) /\ OnlyEnds(x)
          BY <3>2, LinesThere
        <5> HIDE DEF x
        <5>2. DOMAIN x = 1..Len(x) /\ Len(x) \in Nat
          BY <5>1
        <5>3. Begun(x) = {}
          BY <5>1, <5>2 DEF Begun, OnlyEnds
        <5>4. Cardinality(Begun(x)) = 0
          BY <5>3, FS_EmptySet
        <5>5. Cardinality(Ended(x)) \in Nat
          <6>1. IsFiniteSet(1..Len(x))
            BY <5>2, FS_Interval
          <6>2. Ended(x) \subseteq 1..Len(x)
            BY <5>2 DEF Ended
          <6>3. IsFiniteSet(Ended(x))
            BY <6>1, <6>2, FS_Subset
          <6>4. QED
            BY <6>3, FS_CardinalityType
        <5>6. ~(Cardinality(Begun(x)) > Cardinality(Ended(x)))
          BY <5>4, <5>5
        <5>7. QED
          BY <3>4, <5>6 DEF EndCall, x
      <4>3. kind = "version"
        BY <1>2, <4>1, <4>2
      <4>4. Closing(<<Turn(kind)>>)
        BY <4>3 DEF Closing
      <4>5. QED
        BY <1>1, <1>3, <1>4, <3>1, <3>2, <3>4, <4>4, WaitsOn
    <3>5. QED
      BY <3>3, <3>4
  <2>3. QED
    BY <2>1, <2>2 DEF RestartsWait
<1> QED
  BY <1>4, <1>5, <1>6 DEF BranchInv

-------------------------------------------------------------------------------
\* Making a branch

\* What the Host does with a branch that has no name yet changes no Journal.
LEMMA Remaking ==
  ASSUME BranchInv, UNCHANGED journalFiles, NEW b \in Branches, b \notin there, NEW f \in Flows,
         flow' = [flow EXCEPT ![b] = f],
         seen' \in [Lines -> Seq(Entries)], \A c \in Lines \ {b} : seen'[c] = seen[c],
         FlowFine(f, b, there, Here, assets, seen'[b]),
         paused \subseteq paused', paused' \subseteq there, awake' = awake,
         deciding' \subseteq deciding, spoken' = spoken
  PROVE  BranchInv'
<1>1. /\ own' = own /\ there' = there /\ assets' = assets
      /\ \A c \in there \cap Branches : seen'[c] = seen[c]
  BY LinesThere DEF journalFiles
<1>2. JournalsSound' /\ Here' = Here
  BY <1>1, JournalsStay, LinesThere
<1>3. FlowsFine'
  <2>1. flow \in [Branches -> Flows]
    BY LinesThere DEF FlowsFine
  <2>2. flow' \in [Branches -> Flows] /\ flow'[b] = f /\ \A c \in Branches \ {b} : flow'[c] = flow[c]
    BY <2>1
  <2>3. ASSUME NEW c \in Branches
        PROVE  FlowFine(flow'[c], c, there', Here', assets', seen'[c])
    <3>1. CASE c = b
      BY <1>1, <1>2, <2>2, <3>1
    <3>2. CASE c # b
      <4>1. flow'[c] = flow[c] /\ seen'[c] = seen[c]
        BY <2>2, <3>2, LinesThere
      <4>2. FlowFine(flow[c], c, there, Here, assets, seen[c])
        BY LinesThere DEF FlowsFine
      <4>3. QED
        BY <1>1, <1>2, <4>1, <4>2
    <3>3. QED
      BY <3>1, <3>2
  <2>4. QED
    BY <2>2, <2>3 DEF FlowsFine
<1>4. RestartsWait'
  <2>1. paused' \subseteq there' /\ awake' \subseteq there' /\ deciding' \subseteq there'
    BY <1>1, LinesThere
  <2>2. ASSUME NEW c \in Branches, Unspoken(c)'
        PROVE  c \notin deciding' /\ OnlyEnds(own'[c]) /\ (c \in paused' \/ ~Runnable(Here'[c]))
    <3>1. c # b
      <4>1. f.at \notin {"named", "made"}
        BY DEF FlowFine
      <4>2. flow'[b] = f
        BY LinesThere DEF FlowsFine
      <4>3. QED
        BY <2>2, <4>1, <4>2 DEF Unspoken
    <3>2. flow'[c] = flow[c]
      BY <3>1, LinesThere DEF FlowsFine
    <3>3. Unspoken(c)
      BY <2>2, <3>2 DEF Unspoken
    <3>4. c \notin deciding'
      BY <3>3 DEF BranchInv, RestartsWait
    <3>5. c \in paused => c \in paused'
      OBVIOUS
    <3>6. QED
      BY <1>1, <1>2, <3>3, <3>4, <3>5, WaitsOn
  <2>3. QED
    BY <2>1, <2>2 DEF RestartsWait
<1> QED
  BY <1>2, <1>3, <1>4 DEF BranchInv

\* A turn ends in its history.
LEMMA TurnEnds ==
  ASSUME NEW h \in Seq(Entries), NEW i \in 1..Len(h)
  PROVE  TurnEnd(h, i) \in 0..Len(h)
<1> DEFINE later == {j \in i + 1..Len(h) : h[j].kind = "message"}
           first == CHOOSE j \in later : \A k \in later : j <= k
<1>1. Len(h) \in Nat
  OBVIOUS
<1>2. CASE later = {}
  BY <1>1, <1>2 DEF TurnEnd
<1>3. CASE later # {}
  <2>1. later \in SUBSET Nat
    BY <1>1
  <2>2. \E j \in later : \A k \in later : j <= k
    <3> HIDE DEF later
    <3>1. QED
      BY <1>3, <2>1, Flat!LeastNumber
  <2>3. first \in later
    <3> HIDE DEF later
    <3>1. QED
      BY <2>2
  <2>4. first - 1 \in 0..Len(h)
    <3> HIDE DEF first
    <3>1. QED
      BY <1>1, <2>3
  <2>5. TurnEnd(h, i) = first - 1
    BY <1>3 DEF TurnEnd
  <2>6. QED
    BY <2>4, <2>5
<1> QED
  BY <1>2, <1>3

\* A cut is at a place of the source's history.
LEMMA CutKeeps ==
  ASSUME BranchInv, NEW b \in Branches, NEW kind \in Kinds, NEW source \in there, b \notin there,
         NEW through \in 0..Len(Here[source]), NEW message \in Entries,
         kind = "edit" => message.owner \in {source} \cup assets[source],
         Cut(b, kind, source, through, message),
         UNCHANGED <<journalFiles, paused, awake, deciding, spoken>>
  PROVE  BranchInv'
<1> DEFINE f == [at |-> "cut", kind |-> kind, source |-> source, through |-> through,
                 message |-> message]
           h == Here[source]
           prefix == SubSeq(h, 1, through)
<1>1. source \in Lines /\ b \in Lines /\ h \in Seq(Entries) /\ through \in Nat
  BY LinesThere
<1>2. f \in Flows
  BY <1>1 DEF Flows
<1>3. flow' = [flow EXCEPT ![b] = f] /\ seen' = [seen EXCEPT ![b] = prefix]
  BY <1>1, HereIs DEF Cut
<1>4. prefix \in Seq(Entries)
  <2> HIDE DEF h
  <2>1. through \in 0..Len(h)
    BY DEF h
  <2>2. QED
    BY <1>1, <2>1
<1>5. /\ f.at = "cut" /\ f.kind = kind /\ f.source = source /\ f.through = through
      /\ f.message = message
  OBVIOUS
<1> HIDE DEF f, prefix
<1>6. /\ seen' \in [Lines -> Seq(Entries)] /\ seen'[b] = prefix
      /\ \A c \in Lines \ {b} : seen'[c] = seen[c]
  BY <1>1, <1>3, <1>4 DEF BranchInv, JournalsSound
<1>7. FlowFine(f, b, there, Here, assets, seen'[b])
  BY <1>5, <1>6 DEF FlowFine, prefix
<1>8. /\ UNCHANGED journalFiles /\ paused \subseteq paused' /\ paused' \subseteq there
      /\ awake' = awake /\ deciding' \subseteq deciding /\ spoken' = spoken
  BY LinesThere
<1> QED
  BY <1>2, <1>3, <1>6, <1>7, <1>8, Remaking

\* So does cutting a source for an edit or a turn
LEMMA CuttingKeeps ==
  ASSUME BranchInv, NEW b \in Branches, NEW source \in Lines \ {b},
         CutBeforeMessage(b, source) \/ CutAfterTurn(b, source)
  PROVE  BranchInv'
<1> DEFINE h == Here[source]
<1>1. /\ b \notin there /\ source \in there /\ h \in Seq(Entries) /\ History(source) = h
      /\ UNCHANGED <<journalFiles, paused, awake, deciding, spoken>>
  BY HereIs, LinesThere DEF CutBeforeMessage, CutAfterTurn, MayCut
<1> HIDE DEF h
<1>2. DOMAIN h = 1..Len(h) /\ Len(h) \in Nat
  BY <1>1
<1>3. \A i \in 1..Len(h) : h[i] \in Entries
  BY <1>1
<1>4. CASE CutBeforeMessage(b, source)
  <2>1. PICK i \in 1..Len(h) : h[i].kind = "message" /\ Cut(b, "edit", source, i - 1, h[i])
    BY <1>1, <1>2, <1>4 DEF CutBeforeMessage
  <2>2. i - 1 \in 0..Len(Here[source]) /\ h[i] \in Entries /\ "edit" \in Kinds
    BY <1>2, <1>3 DEF h, Kinds
  <2>3. h[i].owner \in {source} \cup assets[source]
    BY <1>1, <2>1 DEF h, BranchInv, JournalsSound, Sound
  <2>4. QED
    BY <1>1, <2>1, <2>2, <2>3, CutKeeps
<1>5. CASE CutAfterTurn(b, source)
  <2>1. PICK i \in 1..Len(h) : Cut(b, "turn", source, TurnEnd(h, i), h[i])
    BY <1>1, <1>2, <1>5 DEF CutAfterTurn
  <2>2. TurnEnd(h, i) \in 0..Len(Here[source])
    <3>1. TurnEnd(h, i) \in 0..Len(h)
      BY <1>1, TurnEnds
    <3>2. QED
      BY <3>1 DEF h
  <2>3. h[i] \in Entries /\ "turn" \in Kinds
    BY <1>3 DEF Kinds
  <2>4. QED
    BY <1>1, <2>1, <2>2, <2>3, CutKeeps
<1> QED
  BY <1>4, <1>5

\* cancelling a source to restart it
LEMMA BeginRestartKeeps ==
  ASSUME BranchInv, NEW b \in Branches, NEW source \in Lines \ {b}, BeginRestart(b, source)
  PROVE  BranchInv'
<1> DEFINE h == Here[source]
<1>1. /\ b \notin there /\ source \in there /\ h \in Seq(Entries) /\ History(source) = h
      /\ UNCHANGED journalFiles /\ seen' = seen /\ paused' = paused \cup {source}
      /\ awake' = awake /\ deciding' = deciding /\ spoken' = spoken
  BY HereIs, LinesThere DEF BeginRestart
<1> HIDE DEF h
<1>2. DOMAIN h = 1..Len(h) /\ Len(h) \in Nat
  BY <1>1
<1>3. PICK i \in 1..Len(h) :
        flow' = [flow EXCEPT ![b] = [at |-> "stopping", kind |-> "restart", source |-> source,
                                     through |-> i, message |-> h[i]]]
  BY <1>1, <1>2 DEF BeginRestart, Recorded
<1> DEFINE f == [at |-> "stopping", kind |-> "restart", source |-> source, through |-> i,
                 message |-> h[i]]
<1>4. f \in Flows
  <2>1. h[i] \in Entries /\ i \in Nat
    BY <1>1
  <2>2. QED
    BY <2>1 DEF Flows, Kinds
<1>5. f.at = "stopping" /\ f.source = source /\ f.through = i /\ i \in 0..Len(h)
  BY <1>2
<1>6. flow' = [flow EXCEPT ![b] = f]
  BY <1>3
<1> HIDE DEF f
<1>7. FlowFine(f, b, there, Here, assets, seen'[b])
  BY <1>1, <1>5 DEF FlowFine, h
<1>8. /\ seen' \in [Lines -> Seq(Entries)] /\ (\A c \in Lines \ {b} : seen'[c] = seen[c])
      /\ paused \subseteq paused' /\ paused' \subseteq there /\ deciding' \subseteq deciding
  BY <1>1, LinesThere DEF JournalsSound
<1> QED
  BY <1>1, <1>4, <1>6, <1>7, <1>8, Remaking

\* What is known of a branch that is being made
LEMMA BeingMade ==
  ASSUME BranchInv, NEW b \in Branches, flow[b].at \in {"stopping", "quieting", "cut"}
  PROVE  /\ b \notin there /\ flow[b].source \in there
         /\ flow[b].through \in 0..Len(Here[flow[b].source])
         /\ flow[b] \in [at : {"stopping", "quieting", "cut"}, kind : Kinds, source : Lines,
                         through : Nat, message : Entries]
         /\ FlowFine(flow[b], b, there, Here, assets, seen[b])
<1>1. flow[b] \in Flows /\ FlowFine(flow[b], b, there, Here, assets, seen[b])
  BY LinesThere DEF FlowsFine
<1>2. flow[b] \in [at : {"stopping", "quieting", "cut"}, kind : Kinds, source : Lines,
                   through : Nat, message : Entries]
  BY <1>1 DEF Flows, NoFlow
<1> QED
  BY <1>1, <1>2 DEF FlowFine

\* A branch that is given up
LEMMA GivingUpKeeps ==
  ASSUME BranchInv, NEW b \in Branches, b \notin there, flow' = [flow EXCEPT ![b] = NoFlow],
         UNCHANGED <<journalFiles, paused, awake, deciding, seen, spoken>>
  PROVE  BranchInv'
<1>1. NoFlow \in Flows /\ NoFlow.at = "none"
  BY DEF Flows, NoFlow
<1>2. FlowFine(NoFlow, b, there, Here, assets, seen'[b])
  BY <1>1 DEF FlowFine
<1>3. /\ UNCHANGED journalFiles /\ paused \subseteq paused' /\ paused' \subseteq there
      /\ awake' = awake /\ deciding' \subseteq deciding /\ spoken' = spoken
      /\ seen' \in [Lines -> Seq(Entries)] /\ \A c \in Lines \ {b} : seen'[c] = seen[c]
  BY LinesThere DEF JournalsSound
<1> QED
  BY <1>1, <1>2, <1>3, Remaking

\* and staging what was cut.
LEMMA StagingKeeps ==
  ASSUME BranchInv, NEW b \in Branches, CutAfterStep(b) \/ FailStaging(b)
  PROVE  BranchInv'
<1>1. CASE FailStaging(b)
  BY <1>1, BeingMade, GivingUpKeeps DEF FailStaging
<1>2. CASE CutAfterStep(b)
  <2> DEFINE source == flow[b].source
             through == flow[b].through
             message == flow[b].message
  <2>1. /\ b \notin there /\ source \in there /\ through \in 0..Len(Here[source])
        /\ message \in Entries
    BY <1>2, BeingMade DEF CutAfterStep
  <2>2. \/ flow' = [flow EXCEPT ![b] = NoFlow] /\ UNCHANGED seen
        \/ Cut(b, "restart", source, through, message)
    BY <1>2 DEF CutAfterStep
  <2>3. UNCHANGED <<journalFiles, paused, awake, deciding, spoken>>
    BY <1>2 DEF CutAfterStep
  <2>4. CASE flow' = [flow EXCEPT ![b] = NoFlow] /\ UNCHANGED seen
    BY <2>1, <2>3, <2>4, GivingUpKeeps
  <2>5. CASE Cut(b, "restart", source, through, message)
    <3>1. "restart" \in Kinds /\ ("restart" = "edit" => message.owner \in {source} \cup assets[source])
      BY DEF Kinds
    <3> HIDE DEF source, through, message
    <3>2. QED
      BY <2>1, <2>3, <2>5, <3>1, CutKeeps
  <2>6. QED
    BY <2>2, <2>4, <2>5
<1> QED
  BY <1>1, <1>2

\* The cancelled turn ends in a stop.
LEMMA CancelKeeps ==
  ASSUME BranchInv, NEW b \in Branches, CancelForRestart(b)
  PROVE  BranchInv'
<1> DEFINE source == flow[b].source
           f == [flow[b] EXCEPT !.at = "quieting"]
<1>1. /\ b \notin there /\ source \in there
      /\ flow[b] \in [at : {"stopping", "quieting", "cut"}, kind : Kinds, source : Lines,
                      through : Nat, message : Entries]
      /\ FlowFine(flow[b], b, there, Here, assets, seen[b]) /\ flow[b].at = "stopping"
  BY BeingMade DEF CancelForRestart
<1>2. /\ f \in Flows /\ f.at = "quieting" /\ f.source = source /\ f.through = flow[b].through
  BY <1>1 DEF Flows
<1>3. FlowFine(f, b, there, Here, assets, seen[b])
  BY <1>1, <1>2 DEF FlowFine
<1>4. /\ flow' = [flow EXCEPT ![b] = f] /\ seen' = seen /\ paused' = paused /\ awake' = awake
      /\ spoken' = spoken /\ deciding' = deciding \ {source}
  BY DEF CancelForRestart
<1>5. \/ Record(source, <<Turn("outcome"), Turn("stop")>>)
      \/ Record(source, <<Turn("stop")>>)
      \/ UNCHANGED journalFiles
  BY DEF CancelForRestart
<1> HIDE DEF source, f
<1>6. /\ <<Turn("stop")>> \in Seq(Entries) /\ <<Turn("outcome"), Turn("stop")>> \in Seq(Entries)
      /\ NewTo(Here[source], <<Turn("stop")>>, {source} \cup assets[source])
      /\ NewTo(Here[source], <<Turn("outcome"), Turn("stop")>>, {source} \cup assets[source])
  BY TurnsAreNew
<1>7. Closing(<<Turn("stop")>>) /\ Closing(<<Turn("outcome"), Turn("stop")>>)
  <2> DEFINE x == Turn("outcome")
             y == Turn("stop")
  <2>1. x.kind = "outcome" /\ y.kind = "stop"
    BY DEF Turn
  <2> HIDE DEF x, y
  <2>2. /\ <<y>> # <<>> /\ Len(<<y>>) = 1 /\ \A k \in 1..1 : <<y>>[k] = y
        /\ <<x, y>> # <<>> /\ Len(<<x, y>>) = 2 /\ <<x, y>>[2] = y
        /\ \A k \in 1..2 : <<x, y>>[k] = x \/ <<x, y>>[k] = y
    OBVIOUS
  <2>3. Closing(<<y>>) /\ Closing(<<x, y>>)
    BY <2>1, <2>2 DEF Closing
  <2>4. QED
    BY <2>3 DEF x, y
<1>8. /\ JournalsSound' /\ FlowsKeep /\ there' = there
      /\ \A c \in Lines :
           \/ own'[c] = own[c] /\ Here'[c] = Here[c]
           \/ \E events \in Seq(Entries) :
                /\ Closing(events)
                /\ own'[c] = own[c] \o events /\ Here'[c] = Here[c] \o events
  <2>1. ASSUME NEW events \in Seq(Entries), Closing(events), Record(source, events),
               NewTo(Here[source], events, {source} \cup assets[source])
        PROVE  <1>8!:
    <3>1. /\ JournalsSound' /\ FlowsKeep /\ there' = there
          /\ own'[source] = own[source] \o events /\ Here'[source] = Here[source] \o events
          /\ \A t \in Lines \ {source} : own'[t] = own[t] /\ Here'[t] = Here[t]
      BY <1>1, <1>4, <2>1, Adding
    <3>2. ASSUME NEW c \in Lines
          PROVE  \/ own'[c] = own[c] /\ Here'[c] = Here[c]
                 \/ \E e \in Seq(Entries) :
                      /\ Closing(e)
                      /\ own'[c] = own[c] \o e /\ Here'[c] = Here[c] \o e
      <4>1. CASE c = source
        BY <2>1, <3>1, <4>1
      <4>2. CASE c # source
        BY <3>1, <4>2
      <4>3. QED
        BY <4>1, <4>2
    <3>3. QED
      BY <3>1, <3>2
  <2>2. CASE UNCHANGED journalFiles
    BY <1>4, <2>2, Staying
  <2>3. CASE Record(source, <<Turn("outcome"), Turn("stop")>>)
    BY <1>6, <1>7, <2>1, <2>3
  <2>4. CASE Record(source, <<Turn("stop")>>)
    BY <1>6, <1>7, <2>1, <2>4
  <2>5. QED
    BY <1>5, <2>2, <2>3, <2>4
<1>9. /\ flow \in [Branches -> Flows] /\ flow' \in [Branches -> Flows] /\ flow'[b] = f
      /\ \A c \in Branches \ {b} : flow'[c] = flow[c]
  BY <1>2, <1>4, LinesThere DEF FlowsFine
<1>10. FlowsFine'
  <2>1. ASSUME NEW c \in Branches
        PROVE  FlowFine(flow'[c], c, there', Here', assets', seen'[c])
    <3>1. FlowFine(flow'[c], c, there, Here, assets, seen[c])
      <4>1. CASE c = b
        BY <1>3, <1>9, <4>1
      <4>2. CASE c # b
        BY <1>9, <4>2, LinesThere DEF FlowsFine
      <4>3. QED
        BY <4>1, <4>2
    <3>2. QED
      BY <1>8, <3>1 DEF FlowsKeep
  <2>2. QED
    BY <1>9, <2>1 DEF FlowsFine
<1>11. RestartsWait'
  <2>1. paused' \subseteq there' /\ awake' \subseteq there' /\ deciding' \subseteq there'
    BY <1>4, <1>8, LinesThere
  <2>2. ASSUME NEW c \in Branches, Unspoken(c)'
        PROVE  c \notin deciding' /\ OnlyEnds(own'[c]) /\ (c \in paused' \/ ~Runnable(Here'[c]))
    <3>1. c # b
      BY <1>2, <1>9, <2>2 DEF Unspoken
    <3>2. Unspoken(c) /\ c \in Lines
      BY <1>4, <1>9, <2>2, <3>1, LinesThere DEF Unspoken
    <3>3. c \notin deciding'
      BY <1>4, <3>2 DEF BranchInv, RestartsWait
    <3>4. QED
      BY <1>4, <1>8, <3>2, <3>3, WaitsOn
  <2>3. QED
    BY <2>1, <2>2 DEF RestartsWait
<1> QED
  BY <1>8, <1>10, <1>11 DEF BranchInv

\* The new Journal reads what was cut, finds the attachments of it, and nothing else changes.
LEMMA Materialized ==
  ASSUME BranchInv, NEW b \in Branches, Materialize(b)
  PROVE  /\ JournalsSound' /\ there' = there \cup {b} /\ b \notin there /\ own' = own /\ seen' = seen
         /\ spoken' = spoken /\ OnlyEnds(own[b])
         /\ \A t \in Lines \ {b} : Here'[t] = Here[t] /\ assets'[t] = assets[t]
         /\ flow[b].source \in there
         /\ {flow[b].source} \cup assets[flow[b].source] \subseteq assets'[b]
<1> DEFINE source == flow[b].source
           through == flow[b].through
           list == HistoryThrough(source, through)
<1>1. /\ b \notin there /\ source \in there /\ through \in 0..Len(Here[source])
      /\ seen[b] = SubSeq(Here[source], 1, through)
  BY BeingMade DEF Materialize, FlowFine
<1>2. /\ there' = there \cup {b} /\ spans' = [spans EXCEPT ![b] = list]
      /\ assets' = [assets EXCEPT ![b] = AssetsFor(source)]
      /\ own' = own /\ seen' = seen /\ spoken' = spoken
  BY DEF Materialize
<1>3. /\ JournalsWhole(own, spans) /\ InPlace(own, spans, assets, there)
      /\ source \in Lines /\ b \in Lines /\ source # b
  BY <1>1, LinesThere DEF JournalsSound
<1>4. /\ own[b] = <<>> /\ spans[b] = <<>>
      /\ \A t \in Lines : \A i \in 1..Len(spans[t]) : spans[t][i].of # b
  BY <1>1, <1>3 DEF InPlace
<1>5. through \in Nat /\ Contiguous(spans[source])
      /\ through \in 0..Len(HistoryOf(own, spans, source))
  <2>1. Here[source] = HistoryOf(own, spans, source)
    BY <1>3 DEF Here, Histories
  <2>2. through \in Nat
    BY <1>1
  <2>3. QED
    BY <1>1, <1>3, <2>1, <2>2 DEF JournalsWhole
<1> HIDE DEF source, through
<1>6. CutOf(list, spans, source, through)
  BY <1>3, <1>5, ThroughFacts
<1> HIDE DEF list
<1> DEFINE sq == [spans EXCEPT ![b] = list]
<1>8. spans' = sq /\ sq[b] = list /\ \A t \in Lines \ {b} : sq[t] = spans[t]
  BY <1>2, <1>3 DEF JournalsWhole
<1>17. Begins(sq, spans, b, list)
  <2>1. list \in Seq(SpanRecords) /\ spans \in [Lines -> Seq(SpanRecords)]
    BY <1>3, <1>6 DEF CutOf, Contiguous, JournalsWhole
  <2>2. sq \in [Lines -> Seq(SpanRecords)]
    BY <2>1
  <2>3. QED
    BY <1>8, <2>2 DEF Begins
<1> HIDE DEF sq
<1>7. /\ JournalsWhole(own, sq)
      /\ HistoryOf(own, sq, b) = SubSeq(HistoryOf(own, spans, source), 1, through)
      /\ \A t \in Lines \ {b} : HistoryOf(own, sq, t) = HistoryOf(own, spans, t)
  BY <1>3, <1>4, <1>5, <1>6, <1>17, BranchHistory
<1>9. /\ JournalsWhole(own', spans') /\ Here'[b] = SubSeq(Here[source], 1, through)
      /\ \A t \in Lines \ {b} : Here'[t] = Here[t]
  <2>1. \A t \in Lines : Here[t] = HistoryOf(own, spans, t)
    BY DEF Here, Histories
  <2>2. own' = own /\ spans' = sq
    BY <1>2, <1>8
  <2>3. \A t \in Lines : Here'[t] = HistoryOf(own, sq, t)
    BY <2>2 DEF Here, Histories
  <2>4. QED
    BY <1>3, <1>7, <2>1, <2>2, <2>3
<1>10. /\ assets' \in [Lines -> SUBSET Lines] /\ assets'[b] = AssetsFor(source)
       /\ \A t \in Lines \ {b} : assets'[t] = assets[t]
  <2>1. \A i \in DOMAIN spans[source] : spans[source][i].of \in Lines
    <3>1. spans[source] \in Seq(SpanRecords)
      BY <1>3 DEF JournalsWhole
    <3>2. DOMAIN spans[source] = 1..Len(spans[source])
      BY <3>1
    <3>3. QED
      BY <1>3, <3>2, Places
  <2>2. AssetsFor(source) \subseteq Lines
    BY <1>3, <2>1, LinesThere DEF AssetsFor
  <2>3. QED
    BY <1>2, <1>3, <2>2, LinesThere
<1>11. {source} \cup assets[source] \subseteq assets'[b]
  BY <1>10 DEF AssetsFor
<1>12. InPlace(own', spans', assets', there')
  <2>1. \A i \in 1..Len(list) : list[i].of \in there
    BY <1>1, <1>3, <1>6 DEF CutOf, InPlace
  <2>2. \A s \in Lines : \A i \in 1..Len(sq[s]) : sq[s][i].of \in there
    BY <1>3, <1>8, <2>1 DEF InPlace
  <2>3. QED
    BY <1>2, <1>3, <1>8, <1>10, <2>2 DEF InPlace
<1>13. \A s \in there' : Sound(Here'[s], {s} \cup assets'[s])
  <2>1. Sound(Here'[b], {b} \cup assets'[b])
    <3> DEFINE h == Here[source]
               places == {source} \cup assets[source]
               more == {b} \cup assets'[b]
    <3>1. h \in Seq(Entries) /\ through \in 0..Len(h) /\ Sound(h, places) /\ places \subseteq more
      BY <1>1, <1>3, <1>11, LinesThere DEF JournalsSound, source, through
    <3> HIDE DEF h, places, more
    <3>2. Sound(SubSeq(h, 1, through), more)
      BY <3>1, SoundPrefix
    <3>3. QED
      BY <1>9, <3>2 DEF h, more
  <2>2. \A s \in there : s \in Lines \ {b} /\ Sound(Here[s], {s} \cup assets[s])
    BY <1>1, LinesThere DEF JournalsSound
  <2>3. QED
    BY <1>2, <1>9, <1>10, <2>1, <2>2
<1>14. \A c \in there' \cap Branches : Here'[c] = seen'[c] \o own'[c]
  <2>1. Here'[b] = seen'[b] \o own'[b]
    <3> DEFINE x == seen[b]
    <3>1. x \in Seq(Entries) /\ Here'[b] = x
      BY <1>1, <1>3, <1>9, LinesThere DEF JournalsSound, source, through
    <3>2. x \o <<>> = x
      BY <3>1
    <3>3. QED
      BY <1>2, <1>4, <3>1, <3>2
  <2>2. \A c \in there \cap Branches : c \in Lines \ {b} /\ Here[c] = seen[c] \o own[c]
    BY <1>1, LinesThere DEF JournalsSound
  <2>3. QED
    BY <1>2, <1>9, <2>1, <2>2
<1>15. JournalsSound'
  BY <1>2, <1>9, <1>12, <1>13, <1>14, LinesThere DEF JournalsSound
<1>16. OnlyEnds(own[b])
  <2>1. Len(own[b]) = 0
    BY <1>4
  <2>2. QED
    BY <2>1 DEF OnlyEnds
<1> QED
  BY <1>1, <1>2, <1>9, <1>10, <1>11, <1>15, <1>16 DEF source

\* What is known of the other branches stays so.
LEMMA OthersStay ==
  ASSUME BranchInv, NEW b \in Branches, Materialize(b), NEW c \in Branches \ {b}
  PROVE  FlowFine(flow[c], c, there', Here', assets', seen'[c])
<1>1. /\ there' = there \cup {b} /\ b \notin there /\ seen' = seen
      /\ \A t \in Lines \ {b} : Here'[t] = Here[t] /\ assets'[t] = assets[t]
  BY Materialized
<1>2. FlowFine(flow[c], c, there, Here, assets, seen[c])
  BY LinesThere DEF FlowsFine
<1>3. c \in Lines \ {b} /\ \A t \in there : t \in Lines \ {b}
  BY <1>1, LinesThere
<1>4. /\ c \in there' <=> c \in there
      /\ assets'[c] = assets[c] /\ seen'[c] = seen[c]
      /\ \A t \in there : t \in there' /\ Here'[t] = Here[t] /\ assets'[t] = assets[t]
  BY <1>1, <1>3
<1> QED
  BY <1>2, <1>4 DEF FlowFine

\* So do restarted branches that wait.
LEMMA OthersWait ==
  ASSUME BranchInv, NEW b \in Branches, Materialize(b), NEW c \in Branches \ {b}, Unspoken(c),
         c \in paused => c \in paused'
  PROVE  c \notin deciding /\ OnlyEnds(own'[c]) /\ (c \in paused' \/ ~Runnable(Here'[c]))
<1>1. own' = own /\ \A t \in Lines \ {b} : Here'[t] = Here[t]
  BY Materialized
<1>2. own'[c] = own[c] /\ Here'[c] = Here[c]
  BY <1>1, LinesThere
<1>3. OnlyEnds(own'[c]) /\ (c \in paused' \/ ~Runnable(Here'[c]))
  BY <1>2, WaitsOn
<1> QED
  BY <1>3 DEF BranchInv, RestartsWait

\* What is known of a branch when it gets its name
LEMMA NamedFine ==
  ASSUME BranchInv, NEW b \in Branches, Materialize(b)
  PROVE  /\ b \in there'
         /\ flow[b].kind \in Kinds /\ flow[b].message \in Entries
         /\ flow[b].kind = "edit" => flow[b].message.owner \in {b} \cup assets'[b]
<1>1. flow[b].at = "cut"
  BY DEF Materialize
<1>2. FlowFine(flow[b], b, there, Here, assets, seen[b])
      /\ flow[b].kind \in Kinds /\ flow[b].message \in Entries
  BY <1>1, BeingMade
<1>3. /\ there' = there \cup {b}
      /\ {flow[b].source} \cup assets[flow[b].source] \subseteq assets'[b]
  BY Materialized
<1> QED
  BY <1>1, <1>2, <1>3 DEF FlowFine

\* Publishing gives a name to a branch whose Journal is whole.
LEMMA PublishKeeps ==
  ASSUME BranchInv, NEW b \in Branches, Publish(b)
  PROVE  BranchInv'
<1> DEFINE f == [at |-> "named", kind |-> flow[b].kind, message |-> flow[b].message]
<1>1. /\ Materialize(b) /\ awake' = awake /\ deciding' = deciding
      /\ paused' = (IF flow[b].kind = "restart" THEN paused \cup {b} ELSE paused)
      /\ flow' = [flow EXCEPT ![b] = f]
  BY DEF Publish
<1>2. /\ JournalsSound' /\ there' = there \cup {b} /\ b \notin there /\ own' = own
      /\ spoken' = spoken /\ OnlyEnds(own[b])
  BY <1>1, Materialized
<1>3. /\ b \in there' /\ flow[b].kind \in Kinds /\ flow[b].message \in Entries
      /\ flow[b].kind = "edit" => flow[b].message.owner \in {b} \cup assets'[b]
  BY <1>1, NamedFine
<1>4. f \in Flows /\ f.at = "named" /\ f.kind = flow[b].kind /\ f.message = flow[b].message
  BY <1>3 DEF Flows
<1> HIDE DEF f
<1>5. /\ flow' \in [Branches -> Flows] /\ flow'[b] = f
      /\ \A c \in Branches \ {b} : flow'[c] = flow[c]
  BY <1>1, <1>4, LinesThere DEF FlowsFine
<1>6. FlowsFine'
  <2>1. FlowFine(f, b, there', Here', assets', seen'[b])
    BY <1>3, <1>4 DEF FlowFine
  <2>2. ASSUME NEW c \in Branches
        PROVE  FlowFine(flow'[c], c, there', Here', assets', seen'[c])
    <3>1. CASE c = b
      BY <1>5, <2>1, <3>1
    <3>2. CASE c # b
      BY <1>1, <1>5, <3>2, OthersStay
    <3>3. QED
      BY <3>1, <3>2
  <2>3. QED
    BY <1>5, <2>2 DEF FlowsFine
<1>7. RestartsWait'
  <2>1. paused' \subseteq there' /\ awake' \subseteq there' /\ deciding' \subseteq there'
    BY <1>1, <1>2, LinesThere
  <2>2. ASSUME NEW c \in Branches, Unspoken(c)'
        PROVE  c \notin deciding' /\ OnlyEnds(own'[c]) /\ (c \in paused' \/ ~Runnable(Here'[c]))
    <3>1. CASE c = b
      <4>1. flow[b].kind = "restart"
        BY <1>4, <1>5, <2>2, <3>1 DEF Unspoken
      <4>2. b \in paused' /\ b \notin deciding'
        BY <1>1, <1>2, <4>1, LinesThere
      <4>3. QED
        BY <1>2, <3>1, <4>2
    <3>2. CASE c # b
      <4>1. Unspoken(c)
        BY <1>2, <1>5, <2>2, <3>2 DEF Unspoken
      <4>2. c \in paused => c \in paused'
        BY <1>1
      <4>3. QED
        BY <1>1, <3>2, <4>1, <4>2, OthersWait
    <3>3. QED
      BY <3>1, <3>2
  <2>3. QED
    BY <2>1, <2>2 DEF RestartsWait
<1> QED
  BY <1>2, <1>6, <1>7 DEF BranchInv

\* Publishing, or dying before the branch is paused: the next Host pauses what would go on.
LEMMA PausedIs ==
  ASSUME BranchInv, there' \subseteq Lines, paused' = PausedAtStart
  PROVE  /\ paused \subseteq paused' /\ paused' \subseteq paused \cup there'
         /\ \A b \in there' : b \in paused' \/ ~Runnable(Here'[b])
<1>1. \A b \in there' : History(b)' = Here'[b]
  BY HereIs
<1>2. \A b \in there' : Runnable(History(b)') <=> Runnable(Here'[b])
  BY <1>1
<1> QED
  BY <1>2 DEF PausedAtStart

\* How far the Host was with a branch that had its name
LEMMA NamedOrMade ==
  ASSUME BranchInv, NEW b \in Branches
  PROVE  /\ b \in there <=> flow[b].at \in {"named", "made"}
         /\ flow[b].at \in {"named", "made"} => flow[b].kind \in Kinds
         /\ flow[b].at = "made" => flow[b] \in Flows
<1>1. flow[b] \in Flows /\ FlowFine(flow[b], b, there, Here, assets, seen[b])
  BY LinesThere DEF FlowsFine
<1>2. flow[b].at \in {"named", "made"} => flow[b].kind \in Kinds
  BY <1>1 DEF Flows, NoFlow
<1> QED
  BY <1>1, <1>2 DEF FlowFine

\* A Host that dies at the rename has named its branch, or has not.
LEMMA DiesAtRenameKeeps ==
  ASSUME BranchInv, NEW b \in Branches, DiesAtRename(b)
  PROVE  BranchInv'
<1>1. /\ Materialize(b) /\ awake' = {} /\ deciding' = {} /\ paused' = PausedAtStart
      /\ flow' = [c \in Branches |-> IF c = b \/ flow[c].at \in {"named", "made"}
                                     THEN [at |-> "made", kind |-> flow[c].kind] ELSE NoFlow]
  BY DEF DiesAtRename, HostGone
<1>2. /\ JournalsSound' /\ there' = there \cup {b} /\ b \notin there /\ own' = own
      /\ spoken' = spoken /\ OnlyEnds(own[b])
  BY <1>1, Materialized
<1>3. flow[b].kind \in Kinds
  BY <1>1, NamedFine
<1>4. there' \subseteq Lines /\ \A c \in Branches \ {b} : c \in there' <=> c \in there
  BY <1>2, LinesThere
<1>5. ASSUME NEW c \in Branches
      PROVE  /\ c \in there' => /\ flow'[c] \in Flows
                               /\ flow'[c].at = "made" /\ flow'[c].kind = flow[c].kind
             /\ c \notin there' => flow'[c] = NoFlow
  <2> DEFINE f == [at |-> "made", kind |-> flow[c].kind]
  <2>1. flow'[c] = IF c = b \/ flow[c].at \in {"named", "made"} THEN f ELSE NoFlow
    BY <1>1
  <2>2. flow[c].kind \in Kinds => f \in Flows /\ f.at = "made" /\ f.kind = flow[c].kind
    BY DEF Flows
  <2> HIDE DEF f
  <2>3. CASE c = b
    BY <1>2, <1>3, <2>1, <2>2, <2>3
  <2>4. CASE c # b
    BY <1>4, <2>1, <2>2, <2>4, NamedOrMade
  <2>5. QED
    BY <2>3, <2>4
<1>6. FlowsFine'
  <2>1. ASSUME NEW c \in Branches
        PROVE  flow'[c] \in Flows /\ FlowFine(flow'[c], c, there', Here', assets', seen'[c])
    <3>1. CASE c \in there'
      BY <1>5, <3>1 DEF FlowFine
    <3>2. CASE c \notin there'
      <4>1. NoFlow \in Flows /\ NoFlow.at = "none" /\ flow'[c] = NoFlow
        BY <1>5, <3>2 DEF Flows, NoFlow
      <4>2. QED
        BY <3>2, <4>1 DEF FlowFine
    <3>3. QED
      BY <3>1, <3>2
  <2>2. flow' = [c \in Branches |-> flow'[c]]
    BY <1>1
  <2>3. flow' \in [Branches -> Flows]
    BY <2>1, <2>2
  <2>4. QED
    BY <2>1, <2>3 DEF FlowsFine
<1>7. RestartsWait'
  <2>1. /\ paused \subseteq paused' /\ paused' \subseteq paused \cup there'
        /\ \A c \in there' : c \in paused' \/ ~Runnable(Here'[c])
    BY <1>1, <1>4, PausedIs
  <2>2. paused' \subseteq there' /\ awake' \subseteq there' /\ deciding' \subseteq there'
    BY <1>1, <1>2, <2>1, LinesThere
  <2>3. ASSUME NEW c \in Branches, Unspoken(c)'
        PROVE  c \notin deciding' /\ OnlyEnds(own'[c]) /\ (c \in paused' \/ ~Runnable(Here'[c]))
    <3>1. c \in there'
      BY <1>5, <2>3 DEF Unspoken, NoFlow
    <3>2. c \notin deciding' /\ (c \in paused' \/ ~Runnable(Here'[c]))
      BY <1>1, <2>1, <3>1
    <3>3. CASE c = b
      BY <1>2, <3>2, <3>3
    <3>4. CASE c # b
      <4>1. flow'[c].kind = flow[c].kind
        BY <1>5, <3>1
      <4>2. Unspoken(c)
        BY <1>2, <1>4, <2>3, <3>1, <3>4, <4>1, NamedOrMade DEF Unspoken
      <4>3. QED
        BY <1>1, <2>1, <3>2, <3>4, <4>2, OthersWait
    <3>5. QED
      BY <3>3, <3>4
  <2>4. QED
    BY <2>2, <2>3 DEF RestartsWait
<1> QED
  BY <1>2, <1>6, <1>7 DEF BranchInv

\* The next Host pauses the named branches that would go on, and drops the others.
LEMMA HostStartsAgainKeeps ==
  ASSUME BranchInv, HostStartsAgain
  PROVE  BranchInv'
<1>1. /\ UNCHANGED <<journalFiles, seen>> /\ spoken' = spoken /\ awake' = {} /\ deciding' = {}
      /\ paused' = PausedAtStart
      /\ flow' = [b \in Branches |->
           IF flow[b].at = "made" THEN flow[b] ELSE
           IF flow[b].at = "named" THEN [at |-> "made", kind |-> flow[b].kind] ELSE NoFlow]
  BY DEF HostStartsAgain, HostGone
<1>2. /\ JournalsSound' /\ FlowsKeep /\ there' = there /\ own' = own /\ Here' = Here
  BY <1>1, Staying
<1>3. ASSUME NEW c \in Branches
      PROVE  /\ c \in there => flow'[c] \in Flows /\ flow'[c].at = "made" /\ flow'[c].kind = flow[c].kind
             /\ c \notin there => flow'[c] = NoFlow
  <2>1. CASE flow[c].at = "made"
    BY <1>1, <2>1, NamedOrMade
  <2>2. CASE flow[c].at = "named"
    <3> DEFINE f == [at |-> "made", kind |-> flow[c].kind]
    <3>1. f \in Flows /\ f.at = "made" /\ f.kind = flow[c].kind
      BY <2>2, NamedOrMade DEF Flows
    <3> HIDE DEF f
    <3>2. flow'[c] = f /\ c \in there
      BY <1>1, <2>2, NamedOrMade DEF f
    <3>3. QED
      BY <3>1, <3>2
  <2>3. CASE flow[c].at \notin {"named", "made"}
    BY <1>1, <2>3, NamedOrMade
  <2>4. QED
    BY <2>1, <2>2, <2>3
<1>4. FlowsFine'
  <2>1. ASSUME NEW c \in Branches
        PROVE  flow'[c] \in Flows /\ FlowFine(flow'[c], c, there', Here', assets', seen'[c])
    <3>1. CASE c \in there
      BY <1>2, <1>3, <3>1 DEF FlowFine
    <3>2. CASE c \notin there
      <4>1. NoFlow \in Flows /\ NoFlow.at = "none" /\ flow'[c] = NoFlow
        BY <1>3, <3>2 DEF Flows, NoFlow
      <4>2. QED
        BY <1>2, <3>2, <4>1 DEF FlowFine
    <3>3. QED
      BY <3>1, <3>2
  <2>2. flow' = [c \in Branches |-> flow'[c]]
    BY <1>1
  <2>3. flow' \in [Branches -> Flows]
    BY <2>1, <2>2
  <2>4. QED
    BY <2>1, <2>3 DEF FlowsFine
<1>5. RestartsWait'
  <2>1. /\ paused \subseteq paused' /\ paused' \subseteq paused \cup there'
    BY <1>1, <1>2, PausedIs, LinesThere
  <2>2. paused' \subseteq there' /\ awake' \subseteq there' /\ deciding' \subseteq there'
    BY <1>1, <1>2, <2>1, LinesThere
  <2>3. ASSUME NEW c \in Branches, Unspoken(c)'
        PROVE  c \notin deciding' /\ OnlyEnds(own'[c]) /\ (c \in paused' \/ ~Runnable(Here'[c]))
    <3>1. c \in there
      BY <1>3, <2>3 DEF Unspoken, NoFlow
    <3>2. Unspoken(c)
      BY <1>1, <1>3, <2>3, <3>1, NamedOrMade DEF Unspoken
    <3>3. c \notin deciding' /\ (c \in paused => c \in paused')
      BY <1>1, <2>1
    <3>4. QED
      BY <1>2, <3>2, <3>3, WaitsOn
  <2>4. QED
    BY <2>2, <2>3 DEF RestartsWait
<1> QED
  BY <1>2, <1>4, <1>5 DEF BranchInv

\* The end of a branch: the first message of an edit, the pause of a restart
LEMMA FinishBranchKeeps ==
  ASSUME BranchInv, NEW b \in Branches, FinishBranch(b)
  PROVE  BranchInv'
<1> DEFINE f == [at |-> "made", kind |-> flow[b].kind]
<1>1. /\ flow[b].at = "named" /\ flow' = [flow EXCEPT ![b] = f] /\ deciding' = deciding /\ seen' = seen
  BY DEF FinishBranch
<1>2. /\ b \in there /\ flow[b].kind \in Kinds /\ flow[b] \in Flows
      /\ flow[b].kind = "edit" => flow[b].message.owner \in {b} \cup assets[b]
  BY <1>1, NamedOrMade, LinesThere DEF FlowsFine, FlowFine
<1>3. f \in Flows /\ f.at = "made" /\ f.kind = flow[b].kind
  BY <1>2 DEF Flows
<1> HIDE DEF f
<1>4. /\ JournalsSound' /\ FlowsKeep /\ there' = there
      /\ \A t \in Lines \ {b} : own'[t] = own[t] /\ Here'[t] = Here[t]
      /\ spoken \subseteq spoken' /\ awake' \subseteq awake \cup {b}
      /\ paused \ {b} \subseteq paused' /\ paused' \subseteq paused
      /\ flow[b].kind # "edit" => own' = own /\ Here' = Here /\ paused' = paused
  <2>1. CASE flow[b].kind = "edit"
    <3>1. PICK id \in Deliveries : AcceptInput(b, Message(id, flow[b].message.owner))
      BY <2>1 DEF FinishBranch
    <3> DEFINE message == Message(id, flow[b].message.owner)
    <3>2. /\ message \in Entries /\ message.kind = "message" /\ message.owner \in {b} \cup assets[b]
      BY <1>2, <2>1, LinesThere DEF Message, Entries
    <3>3. AcceptInput(b, message)
      BY <3>1
    <3> HIDE DEF message
    <3>4. /\ JournalsSound' /\ FlowsKeep /\ there' = there
          /\ \A t \in Lines \ {b} : own'[t] = own[t] /\ Here'[t] = Here[t]
      BY <1>1, <1>2, <3>2, <3>3, Accepting
    <3>5. QED
      BY <2>1, <3>3, <3>4 DEF AcceptInput
  <2>2. CASE flow[b].kind # "edit"
    <3>1. UNCHANGED <<journalFiles, seen>> /\ paused' = paused /\ spoken' = spoken
          /\ awake' \subseteq awake \cup {b}
      BY <1>1, <2>2 DEF FinishBranch
    <3>2. QED
      BY <2>2, <3>1, Staying
  <2>3. QED
    BY <2>1, <2>2
<1>5. /\ flow' \in [Branches -> Flows] /\ flow'[b] = f
      /\ \A c \in Branches \ {b} : flow'[c] = flow[c]
  BY <1>1, <1>3, LinesThere DEF FlowsFine
<1>6. FlowsFine'
  <2>1. FlowFine(f, b, there, Here, assets, seen[b])
    BY <1>2, <1>3 DEF FlowFine
  <2>2. ASSUME NEW c \in Branches
        PROVE  FlowFine(flow'[c], c, there', Here', assets', seen'[c])
    <3>1. FlowFine(flow'[c], c, there, Here, assets, seen[c])
      <4>1. CASE c = b
        BY <1>5, <2>1, <4>1
      <4>2. CASE c # b
        BY <1>5, <4>2, LinesThere DEF FlowsFine
      <4>3. QED
        BY <4>1, <4>2
    <3>2. QED
      BY <1>4, <3>1 DEF FlowsKeep
  <2>3. QED
    BY <1>5, <2>2 DEF FlowsFine
<1>7. RestartsWait'
  <2>1. paused' \subseteq there' /\ awake' \subseteq there' /\ deciding' \subseteq there'
    BY <1>1, <1>2, <1>4, LinesThere
  <2>2. ASSUME NEW c \in Branches, Unspoken(c)'
        PROVE  c \notin deciding' /\ OnlyEnds(own'[c]) /\ (c \in paused' \/ ~Runnable(Here'[c]))
    <3>1. Unspoken(c)
      <4>1. CASE c = b
        BY <1>1, <1>3, <1>4, <1>5, <2>2, <4>1 DEF Unspoken
      <4>2. CASE c # b
        BY <1>4, <1>5, <2>2, <4>2 DEF Unspoken
      <4>3. QED
        BY <4>1, <4>2
    <3>2. own'[c] = own[c] /\ Here'[c] = Here[c] /\ (c \in paused => c \in paused')
      <4>1. CASE c = b
        <5>1. flow[b].kind # "edit"
          BY <3>1, <4>1 DEF Unspoken
        <5>2. QED
          BY <1>4, <5>1
      <4>2. CASE c # b
        BY <1>4, <4>2, LinesThere
      <4>3. QED
        BY <4>1, <4>2
    <3>3. c \notin deciding'
      BY <1>1, <3>1 DEF BranchInv, RestartsWait
    <3>4. QED
      BY <3>1, <3>2, <3>3, WaitsOn
  <2>3. QED
    BY <2>1, <2>2 DEF RestartsWait
<1> QED
  BY <1>4, <1>6, <1>7 DEF BranchInv

-------------------------------------------------------------------------------
\* The Journals at the start
LEMMA BranchesBegin ==
  ASSUME BranchInit
  PROVE  BranchInv
<1>1. /\ own = [s \in Lines |-> <<>>] /\ spans = [s \in Lines |-> <<>>]
      /\ assets = [s \in Lines |-> {}] /\ there = {Root} /\ flow = [b \in Branches |-> NoFlow]
      /\ paused = {} /\ awake = {} /\ deciding = {} /\ seen = [s \in Lines |-> <<>>]
  BY DEF BranchInit
<1>2. <<>> \in Seq(Entries) /\ <<>> \in Seq(SpanRecords) /\ Len(<<>>) = 0 /\ 1..0 = {}
  OBVIOUS
<1>3. Root \in Lines /\ \A b \in Branches : b # Root
  BY BranchAssumption DEF Lines
<1>4. JournalsWhole(own, spans)
  BY <1>1, <1>2 DEF JournalsWhole, Contiguous
<1>5. InPlace(own, spans, assets, there)
  BY <1>1, <1>2, <1>3 DEF InPlace
<1>6. \A s \in Lines : Here[s] \in Seq(Entries) /\ Len(Here[s]) = 0
  <2> SUFFICES ASSUME NEW s \in Lines PROVE Here[s] \in Seq(Entries) /\ Len(Here[s]) = 0
    OBVIOUS
  <2>1. Len(Here[s]) = SpansEnd(spans[s]) + Len(own[s]) /\ Here[s] \in Seq(Entries)
    BY <1>4, HistoryCells DEF Here, Histories
  <2>2. SpansEnd(spans[s]) = 0 /\ Len(own[s]) = 0
    BY <1>1, <1>2 DEF SpansEnd
  <2>3. QED
    BY <2>1, <2>2
<1>7. \A s \in there : Sound(Here[s], {s} \cup assets[s])
  BY <1>1, <1>2, <1>3, <1>6 DEF Sound
<1>8. JournalsSound
  BY <1>1, <1>2, <1>3, <1>4, <1>5, <1>7 DEF JournalsSound
<1>9. NoFlow \in Flows /\ NoFlow.at = "none"
  BY DEF Flows, NoFlow
<1>10. FlowsFine
  BY <1>1, <1>3, <1>9 DEF FlowsFine, FlowFine
<1>11. RestartsWait
  BY <1>1, <1>9 DEF RestartsWait, Unspoken
<1> QED
  BY <1>8, <1>10, <1>11 DEF BranchInv

\* Every step leaves them sound.
LEMMA BranchStepKeeps ==
  ASSUME BranchInv, [BranchNext]_branchVars
  PROVE  BranchInv'
<1>1. CASE UNCHANGED branchVars
  BY <1>1 DEF branchVars, journalFiles, BranchInv, JournalsSound, FlowsFine, RestartsWait, Here,
              Unspoken
<1>2. ASSUME NEW s \in Lines,
             \/ \E id \in Deliveries : UserMessage(s, id)
             \/ SelectLine(s) \/ Continue(s) \/ RecordVersion(s) \/ BeginAdvance(s)
             \/ CommitStep(s) \/ EndCall(s)
      PROVE  BranchInv'
  BY <1>2, UserMessageKeeps, GoingOnKeeps, WorkingKeeps
<1>3. ASSUME NEW b \in Branches,
             \/ \E source \in Lines \ {b} :
                  CutBeforeMessage(b, source) \/ CutAfterTurn(b, source) \/ BeginRestart(b, source)
             \/ CancelForRestart(b) \/ CutAfterStep(b) \/ FailStaging(b) \/ Publish(b)
             \/ FinishBranch(b) \/ DiesAtRename(b)
      PROVE  BranchInv'
  BY <1>3, CuttingKeeps, BeginRestartKeeps, CancelKeeps, StagingKeeps, PublishKeeps,
     FinishBranchKeeps, DiesAtRenameKeeps
<1>4. CASE HostStartsAgain
  BY <1>4, HostStartsAgainKeeps
<1> QED
  BY <1>1, <1>2, <1>3, <1>4 DEF BranchNext

\* A delivery is of one message, so there are as many of one as of the other.
LEMMA OneMessageEach ==
  ASSUME NEW h \in Seq(Entries), NEW places, Sound(h, places)
  PROVE  LET messages == {i \in DOMAIN h : h[i].kind = "message"}
         IN Cardinality(messages) = Cardinality({h[i].id : i \in messages})
<1> DEFINE messages == {i \in DOMAIN h : h[i].kind = "message"}
           ids == {h[i].id : i \in messages}
           Id == [i \in messages |-> h[i].id]
<1>1. DOMAIN h = 1..Len(h) /\ Len(h) \in Nat
  OBVIOUS
<1>2. IsFiniteSet(messages)
  <2>1. IsFiniteSet(1..Len(h))
    BY <1>1, FS_Interval
  <2>2. messages \subseteq 1..Len(h)
    BY <1>1
  <2>3. QED
    BY <2>1, <2>2, FS_Subset
<1>3. Id \in Bijection(messages, ids)
  <2>1. \A i, j \in messages : Id[i] = Id[j] => i = j
    BY <1>1 DEF Sound
  <2>2. Id \in [messages -> ids] /\ \A x \in ids : \E i \in messages : Id[i] = x
    OBVIOUS
  <2>3. QED
    BY <2>1, <2>2 DEF Bijection, Injection, Surjection, IsInjective
<1> HIDE DEF messages, ids, Id
<1>4. Cardinality(ids) = Cardinality(messages)
  BY <1>2, <1>3, FS_Bijection DEF ExistsBijection
<1> QED
  BY <1>4 DEF messages, ids

\* The invariant says what the runs check.
LEMMA BranchesAreSoundOf ==
  ASSUME BranchInv
  PROVE  BranchesAreSound
<1>1. \A s \in Lines : History(s) = Here[s]
  BY HereIs
<1>2. BranchKeepsHistory
  BY <1>1, LinesThere DEF BranchKeepsHistory, JournalsSound
<1>3. DeliveredOnce
  <2> SUFFICES ASSUME NEW s \in there
               PROVE  LET messages == {i \in DOMAIN History(s) : History(s)[i].kind = "message"}
                      IN Cardinality(messages) = Cardinality(Delivered(s))
    BY DEF DeliveredOnce
  <2> DEFINE h == Here[s]
  <2>1. h \in Seq(Entries) /\ Sound(h, {s} \cup assets[s]) /\ History(s) = h
    BY <1>1, LinesThere DEF JournalsSound
  <2> HIDE DEF h
  <2>2. Cardinality({i \in DOMAIN h : h[i].kind = "message"})
          = Cardinality({h[i].id : i \in {j \in DOMAIN h : h[j].kind = "message"}})
    BY <2>1, OneMessageEach
  <2>3. QED
    BY <2>1, <2>2 DEF Delivered
<1>4. AttachmentsReachable
  <2> SUFFICES ASSUME NEW s \in there, NEW i \in DOMAIN History(s), History(s)[i].kind = "message"
               PROVE  History(s)[i].owner \in {s} \cup assets[s]
    BY DEF AttachmentsReachable
  <2> DEFINE h == Here[s]
  <2>1. h \in Seq(Entries) /\ Sound(h, {s} \cup assets[s]) /\ History(s) = h
    BY <1>1, LinesThere DEF JournalsSound
  <2> HIDE DEF h
  <2>2. i \in 1..Len(h)
    BY <2>1
  <2>3. QED
    BY <2>1, <2>2 DEF Sound
<1>5. RestartWaits
  <2> SUFFICES ASSUME NEW b \in there \cap Branches, Unspoken(b), NEW i \in DOMAIN own[b]
               PROVE  own[b][i].kind \notin {"answer", "call"}
    BY DEF RestartWaits, Unspoken
  <2> DEFINE x == own[b]
  <2>1. x \in Seq(Entries) /\ OnlyEnds(x)
    BY LinesThere DEF BranchInv, RestartsWait
  <2> HIDE DEF x
  <2>2. DOMAIN x = 1..Len(x)
    BY <2>1
  <2>3. \A k \in DOMAIN x : x[k].kind \notin {"answer", "call"}
    BY <2>1, <2>2 DEF OnlyEnds
  <2>4. QED
    BY <2>3 DEF x
<1> QED
  BY <1>2, <1>3, <1>4, <1>5 DEF BranchesAreSound

(* A branch reads for ever what it was cut from, holds no delivery twice,  *)
(* finds the attachments it shows, and waits for a human when it was       *)
(* restarted, however deep the branches of branches and however long the   *)
(* histories.                                                              *)
THEOREM BranchesStaySound == BranchSpec => []BranchesAreSound
<1>1. BranchInit => BranchInv
  BY BranchesBegin
<1>2. BranchInv /\ [BranchNext]_branchVars => BranchInv'
  BY BranchStepKeeps
<1>3. BranchInv => BranchesAreSound
  BY BranchesAreSoundOf
<1> QED
  BY <1>1, <1>2, <1>3, PTL DEF BranchSpec

==============================================================================
