------------------------ MODULE SessionJournalProofs ------------------------
(***************************************************************************)
(* What holds of SessionJournal for every set of facts, commands, tokens   *)
(* and callers and every bound on the log, and that it implements EventLog.*)
(***************************************************************************)
EXTENDS SessionJournal, FiniteSetTheorems, TLAPS

-------------------------------------------------------------------------------
\* Type correctness.

\* The rows of the tables that hold no value yet have the type of their table.
LEMMA EmptyRowsTyped ==
  /\ NoCommandRow \in CommandRows
  /\ NoAttemptRow \in AttemptRows
BY DEF NoCommandRow, NoAttemptRow, CommandRows, AttemptRows

\* Appending an event that is one of Events keeps the log a log, leaves its
\* earlier events where they were and puts the new one at the next position.
LEMMA AppendFacts ==
  ASSUME log \in Seq(Events), NEW e \in Events, AppendEvent(e)
  PROVE  /\ log' \in Seq(Events)
         /\ Len(log') = Len(log) + 1
         /\ Len(log') <= MaxEvents
         /\ NextPosition \in Positions
         /\ NextPosition \notin 1..Len(log)
         /\ \A i \in 1..Len(log) : log'[i] = log[i]
         /\ log'[NextPosition] = e
BY BoundAssumption DEF AppendEvent, NextPosition, Positions

\* A lease that was handed out is a lease.
LEMMA HandedOutLeasesTyped ==
  ASSUME leases \in Seq(HandedOut), NEW n \in 1..Len(leases)
  PROVE  leases[n].lease \in Leases /\ leases[n].at \in Nat
<1>1. leases[n] \in HandedOut
  OBVIOUS
<1>2. QED
  BY <1>1 DEF HandedOut

\* A transaction leaves well-formed rows in every table.
LEMMA TypeStep == JournalTypeOK /\ [JournalNext]_journalVars => JournalTypeOK'
<1> SUFFICES ASSUME JournalTypeOK, [JournalNext]_journalVars
             PROVE  JournalTypeOK'
  OBVIOUS
<1> USE DEF JournalTypeOK
<1>1. ASSUME NEW d \in Facts, AcceptDelivery(d)
      PROVE  JournalTypeOK'
  <2>1. [kind |-> "fact", delivery |-> d] \in Events
    BY DEF Events, FactEvents
  <2>2. QED
    BY <1>1, <2>1, AppendFacts DEF AcceptDelivery
<1>2. ASSUME NEW r \in Requests, NEW k \in Tokens, NEW w \in Owners, AcquireStep(r, k, w)
      PROVE  JournalTypeOK'
  <2>1. NextGeneration \in Nat
    BY DEF NextGeneration, ClaimRows, Leases
  <2> DEFINE lease == [request |-> r, token |-> k, owner |-> w, generation |-> NextGeneration]
  <2>2. lease \in Leases
    BY <2>1 DEF Leases
  <2>3. stepClaims' \in SUBSET ClaimRows
    BY <1>2, <2>2 DEF AcquireStep, ClaimRows
  <2>4. leases' \in Seq(HandedOut)
    BY <1>2, <2>2 DEF AcquireStep, HandedOut
  <2>5. QED
    BY <1>2, <2>3, <2>4 DEF AcquireStep
<1>3. ASSUME NEW l \in Leases, ReleaseStep(l)
      PROVE  JournalTypeOK'
  BY <1>3 DEF ReleaseStep
<1>4. ASSUME NEW l \in Leases, RenewStep(l)
      PROVE  JournalTypeOK'
  BY <1>4 DEF RenewStep, ClaimRows
<1>5. CASE ExpireStep
  BY <1>5 DEF ExpireStep, ClaimRows
<1>6. ASSUME NEW l \in Leases, NEW cs \in SUBSET Commands, CommitStep(l, cs)
      PROVE  JournalTypeOK'
  <2>1. [kind |-> "step", request |-> l.request, commands |-> cs] \in Events
    BY DEF Events, StepEvents, Leases
  <2>2. /\ log' \in Seq(Events)
        /\ Len(log') <= MaxEvents
        /\ NextPosition \in Positions
    BY <1>6, <2>1, AppendFacts DEF CommitStep
  <2>3. \A c \in Commands : IssuedRow(c, NextPosition) \in CommandRows
    BY <2>2 DEF IssuedRow, NoCommandRow, CommandRows
  <2>4. QED
    BY <1>6, <2>2, <2>3 DEF CommitStep
<1>7. ASSUME NEW t \in Positions, CancelDecision(t)
      PROVE  JournalTypeOK'
  <2>1. [kind |-> "cancel", trigger |-> t] \in Events
    BY DEF Events, CancelEvents
  <2>2. QED
    BY <1>7, <2>1, AppendFacts DEF CancelDecision, ClaimsSurvivingCancel
<1>8. ASSUME NEW s \in Positions, CancelContinuation(s)
      PROVE  JournalTypeOK'
  <2>1. [kind |-> "stop", step |-> s] \in Events
    BY DEF Events, StopEvents
  <2>2. QED
    BY <1>8, <2>1, AppendFacts DEF CancelContinuation
<1>9. ASSUME NEW c \in Commands, Grant(c) \/ Reject(c)
      PROVE  JournalTypeOK'
  <2>1. commandRows[c].issued \in Positions
    BY <1>9 DEF Grant, Reject, AwaitsVerdict, CommandRows
  <2>2. /\ [kind |-> "grant", command |-> c, cause |-> commandRows[c].issued] \in Events
        /\ [kind |-> "reject", command |-> c, cause |-> commandRows[c].issued] \in Events
    BY <2>1 DEF Events, GrantEvents, RejectEvents
  <2>3. /\ log' \in Seq(Events)
        /\ Len(log') <= MaxEvents
        /\ NextPosition \in Positions
    BY <1>9, <2>2, AppendFacts DEF Grant, Reject
  <2>4. commandRows[c] \in CommandRows
    OBVIOUS
  <2>5. /\ [commandRows[c] EXCEPT !.eligible = NextPosition] \in CommandRows
        /\ [commandRows[c] EXCEPT !.rejected = NextPosition] \in CommandRows
    BY <2>3, <2>4 DEF CommandRows
  <2>6. CASE Grant(c)
    <3>1. commandRows' \in [Commands -> CommandRows]
      BY <2>5, <2>6 DEF Grant
    <3>2. QED
      BY <2>3, <2>6, <3>1 DEF Grant
  <2>7. CASE Reject(c)
    <3>1. commandRows' \in [Commands -> CommandRows]
      BY <2>5, <2>7 DEF Reject
    <3>2. QED
      BY <2>3, <2>7, <3>1 DEF Reject
  <2>8. QED
    BY <1>9, <2>6, <2>7
<1>10. ASSUME NEW c \in Commands, NEW cause \in Positions, NEW n \in 1..2,
              StartAttempt(c, cause, n)
       PROVE  JournalTypeOK'
  <2>1. [kind |-> "attempt", command |-> c, number |-> n, cause |-> cause] \in Events
    BY DEF Events, AttemptEvents
  <2>2. /\ log' \in Seq(Events)
        /\ Len(log') <= MaxEvents
        /\ NextPosition \in Positions
    BY <1>10, <2>1, AppendFacts DEF StartAttempt
  <2>3. /\ commandRows[c] \in CommandRows
        /\ Started(commandRows[c]) \in CommandRows
    BY DEF Started, CommandRows
  <2>4. [command |-> c, number |-> n, held |-> TRUE, terminal |-> None] \in AttemptRows
    BY DEF AttemptRows
  <2>5. QED
    BY <1>10, <2>2, <2>3, <2>4 DEF StartAttempt
<1>11. ASSUME NEW a \in Positions, ReleaseAttempt(a)
       PROVE  JournalTypeOK'
  BY <1>11 DEF ReleaseAttempt, AttemptRows
<1>12. ASSUME NEW a \in Positions, NEW result \in Results, RecordOutcome(a, result)
       PROVE  JournalTypeOK'
  <2> DEFINE c == attemptRows[a].command
  <2>1. c \in Commands
    BY <1>12 DEF RecordOutcome, AttemptRows
  <2>2. [kind |-> "outcome", command |-> c, attempt |-> a, result |-> result] \in Events
    BY <2>1 DEF Events, OutcomeEvents
  <2>3. /\ log' \in Seq(Events)
        /\ Len(log') <= MaxEvents
        /\ NextPosition \in Positions
    BY <1>12, <2>2, AppendFacts DEF RecordOutcome
  <2>4. Concluded(commandRows[c], NextPosition) \in CommandRows
    <3>1. commandRows[c] \in CommandRows
      BY <2>1
    <3>2. [commandRows[c] EXCEPT !.outcome = NextPosition, !.eligible = None] \in CommandRows
      BY <2>3, <3>1 DEF CommandRows
    <3>3. QED
      BY <3>1, <3>2 DEF Concluded
  <2>5. commandRows' \in [Commands -> CommandRows]
    BY <1>12, <2>1, <2>4 DEF RecordOutcome
  <2>6. [attemptRows[a] EXCEPT !.terminal = NextPosition, !.held = FALSE] \in AttemptRows
    BY <2>3 DEF AttemptRows
  <2>7. attemptRows' \in [Positions -> AttemptRows]
    BY <1>12, <2>6 DEF RecordOutcome
  <2>8. QED
    BY <1>12, <2>3, <2>5, <2>7 DEF RecordOutcome
<1>13. CASE UNCHANGED journalVars
  BY <1>13 DEF journalVars
<1>14. QED
  BY <1>1, <1>2, <1>3, <1>4, <1>5, <1>6, <1>7, <1>8, <1>9, <1>10, <1>11, <1>12, <1>13,
     HandedOutLeasesTyped
     DEF JournalNext, ClaimAction, DecisionAction, CommandAction

\* The empty Journal has the types of its schema.
LEMMA TypeInit == JournalInit => JournalTypeOK
BY EmptyRowsTyped, BoundAssumption DEF JournalInit, JournalTypeOK, Positions

\* Every transaction leaves well-formed rows in every table.
THEOREM TypeCorrect == JournalSpec => []JournalTypeOK
BY TypeInit, TypeStep, PTL DEF JournalSpec

-------------------------------------------------------------------------------
\* What a table says of the log survives an event that is not about the table.

\* The recorded positions after an event: those before it, unchanged, and its own.
LEMMA RecordedAfterAppend ==
  ASSUME JournalTypeOK, NEW e \in Events, AppendEvent(e)
  PROVE  /\ NextPosition \in Positions
         /\ ~Recorded(NextPosition)
         /\ log'[NextPosition] = e
         /\ \A i \in Positions : Recorded(i)' <=> Recorded(i) \/ i = NextPosition
         /\ \A i \in Positions : Recorded(i) => log'[i] = log[i]
         /\ \A i : Recorded(i) => i \in Positions /\ i < NextPosition
         /\ \A i \in Positions : i # None
<1>1. log \in Seq(Events)
  BY DEF JournalTypeOK
<1>2. QED
  BY <1>1, AppendFacts, BoundAssumption DEF AppendEvent, Recorded, NextPosition, Positions, None

\* An event that consumes no trigger leaves the consumption rows in agreement with the log.
LEMMA KeepsConsumptions ==
  ASSUME JournalTypeOK, ConsumptionsMatchLog,
         NEW e \in Events, AppendEvent(e), consumed' = consumed,
         e.kind \notin {"step", "cancel"}
  PROVE  ConsumptionsMatchLog'
BY RecordedAfterAppend DEF ConsumptionsMatchLog, Consumes

\* An event that stops no continuation leaves the rows of the stopped Steps in agreement.
LEMMA KeepsStops ==
  ASSUME JournalTypeOK, StopsMatchLog,
         NEW e \in Events, AppendEvent(e), stopped' = stopped,
         e.kind # "stop"
  PROVE  StopsMatchLog'
BY RecordedAfterAppend DEF StopsMatchLog

\* A fact, a cancellation and a stop are about no command: the command rows still agree.
LEMMA KeepsCommandRows ==
  ASSUME JournalTypeOK, CommandRowsMatchLog,
         NEW e \in Events, AppendEvent(e), commandRows' = commandRows,
         e.kind \in {"fact", "cancel", "stop"}
  PROVE  CommandRowsMatchLog'
<1> SUFFICES ASSUME NEW c \in Commands, NEW i \in Positions
             PROVE  /\ commandRows[c].issued = i <=> (Recorded(i) /\ Issues(i, c))'
                    /\ commandRows[c].rejected = i <=> (Recorded(i) /\ IsAbout(i, "reject", c))'
                    /\ commandRows[c].outcome = i <=> (Recorded(i) /\ IsAbout(i, "outcome", c))'
                    /\ commandRows[c].eligible = i <=>
                         /\ Recorded(i)'
                         /\ IsEligibility(i, c)'
                         /\ \A j \in Positions : ~(Recorded(j) /\ IsAbout(j, "attempt", c))'
  BY DEF CommandRowsMatchLog
<1>1. \A j \in Positions :
        /\ (Recorded(j) /\ Issues(j, c))' <=> Recorded(j) /\ Issues(j, c)
        /\ \A kind \in {"grant", "reject", "attempt", "outcome"} :
             (Recorded(j) /\ IsAbout(j, kind, c))' <=> Recorded(j) /\ IsAbout(j, kind, c)
  BY RecordedAfterAppend DEF Issues, IsAbout
<1>2. (Recorded(i) /\ IsEligibility(i, c))' <=> Recorded(i) /\ IsEligibility(i, c)
  BY <1>1 DEF IsEligibility
<1>3. QED
  BY <1>1, <1>2 DEF CommandRowsMatchLog

\* Only an attempt and an outcome are about the attempt rows.
LEMMA KeepsAttemptRows ==
  ASSUME JournalTypeOK, AttemptRowsMatchLog,
         NEW e \in Events, AppendEvent(e), attemptRows' = attemptRows,
         e.kind \notin {"attempt", "outcome"}
  PROVE  AttemptRowsMatchLog'
<1>1. \A i \in Positions :
        /\ \A c \in Commands :
             (Recorded(i) /\ IsAbout(i, "attempt", c))' <=> Recorded(i) /\ IsAbout(i, "attempt", c)
        /\ \A a \in Positions : (Recorded(i) /\ Ends(i, a))' <=> Recorded(i) /\ Ends(i, a)
  BY RecordedAfterAppend DEF IsAbout, Ends
<1>2. QED
  BY <1>1 DEF AttemptRowsMatchLog

\* Only an outcome ends an attempt.
LEMMA KeepsOutcomes ==
  ASSUME JournalTypeOK, OutcomesEndAttempts,
         NEW e \in Events, AppendEvent(e), attemptRows' = attemptRows,
         e.kind # "outcome"
  PROVE  OutcomesEndAttempts'
BY RecordedAfterAppend DEF OutcomesEndAttempts

\* A claim that is kept, or dropped, is still the newest, unless its trigger is cancelled.
LEMMA KeepsClaim ==
  ASSUME JournalTypeOK, ClaimIsNewest,
         NEW e \in Events, AppendEvent(e), stepClaims' \subseteq stepClaims, leases' = leases,
         e.kind # "cancel"
  PROVE  ClaimIsNewest'
<1>1. \A c \in stepClaims' : c \in stepClaims /\ c.lease.request.trigger \in Positions
  BY DEF JournalTypeOK, ClaimRows, Leases, Requests
<1>2. \A c \in stepClaims' : Recorded(c.lease.request.trigger)'
  BY <1>1, RecordedAfterAppend DEF ClaimIsNewest
<1>3. QED
  BY <1>1, <1>2, RecordedAfterAppend DEF ClaimIsNewest

\* The rows of the commands and attempts among themselves.
RowsAgree == RowsBeginWithIssue /\ AttemptIsUnique /\ RejectionIsFinal

\* Command and attempt rows that stay as they are agree as before.
LEMMA KeepsRows ==
  ASSUME RowsAgree, UNCHANGED <<commandRows, attemptRows>>
  PROVE  RowsAgree'
BY DEF RowsAgree, RowsBeginWithIssue, AttemptIsUnique, RejectionIsFinal, AttemptsOf

-------------------------------------------------------------------------------
\* The inductive invariant, transaction by transaction.

\* TablesMatchLog and JournalBookkeeping, by the tables they are about.
Bookkeeping ==
  /\ ConsumptionsMatchLog /\ StopsMatchLog /\ CommandRowsMatchLog /\ AttemptRowsMatchLog
  /\ RowsAgree /\ OutcomesEndAttempts /\ ClaimIsNewest

\* The events the transactions append are events.
LEMMA EventsTyped ==
  /\ \A d \in Facts : [kind |-> "fact", delivery |-> d] \in Events
  /\ \A r \in Requests, cs \in SUBSET Commands :
       [kind |-> "step", request |-> r, commands |-> cs] \in Events
  /\ \A t \in Positions : [kind |-> "cancel", trigger |-> t] \in Events
  /\ \A t \in Positions : [kind |-> "stop", step |-> t] \in Events
  /\ \A c \in Commands, s \in Positions :
       /\ [kind |-> "grant", command |-> c, cause |-> s] \in Events
       /\ [kind |-> "reject", command |-> c, cause |-> s] \in Events
  /\ \A c \in Commands, n \in Nat, s \in Positions :
       [kind |-> "attempt", command |-> c, number |-> n, cause |-> s] \in Events
  /\ \A c \in Commands, a \in Positions, result \in Results :
       [kind |-> "outcome", command |-> c, attempt |-> a, result |-> result] \in Events
BY DEF Events, FactEvents, StepEvents, CancelEvents, StopEvents, GrantEvents, RejectEvents,
       AttemptEvents, OutcomeEvents

\* A delivered fact adds an event and no row.
LEMMA AcceptDeliveryKeeps ==
  ASSUME JournalTypeOK, Bookkeeping, NEW d \in Facts, AcceptDelivery(d)
  PROVE  Bookkeeping'
<1> DEFINE e == [kind |-> "fact", delivery |-> d]
<1>1. e \in Events /\ e.kind = "fact" /\ AppendEvent(e)
  BY EventsTyped DEF AcceptDelivery
<1>2. UNCHANGED <<stepClaims, consumed, commandRows, attemptRows, stopped, leases>>
  BY DEF AcceptDelivery
<1> HIDE DEF e
<1>3. ConsumptionsMatchLog' /\ StopsMatchLog'
  BY <1>1, <1>2, KeepsConsumptions, KeepsStops DEF Bookkeeping
<1>4. CommandRowsMatchLog' /\ AttemptRowsMatchLog'
  BY <1>1, <1>2, KeepsCommandRows, KeepsAttemptRows DEF Bookkeeping
<1>5. RowsAgree' /\ OutcomesEndAttempts' /\ ClaimIsNewest'
  BY <1>1, <1>2, KeepsRows, KeepsOutcomes, KeepsClaim DEF Bookkeeping
<1>6. QED
  BY <1>3, <1>4, <1>5 DEF Bookkeeping

\* A transaction on step_claims alone leaves the other tables and the log agreeing.
LEMMA ClaimTablesKeep ==
  ASSUME Bookkeeping, ClaimIsNewest',
         UNCHANGED <<log, consumed, commandRows, attemptRows, stopped>>
  PROVE  Bookkeeping'
<1>1. ConsumptionsMatchLog' /\ StopsMatchLog'
  BY DEF Bookkeeping, ConsumptionsMatchLog, StopsMatchLog, Recorded, Consumes
<1>2. CommandRowsMatchLog'
  BY DEF Bookkeeping, CommandRowsMatchLog, Recorded, Issues, IsAbout, IsEligibility
<1>3. AttemptRowsMatchLog' /\ OutcomesEndAttempts'
  BY DEF Bookkeeping, AttemptRowsMatchLog, OutcomesEndAttempts, Recorded, IsAbout, Ends
<1>4. RowsAgree'
  BY KeepsRows DEF Bookkeeping
<1>5. QED
  BY <1>1, <1>2, <1>3, <1>4 DEF Bookkeeping

\* A lease that is handed out is newer than all there were.
LEMMA AcquireStepKeeps ==
  ASSUME JournalTypeOK, Bookkeeping,
         NEW r \in Requests, NEW k \in Tokens, NEW w \in Owners, AcquireStep(r, k, w)
  PROVE  Bookkeeping'
<1> DEFINE h == [lease |-> [request |-> r, token |-> k, owner |-> w,
                            generation |-> NextGeneration],
                 at |-> Len(log)]
<1>1. /\ leases \in Seq(HandedOut)
      /\ leases' = Append(leases, h)
      /\ stepClaims' = {[lease |-> h.lease, live |-> TRUE]}
  BY DEF JournalTypeOK, AcquireStep
<1>2. /\ h.lease.token = k /\ h.at = Len(log)
      /\ h.lease.request = r /\ Recorded(r.trigger)
  BY DEF AcquireStep, Claimable
<1> HIDE DEF h
<1>3. /\ Len(leases') = Len(leases) + 1
      /\ leases'[Len(leases')] = h
      /\ DOMAIN leases' = 1..Len(leases')
      /\ DOMAIN leases = 1..Len(leases)
      /\ \A n \in DOMAIN leases : leases'[n] = leases[n]
      /\ \A n \in DOMAIN leases' : n \in DOMAIN leases \/ n = Len(leases')
  BY <1>1
<1>4. \A n \in DOMAIN leases : leases[n].lease.token # k
  BY <1>3 DEF AcquireStep, FreshToken
<1>5. \A m, n \in DOMAIN leases' : leases'[m].lease.token = leases'[n].lease.token => m = n
  BY <1>2, <1>3, <1>4 DEF Bookkeeping, ClaimIsNewest
<1>6. \A i \in Positions : Recorded(i) => i <= h.at
  BY <1>2 DEF Recorded
<1>7. \A c \in stepClaims' : c.lease = h.lease
  BY <1>1
<1>8. UNCHANGED <<log, consumed, commandRows, attemptRows, stopped>>
  BY DEF AcquireStep
<1>9. leases' # <<>>
  BY <1>1
<1>10. ClaimIsNewest'
  BY <1>2, <1>3, <1>5, <1>6, <1>7, <1>8, <1>9 DEF ClaimIsNewest, Recorded
<1>11. QED
  BY <1>8, <1>10, ClaimTablesKeep

\* Releasing, renewing and expiring change the claims only.
LEMMA OtherClaimActionsKeep ==
  ASSUME JournalTypeOK, Bookkeeping, NEW l \in Leases,
         ReleaseStep(l) \/ RenewStep(l) \/ ExpireStep
  PROVE  Bookkeeping'
<1>1. UNCHANGED <<log, consumed, commandRows, attemptRows, stopped, leases>>
  BY DEF ReleaseStep, RenewStep, ExpireStep
<1>2. \A c \in stepClaims' : \E b \in stepClaims : c.lease = b.lease
  <2>1. CASE ReleaseStep(l)
    BY <2>1 DEF ReleaseStep
  <2>2. CASE RenewStep(l)
    BY <2>2 DEF RenewStep, Holds
  <2>3. CASE ExpireStep
    BY <2>3 DEF ExpireStep, JournalTypeOK, ClaimRows
  <2>4. QED
    BY <2>1, <2>2, <2>3
<1>3. ClaimIsNewest'
  BY <1>1, <1>2 DEF Bookkeeping, ClaimIsNewest, Recorded
<1>4. QED
  BY <1>1, <1>3, ClaimTablesKeep

\* A command without a row has left no trace in the log.
LEMMA UnissuedIsUnknown ==
  ASSUME JournalTypeOK, Bookkeeping, NEW c \in Commands, commandRows[c].issued = None
  PROVE  /\ commandRows[c] = NoCommandRow
         /\ AttemptsOf(c) = {}
         /\ \A i \in Positions :
              Recorded(i) =>
                /\ ~Issues(i, c)
                /\ ~IsEligibility(i, c)
                /\ \A kind \in {"reject", "attempt", "outcome"} : ~IsAbout(i, kind, c)
<1>1. commandRows[c] = NoCommandRow /\ AttemptsOf(c) = {}
  BY DEF Bookkeeping, RowsAgree, RowsBeginWithIssue
<1>2. \A i \in Positions : i # None
  BY DEF Positions, None
<1>3. \A i \in Positions : Recorded(i) =>
        ~Issues(i, c) /\ ~IsAbout(i, "reject", c) /\ ~IsAbout(i, "outcome", c)
  BY <1>1, <1>2 DEF Bookkeeping, CommandRowsMatchLog, NoCommandRow
<1>4. \A i \in Positions : Recorded(i) => ~IsAbout(i, "attempt", c)
  BY <1>1 DEF Bookkeeping, AttemptRowsMatchLog, AttemptsOf
<1>5. \A i \in Positions : Recorded(i) => ~IsEligibility(i, c)
  BY <1>1, <1>2, <1>4 DEF Bookkeeping, CommandRowsMatchLog, NoCommandRow
<1>6. QED
  BY <1>1, <1>3, <1>4, <1>5

\* A Step consumes its trigger and gives every command of it a row, in one transaction.
LEMMA CommitStepKeeps ==
  ASSUME JournalTypeOK, Bookkeeping,
         NEW l \in Leases, NEW cs \in SUBSET Commands, CommitStep(l, cs)
  PROVE  Bookkeeping'
<1> DEFINE e == [kind |-> "step", request |-> l.request, commands |-> cs]
<1>1. e \in Events /\ AppendEvent(e)
  BY EventsTyped DEF CommitStep, Leases
<1>2. e.kind = "step" /\ e.request = l.request /\ e.commands = cs
  OBVIOUS
<1>3. /\ UNCHANGED <<attemptRows, stopped, leases>>
      /\ stepClaims' \subseteq stepClaims
  BY DEF CommitStep
<1>4. l.request.trigger \in Positions
  BY DEF Leases, Requests
<1> HIDE DEF e
<1>5. /\ consumed[l.request.trigger] = None
      /\ consumed' = [consumed EXCEPT ![l.request.trigger] = NextPosition]
      /\ consumed \in [Positions -> Positions \cup {None}]
  BY DEF CommitStep, Open, JournalTypeOK
<1>6. /\ \A c \in cs : commandRows[c].issued = None
      /\ \A c \in Commands :
           commandRows'[c] = IF c \in cs THEN IssuedRow(c, NextPosition) ELSE commandRows[c]
  BY DEF CommitStep
<1>7. ConsumptionsMatchLog'
  BY <1>1, <1>2, <1>4, <1>5, RecordedAfterAppend DEF Bookkeeping, ConsumptionsMatchLog, Consumes
<1>8. \A c \in Commands, i \in Positions :
        /\ (Recorded(i) /\ Issues(i, c))'
             <=> (Recorded(i) /\ Issues(i, c)) \/ (i = NextPosition /\ c \in cs)
        /\ \A kind \in {"grant", "reject", "attempt", "outcome"} :
             (Recorded(i) /\ IsAbout(i, kind, c))' <=> Recorded(i) /\ IsAbout(i, kind, c)
  BY <1>1, <1>2, RecordedAfterAppend DEF Issues, IsAbout
<1>9. \A c \in Commands, i \in Positions :
        (Recorded(i) /\ IsEligibility(i, c))'
          <=> \/ Recorded(i) /\ IsEligibility(i, c)
              \/ i = NextPosition /\ c \in cs /\ c \notin NeedsAuthorization
  BY <1>8 DEF IsEligibility
<1>10. CommandRowsMatchLog'
  <2> SUFFICES ASSUME NEW c \in Commands, NEW i \in Positions
               PROVE  /\ commandRows'[c].issued = i <=> (Recorded(i) /\ Issues(i, c))'
                      /\ commandRows'[c].rejected = i
                           <=> (Recorded(i) /\ IsAbout(i, "reject", c))'
                      /\ commandRows'[c].outcome = i
                           <=> (Recorded(i) /\ IsAbout(i, "outcome", c))'
                      /\ commandRows'[c].eligible = i <=>
                           /\ (Recorded(i) /\ IsEligibility(i, c))'
                           /\ \A j \in Positions :
                                ~ (Recorded(j) /\ IsAbout(j, "attempt", c))'
    BY DEF CommandRowsMatchLog
  <2>1. CASE c \in cs
    <3>1. commandRows'[c] = IssuedRow(c, NextPosition)
      BY <2>1, <1>6
    <3>2. /\ commandRows'[c].issued = NextPosition
          /\ commandRows'[c].rejected = None
          /\ commandRows'[c].outcome = None
          /\ commandRows'[c].eligible =
               IF c \in NeedsAuthorization THEN None ELSE NextPosition
      BY <3>1 DEF IssuedRow, NoCommandRow
    <3>3. \A j \in Positions : Recorded(j) =>
            /\ ~Issues(j, c)
            /\ ~IsEligibility(j, c)
            /\ \A kind \in {"reject", "attempt", "outcome"} : ~IsAbout(j, kind, c)
      BY <2>1, <1>6, UnissuedIsUnknown
    <3>4. i # None
      BY DEF Positions, None
    <3>5. QED
      BY <2>1, <3>2, <3>3, <3>4, <1>8, <1>9
  <2>2. CASE c \notin cs
    BY <2>2, <1>6, <1>8, <1>9 DEF Bookkeeping, CommandRowsMatchLog
  <2>3. QED
    BY <2>1, <2>2
<1>11. RowsAgree'
  <2>1. \A c \in Commands : AttemptsOf(c)' = AttemptsOf(c)
    BY <1>3 DEF AttemptsOf
  <2>2. \A c \in cs : commandRows'[c].issued # None /\ commandRows'[c].rejected = None
    BY <1>1, <1>6, RecordedAfterAppend DEF IssuedRow, NoCommandRow
  <2>3. QED
    BY <1>3, <1>6, <2>1, <2>2
       DEF Bookkeeping, RowsAgree, RowsBeginWithIssue, AttemptIsUnique, RejectionIsFinal
<1>12. StopsMatchLog' /\ AttemptRowsMatchLog'
  BY <1>1, <1>2, <1>3, KeepsStops, KeepsAttemptRows DEF Bookkeeping
<1>13. OutcomesEndAttempts' /\ ClaimIsNewest'
  BY <1>1, <1>2, <1>3, KeepsOutcomes, KeepsClaim DEF Bookkeeping
<1>14. QED
  BY <1>7, <1>10, <1>11, <1>12, <1>13 DEF Bookkeeping

\* A cancelled trigger is consumed, and its claim is gone.
LEMMA CancelDecisionKeeps ==
  ASSUME JournalTypeOK, Bookkeeping, NEW t \in Positions, CancelDecision(t)
  PROVE  Bookkeeping'
<1> DEFINE e == [kind |-> "cancel", trigger |-> t]
<1>1. e \in Events /\ e.kind = "cancel" /\ e.trigger = t /\ AppendEvent(e)
  BY EventsTyped DEF CancelDecision
<1>2. /\ UNCHANGED <<commandRows, attemptRows, stopped, leases>>
      /\ stepClaims' = {}
      /\ consumed' = [consumed EXCEPT ![t] = NextPosition]
      /\ consumed[t] = None
      /\ consumed \in [Positions -> Positions \cup {None}]
  BY DEF CancelDecision, ClaimsSurvivingCancel, Open, JournalTypeOK
<1> HIDE DEF e
<1>3. ConsumptionsMatchLog'
  BY <1>1, <1>2, RecordedAfterAppend DEF Bookkeeping, ConsumptionsMatchLog, Consumes
<1>4. ClaimIsNewest'
  BY <1>2 DEF Bookkeeping, ClaimIsNewest
<1>5. StopsMatchLog' /\ CommandRowsMatchLog' /\ AttemptRowsMatchLog'
  BY <1>1, <1>2, KeepsStops, KeepsCommandRows, KeepsAttemptRows DEF Bookkeeping
<1>6. RowsAgree' /\ OutcomesEndAttempts'
  BY <1>1, <1>2, KeepsRows, KeepsOutcomes DEF Bookkeeping
<1>7. QED
  BY <1>3, <1>4, <1>5, <1>6 DEF Bookkeeping

\* A stopped Step has a row, and no other row changes.
LEMMA CancelContinuationKeeps ==
  ASSUME JournalTypeOK, Bookkeeping, NEW s \in Positions, CancelContinuation(s)
  PROVE  Bookkeeping'
<1> DEFINE e == [kind |-> "stop", step |-> s]
<1>1. e \in Events /\ e.kind = "stop" /\ e.step = s /\ AppendEvent(e)
  BY EventsTyped DEF CancelContinuation
<1>2. /\ UNCHANGED <<stepClaims, consumed, commandRows, attemptRows, leases>>
      /\ stopped' = [stopped EXCEPT ![s] = NextPosition]
      /\ stopped[s] = None
      /\ stopped \in [Positions -> Positions \cup {None}]
  BY DEF CancelContinuation, JournalTypeOK
<1> HIDE DEF e
<1>3. StopsMatchLog'
  BY <1>1, <1>2, RecordedAfterAppend DEF Bookkeeping, StopsMatchLog
<1>4. ConsumptionsMatchLog' /\ CommandRowsMatchLog' /\ AttemptRowsMatchLog'
  BY <1>1, <1>2, KeepsConsumptions, KeepsCommandRows, KeepsAttemptRows DEF Bookkeeping
<1>5. RowsAgree' /\ OutcomesEndAttempts' /\ ClaimIsNewest'
  BY <1>1, <1>2, KeepsRows, KeepsOutcomes, KeepsClaim DEF Bookkeeping
<1>6. QED
  BY <1>3, <1>4, <1>5 DEF Bookkeeping

\* No attempt of a command means no event of one.
LEMMA Unattempted ==
  ASSUME Bookkeeping, NEW c \in Commands, AttemptsOf(c) = {}
  PROVE  \A i \in Positions : ~ (Recorded(i) /\ IsAbout(i, "attempt", c))
BY DEF Bookkeeping, AttemptRowsMatchLog, AttemptsOf

\* A grant or a rejection is an event and the state of one command row.
LEMMA VerdictKeeps ==
  ASSUME JournalTypeOK, Bookkeeping, NEW c \in Commands, Grant(c) \/ Reject(c)
  PROVE  Bookkeeping'
<1> DEFINE kind == IF Grant(c) THEN "grant" ELSE "reject"
           e == [kind |-> kind, command |-> c, cause |-> commandRows[c].issued]
           Verdict(d, k) == d = c /\ k = kind
<1>1. commandRows[c].issued \in Positions
  BY DEF Grant, Reject, AwaitsVerdict, JournalTypeOK, CommandRows
<1>2. e \in Events /\ AppendEvent(e)
  BY <1>1, EventsTyped DEF Grant, Reject
<1>3. e.kind = kind /\ e.command = c /\ kind \in {"grant", "reject"}
  OBVIOUS
<1>4. UNCHANGED <<stepClaims, consumed, attemptRows, stopped, leases>>
  BY DEF Grant, Reject
<1>5. /\ commandRows[c].issued # None
      /\ commandRows[c].eligible = None
      /\ commandRows[c].rejected = None
      /\ AttemptsOf(c) = {}
  BY DEF Grant, Reject, AwaitsVerdict
<1>6. commandRows' = [commandRows EXCEPT
                        ![c].eligible = IF kind = "grant" THEN NextPosition ELSE @,
                        ![c].rejected = IF kind = "reject" THEN NextPosition ELSE @]
  BY DEF Grant, Reject, JournalTypeOK, CommandRows
<1>7. /\ \A d \in Commands \ {c} : commandRows'[d] = commandRows[d]
      /\ commandRows'[c].issued = commandRows[c].issued
      /\ commandRows'[c].outcome = commandRows[c].outcome
      /\ commandRows'[c].eligible = IF kind = "grant" THEN NextPosition ELSE None
      /\ commandRows'[c].rejected = IF kind = "reject" THEN NextPosition ELSE None
  BY <1>5, <1>6 DEF JournalTypeOK, CommandRows
<1> HIDE DEF e, kind
<1>8. \A d \in Commands, i \in Positions :
        /\ (Recorded(i) /\ Issues(i, d))' <=> Recorded(i) /\ Issues(i, d)
        /\ \A k \in {"attempt", "outcome"} :
             (Recorded(i) /\ IsAbout(i, k, d))' <=> Recorded(i) /\ IsAbout(i, k, d)
        /\ \A k \in {"grant", "reject"} :
             (Recorded(i) /\ IsAbout(i, k, d))'
               <=> (Recorded(i) /\ IsAbout(i, k, d)) \/ (i = NextPosition /\ Verdict(d, k))
  BY <1>2, <1>3, RecordedAfterAppend DEF Issues, IsAbout
<1>9. \A d \in Commands, i \in Positions :
        (Recorded(i) /\ IsEligibility(i, d))'
          <=> (Recorded(i) /\ IsEligibility(i, d)) \/ (i = NextPosition /\ Verdict(d, "grant"))
  BY <1>8 DEF IsEligibility
<1>10. CommandRowsMatchLog'
  <2> SUFFICES ASSUME NEW d \in Commands, NEW i \in Positions
               PROVE  /\ commandRows'[d].issued = i <=> (Recorded(i) /\ Issues(i, d))'
                      /\ commandRows'[d].rejected = i
                           <=> (Recorded(i) /\ IsAbout(i, "reject", d))'
                      /\ commandRows'[d].outcome = i
                           <=> (Recorded(i) /\ IsAbout(i, "outcome", d))'
                      /\ commandRows'[d].eligible = i <=>
                           /\ (Recorded(i) /\ IsEligibility(i, d))'
                           /\ \A j \in Positions :
                                ~ (Recorded(j) /\ IsAbout(j, "attempt", d))'
    BY DEF CommandRowsMatchLog
  <2>1. i # None
    BY DEF Positions, None
  <2>2. CASE d = c
    <3>1. \A j \in Positions : ~ (Recorded(j) /\ IsAbout(j, "attempt", c))
      BY <1>5, Unattempted
    <3>2. ~ (Recorded(i) /\ IsEligibility(i, c)) /\ ~ (Recorded(i) /\ IsAbout(i, "reject", c))
      BY <1>5, <2>1, <3>1 DEF Bookkeeping, CommandRowsMatchLog
    <3>3. QED
      BY <1>3, <1>5, <1>7, <1>8, <1>9, <2>1, <2>2, <3>1, <3>2
         DEF Bookkeeping, CommandRowsMatchLog
  <2>3. CASE d # c
    BY <2>3, <1>7, <1>8, <1>9 DEF Bookkeeping, CommandRowsMatchLog
  <2>4. QED
    BY <2>2, <2>3
<1>11. RowsAgree'
  <2>1. \A d \in Commands : AttemptsOf(d)' = AttemptsOf(d)
    BY <1>4 DEF AttemptsOf
  <2>2. QED
    BY <1>3, <1>4, <1>5, <1>7, <2>1
       DEF Bookkeeping, RowsAgree, RowsBeginWithIssue, AttemptIsUnique, RejectionIsFinal
<1>12. ConsumptionsMatchLog' /\ StopsMatchLog' /\ AttemptRowsMatchLog'
  BY <1>2, <1>3, <1>4, KeepsConsumptions, KeepsStops, KeepsAttemptRows DEF Bookkeeping
<1>13. OutcomesEndAttempts' /\ ClaimIsNewest'
  BY <1>2, <1>3, <1>4, KeepsOutcomes, KeepsClaim DEF Bookkeeping
<1>14. QED
  BY <1>10, <1>11, <1>12, <1>13 DEF Bookkeeping

\* The fields of a recorded outcome.
LEMMA OutcomesTyped ==
  ASSUME JournalTypeOK, NEW i \in Positions, Recorded(i), log[i].kind = "outcome"
  PROVE  log[i].command \in Commands /\ log[i].attempt \in Positions
<1>1. log[i] \in Events
  BY DEF JournalTypeOK, Recorded
<1>2. QED
  BY <1>1 DEF Events, FactEvents, StepEvents, GrantEvents, RejectEvents, AttemptEvents,
              OutcomeEvents, CancelEvents, StopEvents

\* An eligible command has not been attempted: this is what makes starting it
\* twice impossible, whoever tries.
LEMMA EligibleIsUnattempted ==
  ASSUME JournalTypeOK, Bookkeeping, NEW c \in Commands, commandRows[c].eligible # None
  PROVE  AttemptsOf(c) = {} /\ commandRows[c].rejected = None
<1>1. commandRows[c].eligible \in Positions
  BY DEF JournalTypeOK, CommandRows
<1>2. \A j \in Positions : ~ (Recorded(j) /\ IsAbout(j, "attempt", c))
  BY <1>1 DEF Bookkeeping, CommandRowsMatchLog
<1>3. AttemptsOf(c) = {}
  BY <1>2 DEF Bookkeeping, AttemptRowsMatchLog, AttemptsOf
<1>4. QED
  BY <1>3 DEF Bookkeeping, RowsAgree, RejectionIsFinal

\* An attempt takes a row of its own, under a cause that made its command eligible.
LEMMA StartAttemptKeeps ==
  ASSUME JournalTypeOK, Bookkeeping,
         NEW c \in Commands, NEW cause \in Positions, NEW n \in 1..2, StartAttempt(c, cause, n)
  PROVE  Bookkeeping'
<1> DEFINE e == [kind |-> "attempt", command |-> c, number |-> n, cause |-> cause]
           row == [command |-> c, number |-> n, held |-> TRUE, terminal |-> None]
<1>1. e \in Events /\ AppendEvent(e)
  BY EventsTyped DEF StartAttempt
<1>2. e.kind = "attempt" /\ e.command = c /\ row.command = c /\ row.terminal = None
  OBVIOUS
<1>3. /\ UNCHANGED <<stepClaims, consumed, stopped, leases>>
      /\ attemptRows' = [attemptRows EXCEPT ![NextPosition] = row]
      /\ commandRows' = [commandRows EXCEPT ![c] = Started(@)]
      /\ attemptRows \in [Positions -> AttemptRows]
      /\ commandRows \in [Commands -> CommandRows]
  BY DEF StartAttempt, JournalTypeOK
<1> HIDE DEF e, row
<1>4. /\ NextPosition \in Positions
      /\ attemptRows'[NextPosition] = row
      /\ \A a \in Positions \ {NextPosition} : attemptRows'[a] = attemptRows[a]
  BY <1>1, <1>3, RecordedAfterAppend
<1>5. /\ commandRows'[c].issued = commandRows[c].issued
      /\ commandRows'[c].rejected = commandRows[c].rejected
      /\ commandRows'[c].outcome = commandRows[c].outcome
      /\ commandRows'[c].eligible = None
      /\ \A d \in Commands \ {c} : commandRows'[d] = commandRows[d]
  BY <1>3 DEF Started, CommandRows
<1>6. /\ commandRows[c].issued # None
      /\ AttemptsOf(c) = {}
      /\ commandRows[c].rejected = None
  BY EligibleIsUnattempted DEF StartAttempt, Startable
<1>7. \A d \in Commands, i \in Positions :
        /\ (Recorded(i) /\ Issues(i, d))' <=> Recorded(i) /\ Issues(i, d)
        /\ (Recorded(i) /\ IsAbout(i, "attempt", d))'
             <=> (Recorded(i) /\ IsAbout(i, "attempt", d)) \/ (i = NextPosition /\ d = c)
        /\ \A k \in {"grant", "reject", "outcome"} :
             (Recorded(i) /\ IsAbout(i, k, d))' <=> Recorded(i) /\ IsAbout(i, k, d)
  BY <1>1, <1>2, RecordedAfterAppend DEF Issues, IsAbout
<1>8. \A d \in Commands, i \in Positions :
        (Recorded(i) /\ IsEligibility(i, d))' <=> Recorded(i) /\ IsEligibility(i, d)
  BY <1>7 DEF IsEligibility
<1>9. \A a, i \in Positions : (Recorded(i) /\ Ends(i, a))' <=> Recorded(i) /\ Ends(i, a)
  BY <1>1, <1>2, RecordedAfterAppend DEF Ends
<1>10. CommandRowsMatchLog'
  <2> SUFFICES ASSUME NEW d \in Commands, NEW i \in Positions
               PROVE  /\ commandRows'[d].issued = i <=> (Recorded(i) /\ Issues(i, d))'
                      /\ commandRows'[d].rejected = i
                           <=> (Recorded(i) /\ IsAbout(i, "reject", d))'
                      /\ commandRows'[d].outcome = i
                           <=> (Recorded(i) /\ IsAbout(i, "outcome", d))'
                      /\ commandRows'[d].eligible = i <=>
                           /\ (Recorded(i) /\ IsEligibility(i, d))'
                           /\ \A j \in Positions :
                                ~ (Recorded(j) /\ IsAbout(j, "attempt", d))'
    BY DEF CommandRowsMatchLog
  <2>1. i # None
    BY DEF Positions, None
  <2>2. CASE d = c
    <3>1. \E j \in Positions : (Recorded(j) /\ IsAbout(j, "attempt", c))'
      BY <1>4, <1>7
    <3>2. QED
      BY <1>4, <1>5, <1>7, <2>1, <2>2, <3>1 DEF Bookkeeping, CommandRowsMatchLog
  <2>3. CASE d # c
    BY <2>3, <1>5, <1>7, <1>8 DEF Bookkeeping, CommandRowsMatchLog
  <2>4. QED
    BY <2>2, <2>3
<1>11. \A i \in Positions : ~ (Recorded(i) /\ Ends(i, NextPosition))
  <2> SUFFICES ASSUME NEW i \in Positions, Recorded(i), Ends(i, NextPosition)
               PROVE  FALSE
    OBVIOUS
  <2>1. log[i].command \in Commands
    BY OutcomesTyped DEF Ends
  <2>2. attemptRows[NextPosition].command = log[i].command
    BY DEF Bookkeeping, OutcomesEndAttempts, Ends
  <2>3. Recorded(NextPosition)
    BY <1>4, <2>1, <2>2 DEF Bookkeeping, AttemptRowsMatchLog
  <2>4. QED
    BY <1>1, <2>3, RecordedAfterAppend
<1>12. AttemptRowsMatchLog'
  <2> SUFFICES ASSUME NEW a \in Positions
               PROVE  /\ \A d \in Commands :
                           attemptRows'[a].command = d
                             <=> (Recorded(a) /\ IsAbout(a, "attempt", d))'
                      /\ \A i \in Positions :
                           attemptRows'[a].terminal = i <=> (Recorded(i) /\ Ends(i, a))'
    BY DEF AttemptRowsMatchLog
  <2>1. \A i \in Positions : i # None
    BY DEF Positions, None
  <2>2. CASE a = NextPosition
    <3>1. ~Recorded(NextPosition)
      BY <1>1, RecordedAfterAppend
    <3>2. QED
      BY <1>2, <1>4, <1>7, <1>9, <1>11, <2>1, <2>2, <3>1
  <2>3. CASE a # NextPosition
    BY <2>3, <1>4, <1>7, <1>9 DEF Bookkeeping, AttemptRowsMatchLog
  <2>4. QED
    BY <2>2, <2>3
<1>13. RowsAgree'
  <2>1. \A d \in Commands \ {c} : AttemptsOf(d)' = AttemptsOf(d)
    <3> SUFFICES ASSUME NEW d \in Commands \ {c}, NEW a \in Positions
                 PROVE  attemptRows'[a].command = d <=> attemptRows[a].command = d
      BY DEF AttemptsOf
    <3>1. CASE a = NextPosition
      <4>1. ~Recorded(a)
        BY <1>1, <3>1, RecordedAfterAppend
      <4>2. QED
        BY <1>2, <1>4, <3>1, <4>1 DEF Bookkeeping, AttemptRowsMatchLog
    <3>2. CASE a # NextPosition
      BY <1>4, <3>2
    <3>3. QED
      BY <3>1, <3>2
  <2>2. RowsBeginWithIssue' /\ RejectionIsFinal'
    BY <1>5, <1>6, <2>1 DEF Bookkeeping, RowsAgree, RowsBeginWithIssue, RejectionIsFinal
  <2>3. \A a \in Positions : attemptRows[a].command # c
    BY <1>6 DEF AttemptsOf
  <2>4. AttemptIsUnique'
    BY <1>2, <1>4, <2>3 DEF Bookkeeping, RowsAgree, AttemptIsUnique
  <2>5. QED
    BY <2>2, <2>4 DEF RowsAgree
<1>14. OutcomesEndAttempts'
  <2>1. \A i \in Positions : (Recorded(i) /\ log[i].kind = "outcome")'
                             => Recorded(i) /\ log[i].kind = "outcome" /\ log'[i] = log[i]
    BY <1>1, <1>2, RecordedAfterAppend
  <2>2. \A i \in Positions : Recorded(i) /\ log[i].kind = "outcome"
                             => log[i].attempt \in Positions \ {NextPosition}
    BY <1>11, OutcomesTyped DEF Ends
  <2>3. QED
    BY <1>4, <2>1, <2>2 DEF Bookkeeping, OutcomesEndAttempts
<1>15. ConsumptionsMatchLog' /\ StopsMatchLog' /\ ClaimIsNewest'
  BY <1>1, <1>2, <1>3, KeepsConsumptions, KeepsStops, KeepsClaim DEF Bookkeeping
<1>16. QED
  BY <1>10, <1>12, <1>13, <1>14, <1>15 DEF Bookkeeping

\* Releasing an attempt's claim writes nothing about its outcome.
LEMMA ReleaseAttemptKeeps ==
  ASSUME JournalTypeOK, Bookkeeping, NEW a \in Positions, ReleaseAttempt(a)
  PROVE  Bookkeeping'
<1>1. UNCHANGED <<log, stepClaims, consumed, commandRows, stopped, leases>>
  BY DEF ReleaseAttempt
<1>2. \A b \in Positions : /\ attemptRows'[b].command = attemptRows[b].command
                           /\ attemptRows'[b].terminal = attemptRows[b].terminal
  BY DEF ReleaseAttempt, JournalTypeOK, AttemptRows
<1>3. \A c \in Commands : AttemptsOf(c)' = AttemptsOf(c)
  BY <1>2 DEF AttemptsOf
<1>4. ConsumptionsMatchLog' /\ StopsMatchLog' /\ ClaimIsNewest'
  BY <1>1 DEF Bookkeeping, ConsumptionsMatchLog, StopsMatchLog, ClaimIsNewest, Recorded, Consumes
<1>5. CommandRowsMatchLog'
  BY <1>1 DEF Bookkeeping, CommandRowsMatchLog, Recorded, Issues, IsAbout, IsEligibility
<1>6. AttemptRowsMatchLog'
  BY <1>1, <1>2 DEF Bookkeeping, AttemptRowsMatchLog, Recorded, IsAbout, Ends
<1>7. OutcomesEndAttempts'
  BY <1>1, <1>2, OutcomesTyped DEF Bookkeeping, OutcomesEndAttempts, Recorded
<1>8. RowsAgree'
  BY <1>1, <1>2, <1>3
     DEF Bookkeeping, RowsAgree, RowsBeginWithIssue, AttemptIsUnique, RejectionIsFinal
<1>9. QED
  BY <1>4, <1>5, <1>6, <1>7, <1>8 DEF Bookkeeping

\* An attempt that has not ended is an attempt of a command that has not ended.
LEMMA UnendedAttempt ==
  ASSUME JournalTypeOK, Bookkeeping,
         NEW a \in Positions, attemptRows[a].command # NoCommand, Unended(a)
  PROVE  LET c == attemptRows[a].command IN
         /\ c \in Commands
         /\ commandRows[c].issued # None
         /\ commandRows[c].outcome = None
         /\ commandRows[c].eligible = None
         /\ commandRows[c].rejected = None
         /\ Recorded(a) /\ IsAbout(a, "attempt", c)
<1> DEFINE c == attemptRows[a].command
<1>1. c \in Commands
  BY DEF JournalTypeOK, AttemptRows
<1>2. a \in AttemptsOf(c)
  BY DEF AttemptsOf
<1>3. commandRows[c].issued # None /\ commandRows[c].rejected = None
  BY <1>1, <1>2 DEF Bookkeeping, RowsAgree, RowsBeginWithIssue, RejectionIsFinal
<1>4. commandRows[c].eligible = None
  BY <1>1, <1>2, EligibleIsUnattempted
<1>5. commandRows[c].outcome = None
  <2> SUFFICES ASSUME commandRows[c].outcome # None PROVE FALSE
    OBVIOUS
  <2> DEFINE i == commandRows[c].outcome
  <2>1. i \in Positions
    BY <1>1 DEF JournalTypeOK, CommandRows
  <2>2. Recorded(i) /\ log[i].kind = "outcome" /\ log[i].command = c
    BY <1>1, <2>1 DEF Bookkeeping, CommandRowsMatchLog, IsAbout
  <2>3. log[i].attempt \in Positions /\ attemptRows[log[i].attempt].command = c
    BY <2>1, <2>2, OutcomesTyped DEF Bookkeeping, OutcomesEndAttempts
  <2>4. log[i].attempt = a
    BY <1>1, <2>3 DEF Bookkeeping, RowsAgree, AttemptIsUnique
  <2>5. attemptRows[a].terminal = i
    BY <2>1, <2>2, <2>4 DEF Bookkeeping, AttemptRowsMatchLog, Ends
  <2>6. QED
    BY <2>1, <2>5 DEF Unended, Positions, None
<1>6. Recorded(a) /\ IsAbout(a, "attempt", c)
  BY <1>1 DEF Bookkeeping, AttemptRowsMatchLog
<1>7. QED
  BY <1>1, <1>3, <1>4, <1>5, <1>6

\* An outcome ends the one attempt its command has.
LEMMA RecordOutcomeKeeps ==
  ASSUME JournalTypeOK, Bookkeeping,
         NEW a \in Positions, NEW result \in Results, RecordOutcome(a, result)
  PROVE  Bookkeeping'
<1> DEFINE c == attemptRows[a].command
           e == [kind |-> "outcome", command |-> c, attempt |-> a, result |-> result]
<1>1. /\ c \in Commands
      /\ commandRows[c].issued # None
      /\ commandRows[c].outcome = None
      /\ commandRows[c].eligible = None
      /\ commandRows[c].rejected = None
      /\ Recorded(a) /\ IsAbout(a, "attempt", c)
      /\ attemptRows[a].terminal = None
  BY UnendedAttempt DEF RecordOutcome, Unended
<1>2. e \in Events /\ AppendEvent(e)
  BY <1>1, EventsTyped DEF RecordOutcome
<1>3. e.kind = "outcome" /\ e.command = c /\ e.attempt = a
  OBVIOUS
<1>4. UNCHANGED <<stepClaims, consumed, stopped, leases>>
  BY DEF RecordOutcome
<1>5. /\ commandRows'[c].issued = commandRows[c].issued
      /\ commandRows'[c].rejected = None
      /\ commandRows'[c].outcome = NextPosition
      /\ commandRows'[c].eligible = None
      /\ \A d \in Commands \ {c} : commandRows'[d] = commandRows[d]
  BY <1>1 DEF RecordOutcome, Concluded, JournalTypeOK, CommandRows
<1>6. /\ \A b \in Positions : attemptRows'[b].command = attemptRows[b].command
      /\ \A b \in Positions \ {a} : attemptRows'[b].terminal = attemptRows[b].terminal
      /\ attemptRows'[a].terminal = NextPosition
  BY DEF RecordOutcome, JournalTypeOK, AttemptRows
<1> HIDE DEF e
<1>7. \A d \in Commands, i \in Positions :
        /\ (Recorded(i) /\ Issues(i, d))' <=> Recorded(i) /\ Issues(i, d)
        /\ (Recorded(i) /\ log[i].kind = "outcome" /\ log[i].command = d)'
             <=> \/ Recorded(i) /\ log[i].kind = "outcome" /\ log[i].command = d
                 \/ i = NextPosition /\ d = c
        /\ \A k \in {"grant", "reject", "attempt"} :
             (Recorded(i) /\ IsAbout(i, k, d))' <=> Recorded(i) /\ IsAbout(i, k, d)
  BY <1>2, <1>3, RecordedAfterAppend DEF Issues, IsAbout
<1>8. \A d \in Commands, i \in Positions :
        /\ (Recorded(i) /\ IsEligibility(i, d))' <=> Recorded(i) /\ IsEligibility(i, d)
        /\ (Recorded(i) /\ IsAbout(i, "outcome", d))'
             <=> (Recorded(i) /\ IsAbout(i, "outcome", d)) \/ (i = NextPosition /\ d = c)
  BY <1>7 DEF IsEligibility, IsAbout
<1>9. \A b, i \in Positions :
        (Recorded(i) /\ Ends(i, b))'
          <=> (Recorded(i) /\ Ends(i, b)) \/ (i = NextPosition /\ b = a)
  BY <1>2, <1>3, RecordedAfterAppend DEF Ends
<1>10. CommandRowsMatchLog'
  <2> SUFFICES ASSUME NEW d \in Commands, NEW i \in Positions
               PROVE  /\ commandRows'[d].issued = i <=> (Recorded(i) /\ Issues(i, d))'
                      /\ commandRows'[d].rejected = i
                           <=> (Recorded(i) /\ IsAbout(i, "reject", d))'
                      /\ commandRows'[d].outcome = i
                           <=> (Recorded(i) /\ IsAbout(i, "outcome", d))'
                      /\ commandRows'[d].eligible = i <=>
                           /\ (Recorded(i) /\ IsEligibility(i, d))'
                           /\ \A j \in Positions :
                                ~ (Recorded(j) /\ IsAbout(j, "attempt", d))'
    BY DEF CommandRowsMatchLog
  <2>1. i # None
    BY DEF Positions, None
  <2>2. CASE d = c
    BY <1>1, <1>5, <1>7, <1>8, <2>1, <2>2 DEF Bookkeeping, CommandRowsMatchLog
  <2>3. CASE d # c
    BY <2>3, <1>5, <1>7, <1>8 DEF Bookkeeping, CommandRowsMatchLog
  <2>4. QED
    BY <2>2, <2>3
<1>11. AttemptRowsMatchLog'
  <2>1. \A i \in Positions : i # None
    BY DEF Positions, None
  <2>2. \A i \in Positions : ~ (Recorded(i) /\ Ends(i, a))
    BY <1>1, <2>1 DEF Bookkeeping, AttemptRowsMatchLog
  <2>3. QED
    BY <1>6, <1>7, <1>9, <2>2 DEF Bookkeeping, AttemptRowsMatchLog
<1>12. RowsAgree'
  <2>1. \A d \in Commands : AttemptsOf(d)' = AttemptsOf(d)
    BY <1>6 DEF AttemptsOf
  <2>2. RowsBeginWithIssue' /\ RejectionIsFinal'
    BY <1>1, <1>5, <2>1 DEF Bookkeeping, RowsAgree, RowsBeginWithIssue, RejectionIsFinal
  <2>3. AttemptIsUnique'
    BY <1>6 DEF Bookkeeping, RowsAgree, AttemptIsUnique
  <2>4. QED
    BY <2>2, <2>3 DEF RowsAgree
<1>13. OutcomesEndAttempts'
  <2>1. \A i \in Positions : (Recorded(i) /\ log[i].kind = "outcome")' =>
          \/ Recorded(i) /\ log[i].kind = "outcome" /\ log'[i] = log[i]
          \/ log'[i].attempt = a /\ log'[i].command = c
    BY <1>2, <1>3, RecordedAfterAppend
  <2>2. QED
    BY <1>6, <2>1, OutcomesTyped DEF Bookkeeping, OutcomesEndAttempts
<1>14. ConsumptionsMatchLog' /\ StopsMatchLog' /\ ClaimIsNewest'
  BY <1>2, <1>3, <1>4, KeepsConsumptions, KeepsStops, KeepsClaim DEF Bookkeeping
<1>15. QED
  BY <1>10, <1>11, <1>12, <1>13, <1>14 DEF Bookkeeping

-------------------------------------------------------------------------------
\* The inductive invariant and what it gives.

JournalInv == JournalTypeOK /\ Bookkeeping

\* The tables of an empty Journal agree with its log and with each other.
LEMMA BookkeepingInit == JournalInit => Bookkeeping
<1> SUFFICES ASSUME JournalInit PROVE Bookkeeping
  OBVIOUS
<1>1. \A i \in Positions : ~Recorded(i) /\ i # None
  BY DEF JournalInit, Recorded, Positions, None
<1>2. \A c \in Commands : commandRows[c] = NoCommandRow /\ AttemptsOf(c) = {}
  BY NoCommandAssumption DEF JournalInit, AttemptsOf, NoAttemptRow
<1>3. ConsumptionsMatchLog /\ StopsMatchLog
  BY <1>1 DEF JournalInit, ConsumptionsMatchLog, StopsMatchLog
<1>4. CommandRowsMatchLog
  BY <1>1, <1>2 DEF CommandRowsMatchLog, NoCommandRow
<1>5. AttemptRowsMatchLog
  BY <1>1, NoCommandAssumption DEF JournalInit, AttemptRowsMatchLog, NoAttemptRow
<1>6. RowsAgree
  <2>1. RowsBeginWithIssue /\ RejectionIsFinal
    BY <1>2 DEF RowsBeginWithIssue, RejectionIsFinal, NoCommandRow
  <2>2. AttemptIsUnique
    BY NoCommandAssumption DEF JournalInit, AttemptIsUnique, NoAttemptRow
  <2>3. QED
    BY <2>1, <2>2 DEF RowsAgree
<1>7. OutcomesEndAttempts
  BY <1>1 DEF OutcomesEndAttempts
<1>8. ClaimIsNewest
  BY DEF JournalInit, ClaimIsNewest
<1>9. QED
  BY <1>3, <1>4, <1>5, <1>6, <1>7, <1>8 DEF Bookkeeping

\* Every write transaction keeps the tables in agreement.
LEMMA BookkeepingStep ==
  JournalTypeOK /\ Bookkeeping /\ [JournalNext]_journalVars => Bookkeeping'
<1> SUFFICES ASSUME JournalTypeOK, Bookkeeping, [JournalNext]_journalVars
             PROVE  Bookkeeping'
  OBVIOUS
<1>1. \A n \in 1..Len(leases) : leases[n].lease \in Leases
  BY HandedOutLeasesTyped DEF JournalTypeOK
<1>2. CASE \E d \in Facts : AcceptDelivery(d)
  BY <1>2, AcceptDeliveryKeeps
<1>3. CASE ClaimAction
  <2>1. CASE ExpireStep
    <3>1. CASE stepClaims = {}
      <4>1. UNCHANGED journalVars
        BY <2>1, <3>1 DEF ExpireStep, journalVars
      <4>2. ClaimIsNewest'
        BY <4>1 DEF journalVars, Bookkeeping, ClaimIsNewest, Recorded
      <4>3. QED
        BY <4>1, <4>2, ClaimTablesKeep DEF journalVars
    <3>2. CASE stepClaims # {}
      BY <2>1, <3>2, OtherClaimActionsKeep DEF JournalTypeOK, ClaimRows
    <3>3. QED
      BY <3>1, <3>2
  <2>2. QED
    BY <1>1, <1>3, <2>1, AcquireStepKeeps, OtherClaimActionsKeep DEF ClaimAction
<1>4. CASE DecisionAction
  BY <1>1, <1>4, CommitStepKeeps, CancelDecisionKeeps, CancelContinuationKeeps
     DEF DecisionAction
<1>5. CASE CommandAction
  BY <1>5, VerdictKeeps, StartAttemptKeeps, ReleaseAttemptKeeps, RecordOutcomeKeeps
     DEF CommandAction
<1>6. CASE UNCHANGED journalVars
  <2>1. ClaimIsNewest'
    BY <1>6 DEF journalVars, Bookkeeping, ClaimIsNewest, Recorded
  <2>2. QED
    BY <1>6, <2>1, ClaimTablesKeep DEF journalVars
<1>7. QED
  BY <1>2, <1>3, <1>4, <1>5, <1>6 DEF JournalNext

\* The invariant of the Journal holds at the start.
LEMMA JournalInvInit == JournalInit => JournalInv
BY TypeInit, BookkeepingInit DEF JournalInv

\* Every write transaction keeps it.
LEMMA JournalInvStep == JournalInv /\ [JournalNext]_journalVars => JournalInv'
BY TypeStep, BookkeepingStep DEF JournalInv

\* The invariant holds in every reachable state.
LEMMA JournalInvHolds == JournalSpec => []JournalInv
BY JournalInvInit, JournalInvStep, PTL DEF JournalSpec

\* Every index table says exactly what the log says.
THEOREM TablesAgreeWithLog == JournalSpec => []TablesMatchLog
<1>1. JournalInv => TablesMatchLog
  BY DEF JournalInv, Bookkeeping, TablesMatchLog
<1>2. QED
  BY <1>1, JournalInvHolds, PTL

\* The conditions between the tables that the agreement rests on.
THEOREM TablesAgreeWithEachOther == JournalSpec => []JournalBookkeeping
<1>1. JournalInv => JournalBookkeeping
  BY DEF JournalInv, Bookkeeping, RowsAgree, JournalBookkeeping
<1>2. QED
  BY <1>1, JournalInvHolds, PTL

\* Whoever starts and whoever reports, a command has one attempt and one outcome.
THEOREM AttemptedOnce == JournalSpec => []AttemptedAndEndedOnce
<1>1. JournalInv => AttemptedAndEndedOnce
  <2> SUFFICES ASSUME JournalTypeOK, Bookkeeping,
                      NEW i \in Positions, NEW j \in Positions, Recorded(i), Recorded(j),
                      log[i].kind = log[j].kind, log[i].kind \in {"attempt", "outcome"},
                      log[i].command = log[j].command
               PROVE  i = j
    BY DEF JournalInv, AttemptedAndEndedOnce
  <2>1. CASE log[i].kind = "attempt"
    <3>1. log[i] \in Events
      BY DEF JournalTypeOK, Recorded
    <3>2. log[i].command \in Commands
      BY <2>1, <3>1 DEF Events, FactEvents, StepEvents, GrantEvents, RejectEvents, AttemptEvents,
                        OutcomeEvents, CancelEvents, StopEvents
    <3>3. attemptRows[i].command = log[i].command /\ attemptRows[j].command = log[i].command
      BY <2>1, <3>2 DEF Bookkeeping, AttemptRowsMatchLog, IsAbout
    <3>4. QED
      BY <3>2, <3>3 DEF Bookkeeping, RowsAgree, AttemptIsUnique
  <2>2. CASE log[i].kind = "outcome"
    <3>1. log[i].command \in Commands
      BY <2>2, OutcomesTyped
    <3> DEFINE c == log[i].command
    <3>2. IsAbout(i, "outcome", c) /\ IsAbout(j, "outcome", c)
      BY <2>2 DEF IsAbout
    <3> HIDE DEF c
    <3>3. \A k \in Positions :
            Recorded(k) /\ IsAbout(k, "outcome", c) => commandRows[c].outcome = k
      BY <3>1 DEF c, Bookkeeping, CommandRowsMatchLog
    <3>4. QED
      BY <3>2, <3>3
  <2>3. QED
    BY <2>1, <2>2
<1>2. QED
  BY <1>1, JournalInvHolds, PTL

\* The lease a step is committed under is the newest, and no cancellation has
\* been recorded since it was handed out.
LEMMA CommittedLease ==
  ASSUME JournalTypeOK, Bookkeeping,
         NEW n \in 1..Len(leases), NEW cs \in SUBSET Commands, CommitStep(leases[n].lease, cs)
  PROVE  /\ n = Len(leases)
         /\ \A i \in Positions : Recorded(i) /\ log[i].kind = "cancel" => i <= leases[n].at
<1>1. PICK c \in stepClaims : c.lease = leases[n].lease
  BY DEF CommitStep, Holds
<1>2. /\ leases # <<>>
      /\ c.lease = leases[Len(leases)].lease
      /\ \A i \in Positions : Recorded(i) /\ log[i].kind = "cancel"
                                => i <= leases[Len(leases)].at
  BY DEF Bookkeeping, ClaimIsNewest
<1>3. n \in DOMAIN leases /\ Len(leases) \in DOMAIN leases
  <2>1. DOMAIN leases = 1..Len(leases) /\ Len(leases) \in Nat
    BY DEF JournalTypeOK
  <2>2. QED
    BY <2>1
<1>4. leases[n].lease.token = leases[Len(leases)].lease.token
  BY <1>1, <1>2
<1>5. \A m, k \in DOMAIN leases : leases[m].lease.token = leases[k].lease.token => m = k
  BY DEF Bookkeeping, ClaimIsNewest
<1>6. n = Len(leases)
  BY <1>3, <1>4, <1>5
<1>7. QED
  BY <1>2, <1>6

\* A step is only ever committed under the newest lease, and never when a cancellation
\* was recorded after that lease was handed out.
THEOREM CommitsAreFenced == JournalSpec => FencedCommits
<1>1. JournalInv => CommitsUnderNewestLease /\ CommitsNothingClaimedBeforeCancel
  BY CommittedLease
  DEF JournalInv, CommitsUnderNewestLease, CommitsNothingClaimedBeforeCancel
<1>2. QED
  BY <1>1, JournalInvHolds, PTL DEF FencedCommits

-------------------------------------------------------------------------------
\* The dispatch gate.

\* The fields of a recorded attempt.
LEMMA AttemptsTyped ==
  ASSUME JournalTypeOK, NEW i \in Positions, Recorded(i), log[i].kind = "attempt"
  PROVE  log[i].command \in Commands /\ log[i].cause \in Positions
<1>1. log[i] \in Events
  BY DEF JournalTypeOK, Recorded
<1>2. QED
  BY <1>1 DEF Events, FactEvents, StepEvents, GrantEvents, RejectEvents, AttemptEvents,
              OutcomeEvents, CancelEvents, StopEvents

\* An event that neither starts nor rejects a command leaves the gates closed.
LEMMA KeepsGate ==
  ASSUME JournalTypeOK, DispatchIsGated,
         NEW i \in Positions, Recorded(i), log[i].kind = "attempt",
         NEW e \in Events, AppendEvent(e),
         e.kind = "reject" => e.command # log[i].command
  PROVE  GatedAttempt(i)'
<1> DEFINE c == log[i].command
<1>1. /\ c \in Commands
      /\ log[i].cause \in Positions
      /\ log[i].cause < i
      /\ IsEligibility(log[i].cause, c)
      /\ \A j \in Positions : ~ (Recorded(j) /\ IsAbout(j, "reject", c))
  BY AttemptsTyped DEF DispatchIsGated, GatedAttempt
<1>2. Recorded(log[i].cause)
  BY <1>1 DEF Recorded, JournalTypeOK, Positions
<1>3. log'[i] = log[i] /\ log'[log[i].cause] = log[log[i].cause]
  BY <1>1, <1>2, RecordedAfterAppend
<1>4. IsEligibility(log[i].cause, c)'
  BY <1>1, <1>3 DEF IsEligibility, IsAbout, Issues
<1>5. \A j \in Positions : ~ (Recorded(j) /\ IsAbout(j, "reject", c))'
  BY <1>1, <1>3, RecordedAfterAppend DEF IsAbout
<1>6. QED
  BY <1>1, <1>3, <1>4, <1>5 DEF GatedAttempt

\* A step leaves the log alone, or appends one event; it starts or rejects a
\* command only by StartAttempt or Reject.
LEMMA StepsAppend ==
  ASSUME JournalTypeOK, Bookkeeping, [JournalNext]_journalVars, log' # log
  PROVE  \/ \E e \in Events : AppendEvent(e) /\ e.kind \notin {"attempt", "reject"}
         \/ \E c \in Commands : Reject(c)
         \/ \E c \in Commands, cause \in Positions, n \in 1..2 : StartAttempt(c, cause, n)
<1>1. \A n \in 1..Len(leases) : leases[n].lease.request \in Requests
  BY HandedOutLeasesTyped DEF JournalTypeOK, Leases
<1>2. ASSUME NEW d \in Facts, AcceptDelivery(d)
      PROVE  \E e \in Events : AppendEvent(e) /\ e.kind \notin {"attempt", "reject"}
  <2> DEFINE e == [kind |-> "fact", delivery |-> d]
  <2>1. e \in Events /\ AppendEvent(e) /\ e.kind = "fact"
    BY <1>2, EventsTyped DEF AcceptDelivery
  <2>2. QED
    BY <2>1
<1>3. ~ClaimAction
  BY DEF ClaimAction, AcquireStep, ReleaseStep, RenewStep, ExpireStep
<1>4. ASSUME DecisionAction
      PROVE  \E e \in Events : AppendEvent(e) /\ e.kind \notin {"attempt", "reject"}
  <2>1. ASSUME NEW n \in 1..Len(leases), NEW cs \in SUBSET Commands,
               CommitStep(leases[n].lease, cs)
        PROVE  \E e \in Events : AppendEvent(e) /\ e.kind \notin {"attempt", "reject"}
    <3> DEFINE e == [kind |-> "step", request |-> leases[n].lease.request, commands |-> cs]
    <3>1. e \in Events /\ AppendEvent(e) /\ e.kind = "step"
      BY <1>1, <2>1, EventsTyped DEF CommitStep
    <3>2. QED
      BY <3>1
  <2>2. ASSUME NEW t \in Positions, CancelDecision(t) \/ CancelContinuation(t)
        PROVE  \E e \in Events : AppendEvent(e) /\ e.kind \notin {"attempt", "reject"}
    <3> DEFINE e == IF CancelDecision(t) THEN [kind |-> "cancel", trigger |-> t]
                                         ELSE [kind |-> "stop", step |-> t]
    <3>1. e \in Events /\ AppendEvent(e) /\ e.kind \in {"cancel", "stop"}
      BY <2>2, EventsTyped DEF CancelDecision, CancelContinuation
    <3>2. QED
      BY <3>1
  <2>3. QED
    BY <1>4, <2>1, <2>2 DEF DecisionAction
<1>5. ASSUME NEW c \in Commands, Grant(c)
      PROVE  \E e \in Events : AppendEvent(e) /\ e.kind \notin {"attempt", "reject"}
  <2> DEFINE e == [kind |-> "grant", command |-> c, cause |-> commandRows[c].issued]
  <2>1. e \in Events /\ AppendEvent(e) /\ e.kind = "grant"
    BY <1>5, EventsTyped DEF Grant, AwaitsVerdict, JournalTypeOK, CommandRows
  <2>2. QED
    BY <2>1
<1>6. ASSUME NEW a \in Positions, NEW result \in Results, RecordOutcome(a, result)
      PROVE  \E e \in Events : AppendEvent(e) /\ e.kind \notin {"attempt", "reject"}
  <2> DEFINE e == [kind |-> "outcome", command |-> attemptRows[a].command,
                   attempt |-> a, result |-> result]
  <2>1. e \in Events /\ AppendEvent(e) /\ e.kind = "outcome"
    BY <1>6, UnendedAttempt, EventsTyped DEF RecordOutcome
  <2>2. QED
    BY <2>1
<1>7. \A a \in Positions : ~ReleaseAttempt(a)
  BY DEF ReleaseAttempt
<1>8. ~UNCHANGED journalVars
  BY DEF journalVars
<1>9. QED
  BY <1>2, <1>3, <1>4, <1>5, <1>6, <1>7, <1>8 DEF JournalNext, CommandAction

\* Nothing runs ungated: an attempt names an earlier event that made its
\* command eligible, and its command is never rejected.
THEOREM DispatchGateHolds == JournalSpec => []DispatchIsGated
<1>1. JournalInit => DispatchIsGated
  BY DEF JournalInit, DispatchIsGated, Recorded
<1>2. JournalInv /\ DispatchIsGated /\ [JournalNext]_journalVars => DispatchIsGated'
  <2> SUFFICES ASSUME JournalTypeOK, Bookkeeping, DispatchIsGated, [JournalNext]_journalVars,
                      NEW i \in Positions, Recorded(i)', log'[i].kind = "attempt"
               PROVE  GatedAttempt(i)'
    BY DEF JournalInv, DispatchIsGated
  <2>1. CASE log' = log
    BY <2>1 DEF DispatchIsGated, GatedAttempt, Recorded, IsEligibility, IsAbout, Issues
  <2>2. ASSUME NEW e \in Events, AppendEvent(e), e.kind \notin {"attempt", "reject"}
        PROVE  GatedAttempt(i)'
    <3>1. Recorded(i) /\ log[i].kind = "attempt"
      BY <2>2, RecordedAfterAppend
    <3>2. QED
      BY <2>2, <3>1, KeepsGate
  <2>3. ASSUME NEW c \in Commands, Reject(c)
        PROVE  GatedAttempt(i)'
    <3> DEFINE e == [kind |-> "reject", command |-> c, cause |-> commandRows[c].issued]
    <3>1. e \in Events /\ AppendEvent(e)
      BY <2>3, EventsTyped DEF Reject, AwaitsVerdict, JournalTypeOK, CommandRows
    <3>2. e.kind = "reject" /\ e.command = c
      OBVIOUS
    <3> HIDE DEF e
    <3>3. Recorded(i) /\ log[i].kind = "attempt" /\ log'[i] = log[i]
      BY <3>1, <3>2, RecordedAfterAppend
    <3>4. log[i].command # c
      BY <2>3, <3>3, Unattempted DEF Reject, AwaitsVerdict, IsAbout
    <3>5. QED
      BY <3>1, <3>2, <3>3, <3>4, KeepsGate
  <2>4. ASSUME NEW c \in Commands, NEW cause \in Positions, NEW n \in 1..2,
               StartAttempt(c, cause, n)
        PROVE  GatedAttempt(i)'
    <3> DEFINE e == [kind |-> "attempt", command |-> c, number |-> n, cause |-> cause]
    <3>1. e \in Events /\ AppendEvent(e)
      BY <2>4, EventsTyped DEF StartAttempt
    <3>2. e.kind = "attempt" /\ e.command = c /\ e.cause = cause
      OBVIOUS
    <3> HIDE DEF e
    <3>3. CASE Recorded(i)
      <4>1. log'[i] = log[i]
        BY <3>1, <3>3, RecordedAfterAppend
      <4>2. QED
        BY <3>1, <3>2, <3>3, <4>1, KeepsGate
    <3>4. CASE i = NextPosition
      <4>1. log'[i] = e
        BY <3>1, <3>4, RecordedAfterAppend
      <4>2. commandRows[c].eligible = cause /\ commandRows[c].rejected = None
        BY <2>4, EligibleIsUnattempted DEF StartAttempt, Startable
      <4>3. Recorded(cause) /\ IsEligibility(cause, c)
        BY <4>2 DEF Bookkeeping, CommandRowsMatchLog
      <4>4. cause < i /\ log'[cause] = log[cause]
        BY <3>1, <3>4, <4>3, RecordedAfterAppend
      <4>5. IsEligibility(cause, c)'
        BY <4>3, <4>4 DEF IsEligibility, IsAbout, Issues
      <4>6. \A j \in Positions : j # None
        BY DEF Positions, None
      <4>7. \A j \in Positions : ~ (Recorded(j) /\ IsAbout(j, "reject", c))
        BY <4>2, <4>6 DEF Bookkeeping, CommandRowsMatchLog
      <4>8. \A j \in Positions : ~ (Recorded(j) /\ IsAbout(j, "reject", c))'
        BY <3>1, <3>2, <4>7, RecordedAfterAppend DEF IsAbout
      <4>9. QED
        BY <3>2, <4>1, <4>4, <4>5, <4>8 DEF GatedAttempt
    <3>5. QED
      BY <3>1, <3>3, <3>4, RecordedAfterAppend
  <2>5. QED
    BY <2>1, <2>2, <2>3, <2>4, StepsAppend
<1>3. QED
  BY <1>1, <1>2, JournalInvHolds, PTL DEF JournalSpec

-------------------------------------------------------------------------------
\* SessionJournal implements EventLog: each transaction that writes an event is the
\* step of EventLog that writes it, and no other transaction touches the log.

\* The log of either specification, in the words of the other.
LEMMA LogDomain ==
  ASSUME JournalTypeOK
  PROVE  /\ \A i \in DOMAIN log : i \in Positions /\ Recorded(i)
         /\ \A i \in Positions : Recorded(i) => i \in DOMAIN log
<1>1. log \in Seq(Events) /\ Len(log) <= MaxEvents
  BY DEF JournalTypeOK
<1>2. DOMAIN log = 1..Len(log) /\ Len(log) \in Nat
  BY <1>1
<1>3. QED
  BY <1>1, <1>2, BoundAssumption DEF Recorded, Positions

\* SessionJournal appends as EventLog does.
LEMMA AppendRecords ==
  ASSUME JournalTypeOK, NEW e, AppendEvent(e)
  PROVE  Promise!Record(e)
BY BoundAssumption DEF AppendEvent, NextPosition, JournalTypeOK, Promise!Record

\* Accepting a delivery is the arrival of the abstract log.
LEMMA DeliveryIsArrival ==
  ASSUME JournalTypeOK, NEW d \in Facts, AcceptDelivery(d)
  PROVE  Promise!Arrive(d)
BY AppendRecords DEF AcceptDelivery, Undelivered, Of, Promise!Arrive

\* A trigger the table calls open is consumed by no event.
LEMMA OpenTrigger ==
  ASSUME JournalTypeOK, Bookkeeping, NEW t \in Positions, Open(t)
  PROVE  \A i \in DOMAIN log : ~Promise!ConsumesTrigger(log[i], t)
<1>1. \A i \in Positions : i # None
  BY DEF Positions, None
<1>2. QED
  BY <1>1, LogDomain
     DEF Open, Bookkeeping, ConsumptionsMatchLog, Consumes, Promise!ConsumesTrigger

\* Committing under a lease is the commit of the abstract log.
LEMMA CommitIsCommit ==
  ASSUME JournalTypeOK, Bookkeeping,
         NEW l \in Leases, NEW cs \in SUBSET Commands, CommitStep(l, cs)
  PROVE  Promise!Commit(l.request, cs)
<1>1. l.request.trigger \in Positions /\ Recorded(l.request.trigger)
  BY DEF Leases, Requests, CommitStep, Holds, Bookkeeping, ClaimIsNewest
<1>2. \A i \in DOMAIN log, c \in cs : ~Promise!IssuesCommand(log[i], c)
  BY LogDomain, UnissuedIsUnknown DEF CommitStep, Issues, Promise!IssuesCommand
<1>3. Promise!Record([kind |-> "step", request |-> l.request, commands |-> cs])
  BY AppendRecords DEF CommitStep
<1>4. QED
  BY <1>1, <1>2, <1>3, OpenTrigger, LogDomain DEF CommitStep, Promise!Commit

\* Cancelling a decision is the cancellation of the abstract log.
LEMMA CancelIsCancel ==
  ASSUME JournalTypeOK, Bookkeeping, NEW t \in Positions, CancelDecision(t)
  PROVE  Promise!Cancel(t)
BY AppendRecords, OpenTrigger, LogDomain DEF CancelDecision, Promise!Cancel

\* Cancelling a continuation is the stop of the abstract log.
LEMMA StopIsStop ==
  ASSUME JournalTypeOK, Bookkeeping, NEW s \in Positions, CancelContinuation(s)
  PROVE  Promise!Stop(s)
<1>1. s \in DOMAIN log /\ log[s].kind = "step"
  BY DEF CancelContinuation, Of
<1>2. \A i \in Positions : i # None
  BY DEF Positions, None
<1>3. \A i \in DOMAIN log : ~ (log[i].kind = "stop" /\ log[i].step = s)
  BY <1>2, LogDomain DEF CancelContinuation, Bookkeeping, StopsMatchLog
<1>4. Promise!Record([kind |-> "stop", step |-> s])
  BY AppendRecords DEF CancelContinuation
<1>5. QED
  BY <1>1, <1>3, <1>4 DEF Promise!Stop

\* A command that awaits its verdict needs one and has none.
LEMMA VerdictIsVerdict ==
  ASSUME JournalTypeOK, Bookkeeping, NEW c \in Commands, Grant(c) \/ Reject(c)
  PROVE  \E kind \in {"grant", "reject"}, s \in Positions : Promise!Verdict(kind, s, c)
<1> DEFINE s == commandRows[c].issued
<1>1. /\ s # None
      /\ commandRows[c].eligible = None
      /\ commandRows[c].rejected = None
      /\ AttemptsOf(c) = {}
  BY DEF Grant, Reject, AwaitsVerdict
<1>2. s \in Positions
  BY <1>1 DEF JournalTypeOK, CommandRows
<1>3. Recorded(s) /\ Issues(s, c)
  BY <1>2 DEF Bookkeeping, CommandRowsMatchLog
<1>4. \A j \in Positions : ~ (Recorded(j) /\ IsAbout(j, "attempt", c)) /\ j # None
  BY <1>1, Unattempted DEF Positions, None
<1>5. \A j \in Positions : ~ (Recorded(j) /\ IsEligibility(j, c))
  BY <1>1, <1>4 DEF Bookkeeping, CommandRowsMatchLog
<1>6. \A j \in Positions : ~ (Recorded(j) /\ IsAbout(j, "reject", c))
  BY <1>1, <1>4 DEF Bookkeeping, CommandRowsMatchLog
<1>7. c \in NeedsAuthorization
  BY <1>2, <1>3, <1>5 DEF IsEligibility
<1>8. \A j \in DOMAIN log : ~Promise!IsVerdict(log[j], c)
  BY <1>5, <1>6, LogDomain DEF IsEligibility, IsAbout, Promise!IsVerdict
<1>9. \E kind \in {"grant", "reject"} :
        Promise!Record([kind |-> kind, command |-> c, cause |-> s])
  BY AppendRecords DEF Grant, Reject
<1>10. s \in DOMAIN log /\ Promise!IssuesCommand(log[s], c)
  BY <1>2, <1>3, LogDomain DEF Issues, Promise!IssuesCommand
<1> HIDE DEF s
<1>11. QED
  BY <1>2, <1>7, <1>8, <1>9, <1>10 DEF Promise!Verdict

\* The number of a first attempt is 1.
LEMMA StartIsAttempt ==
  ASSUME JournalTypeOK, Bookkeeping,
         NEW c \in Commands, NEW cause \in Positions, NEW n \in 1..2, StartAttempt(c, cause, n)
  PROVE  Promise!Attempt(cause, c)
<1>1. commandRows[c].eligible = cause /\ AttemptsOf(c) = {}
  BY EligibleIsUnattempted DEF StartAttempt, Startable
<1>2. n = 1
  BY <1>1, FS_EmptySet DEF StartAttempt, Startable
<1>3. Recorded(cause) /\ IsEligibility(cause, c)
  BY <1>1 DEF Bookkeeping, CommandRowsMatchLog
<1>4. Promise!MakesEligible(cause, c)
  BY <1>3 DEF IsEligibility, IsAbout, Issues, Promise!MakesEligible, Promise!IssuesCommand
<1>5. \A j \in DOMAIN log : ~Promise!IsAttempt(log[j], c)
  BY <1>1, Unattempted, LogDomain DEF IsAbout, Promise!IsAttempt
<1>6. Promise!Record([kind |-> "attempt", command |-> c, number |-> 1, cause |-> cause])
  BY <1>2, AppendRecords DEF StartAttempt
<1>7. QED
  BY <1>3, <1>4, <1>5, <1>6, LogDomain DEF Promise!Attempt

\* Recording an outcome is the end of the abstract log.
LEMMA OutcomeIsEnd ==
  ASSUME JournalTypeOK, Bookkeeping,
         NEW a \in Positions, NEW result \in Results, RecordOutcome(a, result)
  PROVE  Promise!End(a, result)
<1>1. Recorded(a) /\ log[a].kind = "attempt" /\ log[a].command = attemptRows[a].command
  BY UnendedAttempt DEF RecordOutcome, IsAbout
<1>2. \A i \in Positions : i # None
  BY DEF Positions, None
<1>3. \A i \in DOMAIN log : ~ (log[i].kind = "outcome" /\ log[i].attempt = a)
  BY <1>2, LogDomain DEF RecordOutcome, Unended, Bookkeeping, AttemptRowsMatchLog, Ends
<1>4. Promise!Record([kind |-> "outcome", command |-> log[a].command, attempt |-> a,
                      result |-> result])
  BY <1>1, AppendRecords DEF RecordOutcome
<1>5. QED
  BY <1>1, <1>3, <1>4, LogDomain DEF Promise!End

\* The Journal, with all its tables and whoever calls it, writes only events
\* that the events before them justify.
THEOREM JournalKeepsPromise == JournalSpec => ImplementsEventLog
<1>1. JournalInit => Promise!LogInit
  BY DEF JournalInit, Promise!LogInit
<1>2. JournalInv /\ [JournalNext]_journalVars => [Promise!LogNext]_log
  <2> SUFFICES ASSUME JournalTypeOK, Bookkeeping, [JournalNext]_journalVars
               PROVE  [Promise!LogNext]_log
    BY DEF JournalInv
  <2>1. \A n \in 1..Len(leases) :
          leases[n].lease \in Leases /\ leases[n].lease.request \in Requests
    BY HandedOutLeasesTyped DEF JournalTypeOK, Leases
  <2> Promise!Positions = Positions /\ Promise!Requests = Requests
    BY DEF Positions, Requests, Promise!Positions, Promise!Requests
  <2>2. CASE \E d \in Facts : AcceptDelivery(d)
    BY <2>2, DeliveryIsArrival DEF Promise!LogNext
  <2>3. CASE ClaimAction
    BY <2>3 DEF ClaimAction, AcquireStep, ReleaseStep, RenewStep, ExpireStep
  <2>4. CASE DecisionAction
    BY <2>1, <2>4, CommitIsCommit, CancelIsCancel, StopIsStop
       DEF DecisionAction, Promise!LogNext
  <2>5. CASE CommandAction
    <3>1. CASE \E a \in Positions : ReleaseAttempt(a)
      BY <3>1 DEF ReleaseAttempt
    <3>2. QED
      BY <2>5, <3>1, VerdictIsVerdict, StartIsAttempt, OutcomeIsEnd
         DEF CommandAction, Promise!LogNext
  <2>6. CASE UNCHANGED journalVars
    BY <2>6 DEF journalVars
  <2>7. QED
    BY <2>2, <2>3, <2>4, <2>5, <2>6 DEF JournalNext
<1>3. QED
  BY <1>1, <1>2, JournalInvHolds, PTL DEF JournalSpec, ImplementsEventLog, Promise!LogSpec

===============================================================================
