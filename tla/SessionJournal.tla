---------------------------- MODULE SessionJournal ----------------------------
(***************************************************************************)
(* The durable Journal of one Session: redpanda/runtime/journal/sqlite.py  *)
(* (journal/api.py holds the in-memory twin).  Each action is one          *)
(* transaction, BEGIN IMMEDIATE to COMMIT; a call that returns None, finds *)
(* an equal earlier fact or raises leaves the database as it was and is    *)
(* not a step.  Callers are adversarial: whoever was handed a lease may    *)
(* use it at any later time, in any order.                                 *)
(***************************************************************************)
EXTENDS RuntimeEvents, FiniteSets

CONSTANTS
  Tokens,  \* claim tokens; id_factory draws a new one for every acquire_step
  Owners   \* worker ids

VARIABLES
  log,          \* table events, by sequence
  stepClaims,   \* table step_claims: no row or one row
  consumed,     \* table decision_consumptions: trigger -> result event
  commandRows,  \* table commands
  attemptRows,  \* table attempts, keyed by the dispatch event
  stopped,      \* table cancelled_step_continuations: step -> its event
  leases        \* history: every StepLease handed out, with the length of the log then

journalVars ==
  <<log, stepClaims, consumed, commandRows, attemptRows, stopped, leases>>

Leases == [request : Requests, token : Tokens, owner : Owners, generation : Nat]

HandedOut == [lease : Leases, at : Nat]

\* live: expires_at is later than the clock.
ClaimRows == [lease : Leases, live : BOOLEAN]

\* issued = None: there is no such row yet.
CommandRows ==
  [issued : Positions \cup {None}, eligible : Positions \cup {None},
   rejected : Positions \cup {None}, outcome : Positions \cup {None}]

\* held: claim_expires_at # 0.  Time only extends it, so only 0 is told apart.
AttemptRows ==
  [command : Commands \cup {NoCommand}, number : Nat, held : BOOLEAN,
   terminal : Positions \cup {None}]

NoCommandRow == [issued |-> None, eligible |-> None, rejected |-> None, outcome |-> None]

NoAttemptRow == [command |-> NoCommand, number |-> 0, held |-> FALSE, terminal |-> None]

\* Every table holds rows of its schema, and the log stays within its bound.
JournalTypeOK ==
  /\ log \in Seq(Events)
  /\ Len(log) <= MaxEvents
  /\ stepClaims \in SUBSET ClaimRows
  /\ consumed \in [Positions -> Positions \cup {None}]
  /\ commandRows \in [Commands -> CommandRows]
  /\ attemptRows \in [Positions -> AttemptRows]
  /\ stopped \in [Positions -> Positions \cup {None}]
  /\ leases \in Seq(HandedOut)

JournalInit ==
  /\ log = <<>>
  /\ stepClaims = {}
  /\ consumed = [t \in Positions |-> None]
  /\ commandRows = [c \in Commands |-> NoCommandRow]
  /\ attemptRows = [a \in Positions |-> NoAttemptRow]
  /\ stopped = [s \in Positions |-> None]
  /\ leases = <<>>

-------------------------------------------------------------------------------
\* _append_tx: the sequence number is last_sequence + 1.

NextPosition == Len(log) + 1

AppendEvent(e) ==
  /\ NextPosition <= MaxEvents
  /\ log' = Append(log, e)

Recorded(i) == i \in 1..Len(log)

Undelivered(d) == \A i \in Of(log, "fact") : log[i].delivery # d

\* accept_delivery: a delivery identity is accepted once.
AcceptDelivery(d) ==
  /\ Undelivered(d)
  /\ AppendEvent([kind |-> "fact", delivery |-> d])
  /\ UNCHANGED <<stepClaims, consumed, commandRows, attemptRows, stopped, leases>>

-------------------------------------------------------------------------------
\* The Step claim: one row per Session, replaced only once it has expired.

\* Mutant: consumption is not consulted.
AlwaysOpen(t) == TRUE

\* not _decision_consumed_tx
Open(t) == consumed[t] = None

FreshToken(k) == \A i \in 1..Len(leases) : leases[i].lease.token # k

NextGeneration ==
  IF stepClaims = {} THEN 1
  ELSE (CHOOSE c \in stepClaims : TRUE).lease.generation + 1

\* acquire_step hands out a lease: otherwise it returns None.
Claimable(r) ==
  /\ Recorded(r.trigger)
  /\ Open(r.trigger)
  /\ \A c \in stepClaims : ~c.live

AcquireStep(r, k, w) ==
  /\ Claimable(r)
  /\ FreshToken(k)
  /\ LET lease == [request |-> r, token |-> k, owner |-> w, generation |-> NextGeneration]
     IN  /\ stepClaims' = {[lease |-> lease, live |-> TRUE]}
         /\ leases' = Append(leases, [lease |-> lease, at |-> Len(log)])
  /\ UNCHANGED <<log, consumed, commandRows, attemptRows, stopped>>

\* _release_step_tx
ReleaseStep(l) ==
  /\ stepClaims' = {c \in stepClaims :
                      ~ /\ c.lease.token = l.token
                        /\ c.lease.owner = l.owner
                        /\ c.lease.generation = l.generation}
  /\ UNCHANGED <<log, consumed, commandRows, attemptRows, stopped, leases>>

\* Mutant: the row is matched by what is decided, not by who claimed it.
HoldsRequest(l) == \E c \in stepClaims : c.lease.request = l.request

\* The claim row still is this lease: what renewing and committing compare.
Holds(l) == \E c \in stepClaims : c.lease = l

\* _renew_step_tx: expiry alone does not revoke a claim, a takeover does.
RenewStep(l) ==
  /\ Holds(l)
  /\ stepClaims' = {[lease |-> l, live |-> TRUE]}
  /\ UNCHANGED <<log, consumed, commandRows, attemptRows, stopped, leases>>

\* The clock passes expires_at, or prepare_recovery sets it to 0.
ExpireStep ==
  /\ stepClaims' = {[c EXCEPT !.live = FALSE] : c \in stepClaims}
  /\ UNCHANGED <<log, consumed, commandRows, attemptRows, stopped, leases>>

IssuedRow(c, at) ==
  [NoCommandRow EXCEPT
    !.issued = at, !.eligible = IF c \in NeedsAuthorization THEN None ELSE at]

\* commit_step: fenced by the claim row, consumes the trigger, issues the commands.
CommitStep(l, cs) ==
  /\ Holds(l)
  /\ Open(l.request.trigger)
  /\ \A c \in cs : commandRows[c].issued = None
  /\ AppendEvent([kind |-> "step", request |-> l.request, commands |-> cs])
  /\ consumed' = [consumed EXCEPT ![l.request.trigger] = NextPosition]
  /\ commandRows' = [c \in Commands |->
                       IF c \in cs THEN IssuedRow(c, NextPosition) ELSE commandRows[c]]
  /\ stepClaims' = {c \in stepClaims :
                      ~ /\ c.lease.token = l.token
                        /\ c.lease.generation = l.generation}
  /\ UNCHANGED <<attemptRows, stopped, leases>>

\* DELETE FROM step_claims WHERE session_id = ?
ClaimsSurvivingCancel(t) == {}

\* cancel_decision: competes with CommitStep for the trigger, and drops the
\* Session's claim whatever trigger that claim is for.
CancelDecision(t) ==
  /\ Recorded(t)
  /\ Open(t)
  /\ AppendEvent([kind |-> "cancel", trigger |-> t])
  /\ consumed' = [consumed EXCEPT ![t] = NextPosition]
  /\ stepClaims' = ClaimsSurvivingCancel(t)
  /\ UNCHANGED <<commandRows, attemptRows, stopped, leases>>

\* cancel_continuation
CancelContinuation(s) ==
  /\ s \in Of(log, "step")
  /\ stopped[s] = None
  /\ AppendEvent([kind |-> "stop", step |-> s])
  /\ stopped' = [stopped EXCEPT ![s] = NextPosition]
  /\ UNCHANGED <<stepClaims, consumed, commandRows, attemptRows, leases>>

-------------------------------------------------------------------------------
\* Commands: authorization, dispatch, outcome.

AttemptsOf(c) == {a \in Positions : attemptRows[a].command = c}

\* Mutant: a rejection does not settle the verdict.
AwaitsVerdictOverRejection(c) ==
  /\ commandRows[c].issued # None
  /\ commandRows[c].outcome = None
  /\ commandRows[c].eligible = None
  /\ AttemptsOf(c) = {}

\* _authorization_causation_id_tx finds a cause: the command waits for a verdict.
AwaitsVerdict(c) ==
  /\ commandRows[c].issued # None
  /\ commandRows[c].outcome = None
  /\ commandRows[c].eligible = None
  /\ commandRows[c].rejected = None
  /\ AttemptsOf(c) = {}

Grant(c) ==
  /\ AwaitsVerdict(c)
  /\ AppendEvent([kind |-> "grant", command |-> c, cause |-> commandRows[c].issued])
  /\ commandRows' = [commandRows EXCEPT ![c].eligible = NextPosition]
  /\ UNCHANGED <<stepClaims, consumed, attemptRows, stopped, leases>>

Reject(c) ==
  /\ AwaitsVerdict(c)
  /\ AppendEvent([kind |-> "reject", command |-> c, cause |-> commandRows[c].issued])
  /\ commandRows' = [commandRows EXCEPT ![c].rejected = NextPosition]
  /\ UNCHANGED <<stepClaims, consumed, attemptRows, stopped, leases>>

\* The attempt uses the command's eligibility up.
Started(row) == [row EXCEPT !.eligible = None]

\* start_attempt accepts: the caller names the eligibility event it saw.
Startable(c, cause, n) ==
  /\ commandRows[c].issued # None
  /\ \A a \in AttemptsOf(c) : attemptRows[a].number # n
  /\ commandRows[c].outcome = None
  /\ commandRows[c].eligible # None
  /\ cause = commandRows[c].eligible
  /\ n = Cardinality(AttemptsOf(c)) + 1

StartAttempt(c, cause, n) ==
  /\ Startable(c, cause, n)
  /\ AppendEvent([kind |-> "attempt", command |-> c, number |-> n, cause |-> cause])
  /\ attemptRows' = [attemptRows EXCEPT ![NextPosition] =
                       [command |-> c, number |-> n, held |-> TRUE, terminal |-> None]]
  /\ commandRows' = [commandRows EXCEPT ![c] = Started(@)]
  /\ UNCHANGED <<stepClaims, consumed, stopped, leases>>

\* release_attempt
ReleaseAttempt(a) ==
  /\ attemptRows' = [attemptRows EXCEPT ![a].held = FALSE]
  /\ UNCHANGED <<log, stepClaims, consumed, commandRows, stopped, leases>>

\* Mutant: a later outcome is written over the first.
NeverEnded(a) == TRUE

Unended(a) == attemptRows[a].terminal = None

\* The command's canonical outcome is its first.
Concluded(row, at) ==
  IF row.outcome = None
  THEN [row EXCEPT !.outcome = at, !.eligible = None]
  ELSE row

\* record_attempt_fact: the first terminal of an attempt stays; nobody has to
\* hold the attempt's claim to write it.
RecordOutcome(a, result) ==
  LET c == attemptRows[a].command IN
  /\ c # NoCommand
  /\ Unended(a)
  /\ AppendEvent([kind |-> "outcome", command |-> c, attempt |-> a, result |-> result])
  /\ commandRows' = [commandRows EXCEPT ![c] = Concluded(@, NextPosition)]
  /\ attemptRows' = [attemptRows EXCEPT
                       ![a].terminal = NextPosition, ![a].held = FALSE]
  /\ UNCHANGED <<stepClaims, consumed, stopped, leases>>

-------------------------------------------------------------------------------
ClaimAction ==
  \/ \E r \in Requests, k \in Tokens, w \in Owners : AcquireStep(r, k, w)
  \/ \E i \in 1..Len(leases) : ReleaseStep(leases[i].lease)
  \/ \E i \in 1..Len(leases) : RenewStep(leases[i].lease)
  \/ ExpireStep

DecisionAction ==
  \/ \E i \in 1..Len(leases), cs \in SUBSET Commands : CommitStep(leases[i].lease, cs)
  \/ \E t \in Positions : CancelDecision(t)
  \/ \E s \in Positions : CancelContinuation(s)

CommandAction ==
  \/ \E c \in Commands : Grant(c)
  \/ \E c \in Commands : Reject(c)
  \/ \E c \in Commands, cause \in Positions, n \in 1..2 : StartAttempt(c, cause, n)
  \/ \E a \in Positions : ReleaseAttempt(a)
  \/ \E a \in Positions, result \in Results : RecordOutcome(a, result)

JournalNext ==
  \/ \E d \in Facts : AcceptDelivery(d)
  \/ ClaimAction
  \/ DecisionAction
  \/ CommandAction

JournalSpec == JournalInit /\ [][JournalNext]_journalVars

-------------------------------------------------------------------------------
\* Safety.

Consumes(i, t) ==
  \/ log[i].kind = "step" /\ log[i].request.trigger = t
  \/ log[i].kind = "cancel" /\ log[i].trigger = t

Issues(i, c) == log[i].kind = "step" /\ c \in log[i].commands

IsAbout(i, kind, c) == log[i].kind = kind /\ log[i].command = c

IsEligibility(i, c) ==
  IsAbout(i, "grant", c) \/ (Issues(i, c) /\ c \notin NeedsAuthorization)

Ends(i, a) == log[i].kind = "outcome" /\ log[i].attempt = a

\* A trigger is consumed by the one step or cancellation the table names.
ConsumptionsMatchLog ==
  \A t \in Positions, i \in Positions :
    consumed[t] = i <=> Recorded(i) /\ Consumes(i, t)

StopsMatchLog ==
  \A s \in Positions, i \in Positions :
    stopped[s] = i <=> Recorded(i) /\ log[i].kind = "stop" /\ log[i].step = s

\* A command's row names its step, its verdict and its outcome, and an
\* eligibility exactly while no attempt has used it.
CommandRowsMatchLog ==
  \A c \in Commands, i \in Positions :
    /\ commandRows[c].issued = i <=> Recorded(i) /\ Issues(i, c)
    /\ commandRows[c].rejected = i <=> Recorded(i) /\ IsAbout(i, "reject", c)
    /\ commandRows[c].outcome = i <=> Recorded(i) /\ IsAbout(i, "outcome", c)
    /\ commandRows[c].eligible = i <=>
         /\ Recorded(i)
         /\ IsEligibility(i, c)
         /\ \A j \in Positions : ~ (Recorded(j) /\ IsAbout(j, "attempt", c))

AttemptRowsMatchLog ==
  /\ \A a \in Positions, c \in Commands :
       attemptRows[a].command = c <=> Recorded(a) /\ IsAbout(a, "attempt", c)
  /\ \A a \in Positions, i \in Positions :
       attemptRows[a].terminal = i <=> Recorded(i) /\ Ends(i, a)

\* The index tables are a function of the log.  Every guard of every
\* transaction reads the tables and never the events, so a row that disagreed
\* with the events would let a later transaction write what the events forbid
\* (_index_event_tx against the guards of the *_tx functions).
TablesMatchLog ==
  /\ ConsumptionsMatchLog
  /\ StopsMatchLog
  /\ CommandRowsMatchLog
  /\ AttemptRowsMatchLog

\* A command is attempted at most once and ends at most once, although every
\* dispatcher may try to start it and anyone may report an outcome: "one
\* Command yields at most one Attempt, one Attempt at most one terminal
\* Outcome" (docs, Runtime: Journal guarantees).
AttemptedAndEndedOnce ==
  \A i, j \in Positions :
    /\ Recorded(i)
    /\ Recorded(j)
    /\ log[i].kind = log[j].kind
    /\ log[i].kind \in {"attempt", "outcome"}
    /\ log[i].command = log[j].command
    => i = j

GatedAttempt(i) ==
  LET c == log[i].command IN
  /\ log[i].cause < i
  /\ IsEligibility(log[i].cause, c)
  /\ \A j \in Positions : ~ (Recorded(j) /\ IsAbout(j, "reject", c))

\* The dispatch gate: an attempt names the event that made its command
\* eligible, which precedes it and, for a command that needs authorization, is
\* the grant; a rejected command is never attempted, before or after.
DispatchIsGated ==
  \A i \in Positions : Recorded(i) /\ log[i].kind = "attempt" => GatedAttempt(i)

CommitsUnderNewestLease ==
  \A n \in 1..Len(leases) :
    (\E cs \in SUBSET Commands : CommitStep(leases[n].lease, cs)) => n = Len(leases)

CommitsNothingClaimedBeforeCancel ==
  \A n \in 1..Len(leases) :
    (\E cs \in SUBSET Commands : CommitStep(leases[n].lease, cs)) =>
      \A i \in Positions : Recorded(i) /\ log[i].kind = "cancel" => i <= leases[n].at

\* A step is only ever committed under the newest lease: a Worker that lost its
\* claim to a takeover commits nothing, however late it answers.  And a
\* cancellation revokes every lease handed out before it, whatever trigger the
\* lease is for.
FencedCommits ==
  [][CommitsUnderNewestLease /\ CommitsNothingClaimedBeforeCancel]_journalVars

-------------------------------------------------------------------------------
\* What the proofs of the above rest on besides JournalTypeOK and TablesMatchLog.

\* Nothing is known of a command before a step issued it.
RowsBeginWithIssue ==
  \A c \in Commands :
    commandRows[c].issued = None
      => commandRows[c] = NoCommandRow /\ AttemptsOf(c) = {}

\* An outcome belongs to the command of the attempt it names.
OutcomesEndAttempts ==
  \A i \in Positions :
    Recorded(i) /\ log[i].kind = "outcome"
      => attemptRows[log[i].attempt].command = log[i].command

AttemptIsUnique ==
  \A a, b \in Positions :
    /\ attemptRows[a].command \in Commands
    /\ attemptRows[a].command = attemptRows[b].command
    => a = b

\* A rejected command is not eligible and has not been attempted.
RejectionIsFinal ==
  \A c \in Commands :
    commandRows[c].rejected # None => commandRows[c].eligible = None /\ AttemptsOf(c) = {}

\* Tokens tell leases apart; the claim row is for the newest lease and an event
\* of the log, and no cancellation has been recorded since it was handed out.
ClaimIsNewest ==
  /\ \A m, n \in DOMAIN leases : leases[m].lease.token = leases[n].lease.token => m = n
  /\ \A c \in stepClaims :
       /\ leases # <<>>
       /\ c.lease = leases[Len(leases)].lease
       /\ Recorded(c.lease.request.trigger)
       /\ \A i \in Positions :
            Recorded(i) /\ log[i].kind = "cancel" => i <= leases[Len(leases)].at

\* The tables are used one against the other as the transactions intend: the
\* conditions under which JournalTypeOK and TablesMatchLog are inductive.
JournalBookkeeping ==
  /\ RowsBeginWithIssue
  /\ OutcomesEndAttempts
  /\ AttemptIsUnique
  /\ RejectionIsFinal
  /\ ClaimIsNewest

-------------------------------------------------------------------------------
\* The Journal keeps EventLog's promises: whatever its callers do with the leases
\* they were handed, and through every table, it writes only events the events
\* before them justify.
Promise == INSTANCE EventLog WITH log <- log

ImplementsEventLog == Promise!LogSpec

===============================================================================
