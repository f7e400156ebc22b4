------------------------------- MODULE OneShot -------------------------------
(***************************************************************************)
(* One-shot automation: redpanda/automation.  The Host's clock loop and its*)
(* two tables, the schedule_once and cancel_schedule commands of the       *)
(* Sessions' Workers, and the delivery of a fired check to the Journal of  *)
(* its Session.  A Worker and the Host may die at any step; an attempt that*)
(* was started and has no outcome is settled by the next Worker.           *)
(***************************************************************************)
EXTENDS Naturals, FiniteSets

CONSTANTS
  Sessions,
  Schedules,    \* commands that call schedule_once; the command is the schedule's id
  Cancels,      \* commands that call cancel_schedule
  SessionOf,    \* the Session that issues a command
  Target,       \* the schedule_id a cancellation names
  Delay,        \* delay_seconds of a schedule
  MayBreak,     \* Sessions whose Worker may become unable to start
  LastStart,    \* bound: the last time at which a schedule_once starts
  LastTime,     \* bound: the last time
  MaxFaults,    \* bound: Workers that end and Hosts that crash
  None

ShotCommands == Schedules \cup Cancels

Codes == {"CANCELLED", "ALREADY_FIRED", "NOT_FOUND"}

ASSUME OneShotAssumption ==
  /\ SessionOf \in [ShotCommands -> Sessions]
  /\ Target \in [Cancels -> Schedules]
  /\ Delay \in [Schedules -> Nat \ {0}]
  /\ MayBreak \subseteq Sessions
  /\ LastStart \in Nat /\ LastTime \in Nat
  /\ \A s \in Schedules : LastStart + Delay[s] <= LastTime
  /\ MaxFaults \in Nat
  /\ Schedules \cap Cancels = {}
  /\ None \notin Nat /\ None \notin Schedules /\ None \notin Codes

Times == Nat \cup {None}

Rows == [due : Times, fired : Times, delivered : BOOLEAN]

TimeFacts == [planned : Times, fired : Times]

Attempts ==
  [pc : {"idle", "asked", "answered", "unknown", "ended"}, started : Times,
   reply : Codes \cup {"SCHEDULED", None}]

NoRow == [due |-> None, fired |-> None, delivered |-> FALSE]

NoFact == [planned |-> None, fired |-> None]

VARIABLES
  now,      \* the Host's clock
  rows,     \* schedules: due_at, fired_at, delivered_at of each schedule_id
  codes,    \* schedule_cancellations: the code of each cancellation's command_id
  attempts, \* where the attempt of each command is, when it started, what was answered
  workers,  \* the Worker of each Session
  broken,   \* Sessions no Worker can be started for
  clock,    \* OneShotClock.run: where it is, and the check it holds over an await
  changed,  \* the clock's asyncio.Event
  accepted, \* the time fact each Session's Journal holds under delivery_id = schedule_id
  mishaps

tables == <<rows, codes>>

clockVars == <<clock, changed>>

troubles == <<broken, mishaps>>

oneShotVars ==
  <<now, rows, codes, attempts, workers, broken, clock, changed, accepted, mishaps>>

Registered(s) == rows[s].due # None

Fired(s) == rows[s].fired # None

Cancelled(s) == \E c \in Cancels : Target[c] = s /\ codes[c] = "CANCELLED"

Accepted(s) == accepted[s] # NoFact

ClockTypeOK ==
  /\ clock \in [pc : {"look", "wait", "fire", "deliver", "confirm", "sleep"},
                check : Schedules \cup {None}]
  /\ clock.pc \in {"fire", "deliver", "confirm"} => clock.check # None
  /\ clock.pc \in {"deliver", "confirm"} => Fired(clock.check)
  /\ changed \in BOOLEAN

OneShotTypeOK ==
  /\ now \in 0..LastTime
  /\ rows \in [Schedules -> Rows]
  /\ codes \in [Cancels -> Codes \cup {None}]
  /\ attempts \in [ShotCommands -> Attempts]
  /\ workers \in [Sessions -> {"down", "recovering", "up"}]
  /\ broken \in SUBSET MayBreak
  /\ ClockTypeOK
  /\ accepted \in [Schedules -> TimeFacts]
  /\ mishaps \in 0..MaxFaults

AtLook == [pc |-> "look", check |-> None]

OneShotInit ==
  /\ now = 0
  /\ rows = [s \in Schedules |-> NoRow]
  /\ codes = [c \in Cancels |-> None]
  /\ attempts = [c \in ShotCommands |-> [pc |-> "idle", started |-> None, reply |-> None]]
  /\ workers = [a \in Sessions |-> "up"]
  /\ broken = {}
  /\ clock = AtLook
  /\ changed = FALSE
  /\ accepted = [s \in Schedules |-> NoFact]
  /\ mishaps = 0

\* next_pending's WHERE, and the rows its ORDER BY may put first
Pending == {s \in Schedules : Registered(s) /\ ~rows[s].delivered /\ ~Cancelled(s)}

Earliest == {s \in Pending : \A r \in Pending : rows[s].due <= rows[r].due}

-------------------------------------------------------------------------------
\* The commands: an attempt starts, the Host answers, the Journal takes the outcome.

Begin(c) ==
  /\ workers[SessionOf[c]] = "up"
  /\ attempts[c].pc = "idle"
  /\ c \in Schedules => now <= LastStart
  /\ attempts' = [attempts EXCEPT ![c] = [pc |-> "asked", started |-> now, reply |-> None]]
  /\ UNCHANGED <<now, tables, workers, clockVars, accepted, troubles>>

Answer(c, reply) == attempts' = [attempts EXCEPT ![c].pc = "answered", ![c].reply = reply]

\* A schedule that is asked for again was started long ago: its due_at counts from there.
DueAt(s) ==
  Delay[s] + IF workers[SessionOf[s]] = "recovering" THEN attempts[s].started ELSE now

\* INSERT OR IGNORE
InsertSchedule(s) ==
  rows' = IF Registered(s) THEN rows ELSE [rows EXCEPT ![s] = [NoRow EXCEPT !.due = DueAt(s)]]

\* Mutant: the clock is not told of a new schedule.
RegisterQuietly(s) ==
  /\ attempts[s].pc = "asked"
  /\ InsertSchedule(s)
  /\ Answer(s, "SCHEDULED")
  /\ UNCHANGED <<now, codes, workers, clockVars, accepted, troubles>>

RegisterSchedule(s) ==
  /\ attempts[s].pc = "asked"
  /\ InsertSchedule(s)
  /\ Answer(s, "SCHEDULED")
  /\ changed' = TRUE
  /\ UNCHANGED <<now, codes, workers, clock, accepted, troubles>>

\* What the transaction reads under BEGIN IMMEDIATE.
Verdict(c) ==
  IF ~Registered(Target[c]) \/ SessionOf[Target[c]] # SessionOf[c] THEN "NOT_FOUND"
  ELSE IF Fired(Target[c]) THEN "ALREADY_FIRED" ELSE "CANCELLED"

\* The code of a command that was executed before, or the verdict.
CodeFor(c) == IF codes[c] # None THEN codes[c] ELSE Verdict(c)

CancelSchedule(c) ==
  /\ attempts[c].pc = "asked"
  /\ Answer(c, CodeFor(c))
  /\ codes' = IF codes[c] # None THEN codes ELSE [codes EXCEPT ![c] = Verdict(c)]
  /\ changed' = (changed \/ CodeFor(c) = "CANCELLED")
  /\ UNCHANGED <<now, rows, workers, clock, accepted, troubles>>

RecordAnswer(c) ==
  /\ attempts[c].pc = "answered"
  /\ attempts' = [attempts EXCEPT ![c].pc = "ended"]
  /\ UNCHANGED <<now, tables, workers, clockVars, accepted, troubles>>

-------------------------------------------------------------------------------
\* The Workers.  What a dying Worker had started and not recorded is unknown.

Forgotten(lost) ==
  [c \in ShotCommands |->
     IF SessionOf[c] \in lost /\ attempts[c].pc \in {"asked", "answered"}
     THEN [attempts[c] EXCEPT !.pc = "unknown", !.reply = None] ELSE attempts[c]]

\* The clock's request to that Worker fails with it: ScheduleDeliveryUnavailable.
DeliveryFails(a) ==
  IF clock.pc \in {"deliver", "confirm"} /\ SessionOf[clock.check] = a
  THEN clock' = [pc |-> "sleep", check |-> None]
  ELSE UNCHANGED clock

WorkerEnds(a) ==
  /\ workers[a] # "down"
  /\ mishaps < MaxFaults
  /\ mishaps' = mishaps + 1
  /\ workers' = [workers EXCEPT ![a] = "down"]
  /\ attempts' = Forgotten({a})
  /\ DeliveryFails(a)
  /\ UNCHANGED <<now, tables, changed, accepted, broken>>

\* Some request for the Session, the clock's among them, starts its Worker.
WorkerStarts(a) ==
  /\ workers[a] = "down"
  /\ a \notin broken
  /\ workers' = [workers EXCEPT ![a] = "recovering"]
  /\ UNCHANGED <<now, tables, attempts, clockVars, accepted, troubles>>

\* recover_schedule_attempts: one unknown attempt after the other is asked for again.
Recover(c) ==
  /\ workers[SessionOf[c]] = "recovering"
  /\ attempts[c].pc = "unknown"
  /\ \A d \in ShotCommands :
       SessionOf[d] = SessionOf[c] => attempts[d].pc \notin {"asked", "answered"}
  /\ attempts' = [attempts EXCEPT ![c].pc = "asked"]
  /\ UNCHANGED <<now, tables, workers, clockVars, accepted, troubles>>

\* ready.set(): requests are handled from here.
WorkerReady(a) ==
  /\ workers[a] = "recovering"
  /\ \A c \in ShotCommands : SessionOf[c] = a => attempts[c].pc \in {"idle", "ended"}
  /\ workers' = [workers EXCEPT ![a] = "up"]
  /\ UNCHANGED <<now, tables, attempts, clockVars, accepted, troubles>>

\* The Session's workspace is gone, say: every Worker that starts for it fails.
Break(a) ==
  /\ a \in MayBreak \ broken
  /\ workers[a] = "down"
  /\ broken' = broken \cup {a}
  /\ UNCHANGED <<now, tables, attempts, workers, clockVars, accepted, mishaps>>

HostCrashes ==
  /\ mishaps < MaxFaults
  /\ mishaps' = mishaps + 1
  /\ workers' = [a \in Sessions |-> "down"]
  /\ attempts' = Forgotten(Sessions)
  /\ clock' = AtLook
  /\ changed' = FALSE
  /\ UNCHANGED <<now, tables, accepted, broken>>

-------------------------------------------------------------------------------
\* OneShotClock.run

\* next_pending and changed.clear() run without an await between them.
Look ==
  /\ clock.pc = "look"
  /\ changed' = FALSE
  /\ \/ Pending = {} /\ clock' = [pc |-> "wait", check |-> None]
     \/ \E s \in Earliest :
          clock' = [pc |-> IF rows[s].due > now THEN "wait" ELSE "fire", check |-> s]
  /\ UNCHANGED <<now, tables, attempts, workers, accepted, troubles>>

\* The Event is set: look again.
Woken ==
  /\ clock.pc = "wait"
  /\ changed
  /\ clock' = AtLook
  /\ UNCHANGED <<now, tables, attempts, workers, changed, accepted, troubles>>

\* wait_for times out; the Event may be set too, and the check it holds be cancelled.
TimeReached ==
  /\ clock.pc = "wait"
  /\ clock.check # None
  /\ rows[clock.check].due <= now
  /\ clock' = [clock EXCEPT !.pc = "fire"]
  /\ UNCHANGED <<now, tables, attempts, workers, changed, accepted, troubles>>

\* Mutant: a check found due is fired though it was cancelled while the clock waited.
FiredUnchecked(s) == ~Fired(s)

\* The WHERE of firing_time's UPDATE
MayFire(s) == ~Fired(s) /\ ~Cancelled(s)

FiringTime ==
  /\ clock.pc = "fire"
  /\ LET s == clock.check IN
     /\ rows' = IF MayFire(s) THEN [rows EXCEPT ![s].fired = now] ELSE rows
     /\ clock' = IF rows'[s].fired = None THEN AtLook ELSE [clock EXCEPT !.pc = "deliver"]
  /\ UNCHANGED <<now, codes, attempts, workers, changed, accepted, troubles>>

FactOf(s) == [planned |-> rows[s].due, fired |-> rows[s].fired]

\* The Worker writes the fact to its Journal, once for each delivery_id, and answers.
AcceptTime ==
  /\ clock.pc = "deliver"
  /\ LET s == clock.check IN
     /\ workers[SessionOf[s]] = "up"
     /\ accepted' = IF Accepted(s) THEN accepted ELSE [accepted EXCEPT ![s] = FactOf(s)]
  /\ clock' = [clock EXCEPT !.pc = "confirm"]
  /\ UNCHANGED <<now, tables, attempts, workers, changed, troubles>>

\* WorkerFailed on the start of a Session that is broken
Unavailable ==
  /\ clock.pc = "deliver"
  /\ SessionOf[clock.check] \in broken
  /\ clock' = [pc |-> "sleep", check |-> None]
  /\ UNCHANGED <<now, tables, attempts, workers, changed, accepted, troubles>>

\* Mutant: the mark is set when the request is sent.
MarkedEarly ==
  /\ clock.pc \in {"deliver", "confirm"}
  /\ rows' = [rows EXCEPT ![clock.check].delivered = TRUE]
  /\ clock' = AtLook
  /\ UNCHANGED <<now, codes, attempts, workers, changed, accepted, troubles>>

Delivered ==
  /\ clock.pc = "confirm"
  /\ rows' = [rows EXCEPT ![clock.check].delivered = TRUE]
  /\ clock' = AtLook
  /\ UNCHANGED <<now, codes, attempts, workers, changed, accepted, troubles>>

\* The thirty seconds after a failed delivery
SleepOver ==
  /\ clock.pc = "sleep"
  /\ clock' = AtLook
  /\ UNCHANGED <<now, tables, attempts, workers, changed, accepted, troubles>>

\* Time passes.  Bound: it waits for a first registration when it would run past LastTime.
Tick ==
  /\ now < LastTime
  /\ now < LastStart \/ \A s \in Schedules : attempts[s].pc # "asked"
  /\ now' = now + 1
  /\ UNCHANGED <<tables, attempts, workers, clockVars, accepted, troubles>>

-------------------------------------------------------------------------------
ClockStep ==
  \/ Look
  \/ Woken
  \/ TimeReached
  \/ FiringTime
  \/ AcceptTime
  \/ Unavailable
  \/ Delivered
  \/ SleepOver

\* What the Host does with a request of a Worker, and what the Worker does with the answer.
Serve ==
  \/ \E s \in Schedules : RegisterSchedule(s)
  \/ \E c \in Cancels : CancelSchedule(c)
  \/ \E c \in ShotCommands : RecordAnswer(c)

Recovery ==
  \/ \E c \in ShotCommands : Recover(c)
  \/ \E a \in Sessions : WorkerReady(a)

OneShotNext ==
  \/ ClockStep
  \/ Serve
  \/ Recovery
  \/ \E c \in ShotCommands : Begin(c)
  \/ \E a \in Sessions : WorkerStarts(a)
  \/ \E a \in Sessions : WorkerEnds(a)
  \/ \E a \in Sessions : Break(a)
  \/ HostCrashes
  \/ Tick

OneShotSpec == OneShotInit /\ [][OneShotNext]_oneShotVars

\* The clock's own request starts the Worker it needs.
StartForDelivery ==
  /\ clock.pc = "deliver"
  /\ WorkerStarts(SessionOf[clock.check])

\* The event loop runs what is ready, sleeps and timeouts end, a Worker that was started
\* recovers; that a user comes back, or a command is issued, nobody promises.
OneShotFairSpec ==
  /\ OneShotSpec
  /\ WF_oneShotVars(ClockStep)
  /\ WF_oneShotVars(Serve)
  /\ WF_oneShotVars(Recovery)
  /\ WF_oneShotVars(StartForDelivery)
  /\ WF_oneShotVars(Tick)

-------------------------------------------------------------------------------
(* A cancellation that is recorded as CANCELLED wins for good, whatever    *)
(* crashes, retries or timeouts follow: the check is never marked as fired *)
(* and never reaches the Journal of its Session.                           *)
CancelledNeverFires ==
  \A s \in Schedules : Cancelled(s) => ~Fired(s) /\ ~Accepted(s)

(* The answer a command gives, across a Worker that died and a recovery    *)
(* that asked again, is what the Host durably decided: a schedule that was *)
(* confirmed exists, and a cancellation answers with its one code, which   *)
(* says ALREADY_FIRED only of a check that has fired.                      *)
AnswersAreDurable ==
  \A c \in ShotCommands :
    attempts[c].pc \in {"answered", "ended"} =>
      IF c \in Schedules THEN Registered(c)
      ELSE /\ attempts[c].reply = codes[c]
           /\ codes[c] = "ALREADY_FIRED" => Fired(Target[c])

(* Every try to deliver a check carries the fact the Journal already holds *)
(* under its delivery_id, if it holds one; another content is a conflict   *)
(* that ends the Worker.                                                   *)
RedeliveryAgrees ==
  \A s \in Schedules : Accepted(s) => accepted[s] = FactOf(s)

(* The cancellation and the firing of a check have one winner, for the     *)
(* command that cancels, for the Journal it is delivered to and for every  *)
(* retry of either.                                                        *)
OneVerdict == CancelledNeverFires /\ AnswersAreDurable /\ RedeliveryAgrees

(* A check is marked as delivered only when its Journal holds the fact.    *)
DeliveredIsAccepted ==
  \A s \in Schedules : rows[s].delivered => Accepted(s)

\* The clock retries a check whose Session has no Worker before it looks at any later one.
Held(s) ==
  Registered(s) /\ \E t \in Pending : rows[t].due <= rows[s].due /\ SessionOf[t] \in broken

(* Worker and Host crashes included, a registered check is in the end      *)
(* cancelled or in the Journal of its Session, unless no Worker can start  *)
(* for that Session or, the known gap, for that of an earlier check.       *)
EveryCheckArrives ==
  \A s \in Schedules : Registered(s) ~> (Accepted(s) \/ Cancelled(s) \/ Held(s))

===============================================================================
