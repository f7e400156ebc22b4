-------------------------------- MODULE Control --------------------------------
(***************************************************************************)
(* The control requests of one Session (assistant/control.py and           *)
(* assistant/sessions.py): proposals that change what the product has      *)
(* installed, which a human approves.  A request is committed with a Step; *)
(* its candidate is prepared afterwards, by the turn that committed it and *)
(* by whoever resumes the Session; yes or no, the start and the end of the *)
(* execution are facts of their own.                                       *)
(*                                                                         *)
(* Tasks of the Worker: the turn (SessionScheduler._advance_once), one     *)
(* resume, and the people who answer.  Abstracted: what a request asks     *)
(* for; a candidate is one of Candidates.                                  *)
(***************************************************************************)
EXTENDS Sequences, Faults

CONSTANTS
  Deciders,    \* answers on their way to the Worker
  Candidates,  \* what a preparation may find
  MaxRequests  \* bound: control requests the model makes

ASSUME ControlAssumption ==
  /\ MaxRequests \in Nat
  /\ {"turn", "resume", None} \cap Deciders = {} /\ None \notin {"turn", "resume"}

VARIABLES
  facts,      \* the control facts of the Journal, the committed requests included
  task,       \* what each task does
  locked,     \* the task that holds the control lock, or None
  active,     \* the Session is in _active_sessions
  worker,     \* "down", "starting" or "ready"
  ran,        \* how often the handler of each request was started
  overlapped, \* a preparation began before another had ended and committed its result
  controlFaults

controlVars == <<facts, task, locked, active, worker, ran, overlapped, controlFaults>>

Tasks == {"turn", "resume"} \cup Deciders
Idle == [pc |-> "idle"]
Fact(req, phase, content) == [req |-> req, phase |-> phase, content |-> content]

ControlInit ==
  /\ facts = <<>>
  /\ task = [t \in Tasks |-> Idle]
  /\ locked = None
  /\ active = FALSE
  /\ worker = "down"
  /\ ran = [req \in 1..MaxRequests |-> 0]
  /\ overlapped = FALSE
  /\ controlFaults = 0

-------------------------------------------------------------------------------
\* The projection of the facts

Terminal == {"concluded", "preparation_failed", "rejected", "succeeded", "failed"}

\* _require_transition
Allowed ==
  [none              |-> {"requested"},
   requested         |-> {"proposed", "concluded", "preparation_failed"},
   proposed          |-> {"approved", "rejected"},
   approved          |-> {"execution_started"},
   execution_started |-> {"succeeded", "failed"}]

PhaseAt(req, n) ==
  LET own == {i \in 1..n : facts[i].req = req}
  IN IF own = {} THEN "none"
     ELSE facts[CHOOSE i \in own : \A j \in own : j <= i].phase

Phase(req) == PhaseAt(req, Len(facts))

\* project_control raises on anything else, and with it every view of the Session.
Legal ==
  \A i \in 1..Len(facts) :
    /\ PhaseAt(facts[i].req, i - 1) \notin Terminal
    /\ facts[i].phase \in Allowed[PhaseAt(facts[i].req, i - 1)]
    /\ \A req \in 1..MaxRequests :
         req # facts[i].req => PhaseAt(req, i - 1) \in Terminal \cup {"none"}

Requests == {req \in 1..MaxRequests : Phase(req) # "none"}
Undecided == {req \in Requests : Phase(req) \notin Terminal}
InPhase(phase) == {req \in Undecided : Phase(req) = phase}

-------------------------------------------------------------------------------
\* The Worker

Dead ==
  /\ worker' = "down"
  /\ task' = [t \in Tasks |-> Idle]
  /\ locked' = None
  /\ active' = FALSE

Die ==
  /\ worker # "down"
  /\ controlFaults < MaxFaults
  /\ controlFaults' = controlFaults + 1
  /\ Dead
  /\ UNCHANGED <<facts, ran, overlapped>>

Becomes(t, state) == task' = [task EXCEPT ![t] = state]

Free(t) == locked' = IF locked = t THEN None ELSE locked

\* The resume that comes with the start is over before anything else is served.
Done(t) ==
  /\ Becomes(t, Idle)
  /\ Free(t)
  /\ worker' = IF t = "resume" THEN "ready" ELSE worker

Boot ==
  /\ worker = "down"
  /\ Legal
  /\ worker' = "starting"
  /\ Becomes("resume", [pc |-> "waiting"])
  /\ UNCHANGED <<facts, locked, active, ran, overlapped, controlFaults>>

\* Somebody resumes a Session that runs.
Resume ==
  /\ worker = "ready"
  /\ task["resume"] = Idle
  /\ Becomes("resume", [pc |-> "waiting"])
  /\ UNCHANGED <<facts, locked, active, worker, ran, overlapped, controlFaults>>

\* Mutant: the lock keeps nobody out.
NoLock(t) == locked' = t

TakesLock(t) == locked = None /\ locked' = t

\* A delivery that is repeated finds its fact; another content under its id raises.
Repeated(fact) ==
  \E i \in 1..Len(facts) : facts[i].req = fact.req /\ facts[i].phase = fact.phase
Same(fact) == \E i \in 1..Len(facts) : facts[i] = fact

Commit(t, fact, next) ==
  IF Repeated(fact) /\ ~Same(fact)
  THEN Dead /\ UNCHANGED facts
  ELSE /\ facts' = IF Same(fact) THEN facts ELSE Append(facts, fact)
       /\ IF next = Idle THEN Done(t) ELSE Becomes(t, next) /\ UNCHANGED <<locked, worker>>
       /\ UNCHANGED active

-------------------------------------------------------------------------------
\* The turn: a decision, then the preparation of what is requested

\* schemas, and decide reads them with the facts of its frame
Offered == Undecided = {} /\ ~active

BeginTurn ==
  /\ worker = "ready"
  /\ task["turn"] = Idle
  /\ Legal
  /\ Becomes("turn", [pc |-> "deciding", offered |-> Offered])
  /\ UNCHANGED <<facts, locked, active, worker, ran, overlapped, controlFaults>>

\* The Step is committed, with a control request or without.
EndStep ==
  /\ task["turn"].pc = "deciding"
  /\ \/ UNCHANGED facts
     \/ /\ task["turn"].offered
        /\ \E req \in 1..MaxRequests :
             /\ Requests = 1..(req - 1)
             /\ facts' = Append(facts, Fact(req, "requested", None))
  /\ Becomes("turn", [pc |-> "locked"])
  /\ UNCHANGED <<locked, active, worker, ran, overlapped, controlFaults>>

\* recover_control under the lock
TakeResume ==
  /\ task["resume"].pc = "waiting"
  /\ TakesLock("resume")
  /\ Becomes("resume", [pc |-> "locked"])
  /\ UNCHANGED <<facts, active, worker, ran, overlapped, controlFaults>>

\* prepare_pending: nothing is requested, or the handler looks for a candidate.
Preparing(t) ==
  /\ t \in {"turn", "resume"}
  /\ task[t].pc = "locked"
  /\ Legal
  /\ IF InPhase("requested") = {}
     THEN /\ IF t = "resume" THEN Becomes(t, [pc |-> "recover"]) /\ UNCHANGED <<locked, worker>>
             ELSE Done(t)
          /\ UNCHANGED <<active, overlapped>>
     ELSE /\ \E req \in InPhase("requested") : Becomes(t, [pc |-> "preparing", req |-> req])
          /\ active' = TRUE
          /\ overlapped' = (overlapped \/ \E other \in Tasks : task[other].pc \in {"preparing", "prepared"})
          /\ UNCHANGED <<locked, worker>>
  /\ UNCHANGED <<facts, ran, controlFaults>>

\* The candidate is found, or it is known that there is none.  The second preparation
\* to end does not find the Session among the active ones and raises.
Prepared(t) ==
  /\ task[t].pc = "preparing"
  /\ IF ~active
     THEN Dead
     ELSE /\ active' = FALSE
          /\ \E fact \in {Fact(task[t].req, "proposed", found) : found \in Candidates}
                          \cup {Fact(task[t].req, "concluded", None),
                                 Fact(task[t].req, "preparation_failed", None)} :
               Becomes(t, [pc |-> "prepared", fact |-> fact])
          /\ UNCHANGED <<locked, worker>>
  /\ UNCHANGED <<facts, ran, overlapped, controlFaults>>

CommitPrepared(t) ==
  /\ task[t].pc = "prepared"
  /\ Commit(t, task[t].fact, IF t = "resume" THEN [pc |-> "recover"] ELSE Idle)
  /\ UNCHANGED <<ran, overlapped, controlFaults>>

\* What was approved when the Worker died is executed now.
Recover ==
  /\ task["resume"].pc = "recover"
  /\ Legal
  /\ IF InPhase("approved") = {}
     THEN Done("resume")
     ELSE /\ Becomes("resume", [pc |-> "approved"])
          /\ UNCHANGED <<locked, worker>>
  /\ UNCHANGED <<facts, active, ran, overlapped, controlFaults>>

-------------------------------------------------------------------------------
\* resolve_control

Answer(d) ==
  /\ worker = "ready"
  /\ task[d] = Idle
  /\ \E req \in Requests, yes \in BOOLEAN :
       Becomes(d, [pc |-> "waiting", req |-> req, yes |-> yes])
  /\ UNCHANGED <<facts, locked, active, worker, ran, overlapped, controlFaults>>

\* An answer to what is decided already finds the decision, or contradicts it: an
\* error, which ends the Worker.
Decide(d) ==
  /\ d \in Deciders
  /\ task[d].pc = "waiting"
  /\ Legal
  /\ LET phase == Phase(task[d].req)
         agrees == \/ phase = "rejected" /\ ~task[d].yes
                   \/ phase \in {"succeeded", "failed", "execution_started"} /\ task[d].yes
     IN \/ /\ phase = "proposed"
           /\ TakesLock(d)
           /\ Becomes(d, [task[d] EXCEPT !.pc = "deciding"])
           /\ UNCHANGED <<active, worker>>
        \/ /\ phase = "approved" /\ task[d].yes
           /\ TakesLock(d)
           /\ Becomes(d, [pc |-> "approved"])
           /\ UNCHANGED <<active, worker>>
        \/ /\ agrees
           /\ locked = None
           /\ Done(d)
           /\ UNCHANGED active
        \/ /\ ~agrees /\ phase # "proposed" /\ ~(phase = "approved" /\ task[d].yes)
           /\ locked = None
           /\ Dead
  /\ UNCHANGED <<facts, ran, overlapped, controlFaults>>

CommitAnswer(d) ==
  /\ d \in Deciders
  /\ task[d].pc = "deciding"
  /\ Commit(d, Fact(task[d].req, IF task[d].yes THEN "approved" ELSE "rejected", None),
            IF task[d].yes THEN [pc |-> "approved"] ELSE Idle)
  /\ UNCHANGED <<ran, overlapped, controlFaults>>

\* _execute_approved: the fact before the effect
StartExecution(t) ==
  /\ task[t].pc = "approved"
  /\ \E req \in InPhase("approved") :
       Commit(t, Fact(req, "execution_started", None), [pc |-> "starting", req |-> req])
  /\ UNCHANGED <<ran, overlapped, controlFaults>>

Execute(t) ==
  /\ task[t].pc = "starting"
  /\ ran' = [ran EXCEPT ![task[t].req] = @ + 1]
  /\ Becomes(t, [task[t] EXCEPT !.pc = "running"])
  /\ UNCHANGED <<facts, locked, active, worker, overlapped, controlFaults>>

EndExecution(t) ==
  /\ task[t].pc = "running"
  /\ \E phase \in {"succeeded", "failed"} : Commit(t, Fact(task[t].req, phase, None), Idle)
  /\ UNCHANGED <<ran, overlapped, controlFaults>>

\* The caller of a request is cancelled, and the Host aborts it.
Abort(t) ==
  /\ t # "turn"
  /\ worker = "ready"
  /\ task[t] # Idle
  /\ controlFaults < MaxFaults
  /\ controlFaults' = controlFaults + 1
  /\ IF task[t].pc = "preparing" /\ ~active THEN Dead
     ELSE Done(t) /\ active' = (active /\ task[t].pc # "preparing")
  /\ UNCHANGED <<facts, ran, overlapped>>

ControlNext ==
  \/ Boot \/ Resume \/ Die
  \/ BeginTurn \/ EndStep
  \/ TakeResume \/ Recover
  \/ \E t \in Tasks :
       \/ Preparing(t) \/ Prepared(t) \/ CommitPrepared(t)
       \/ StartExecution(t) \/ Execute(t) \/ EndExecution(t) \/ Abort(t)
  \/ \E d \in Deciders : Answer(d) \/ Decide(d) \/ CommitAnswer(d)

ControlSpec == ControlInit /\ [][ControlNext]_controlVars

-------------------------------------------------------------------------------
\* Properties

\* The handler of a request runs once at most, whatever is answered, repeated, resumed or
\* aborted and whenever the Worker dies, and only what was proposed and approved.
RunsOnceApproved ==
  \A req \in Requests :
    /\ ran[req] <= 1
    /\ ran[req] = 1 => \E i \in 1..Len(facts) :
                         facts[i].req = req /\ facts[i].phase = "approved"

\* Only two preparations at the same time, of the turn and of a resume, break the history.
OnlyKnownCorruption == overlapped \/ Legal

\* One request has one course, which the Session can read again, but for the known gap.
OneCourse == RunsOnceApproved /\ OnlyKnownCorruption

===============================================================================
