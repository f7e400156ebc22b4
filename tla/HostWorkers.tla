----------------------------- MODULE HostWorkers -----------------------------
(***************************************************************************)
(* redpanda/assistant/host: one Session's Worker as HostSupervisor runs it.*)
(* Requests of the Host's callers, the pipe in both directions, the Worker *)
(* process (recovery, requests, the loop that advertises idle and busy),   *)
(* the handshake that stops an idle Worker, its death at any point, the    *)
(* watcher that cleans up after it, and reclaim, which kills it.  The locks*)
(* and the records are per Session, so that Sessions do not interact here. *)
(* Busy stands for a Scheduler that is not idle.                           *)
(***************************************************************************)
EXTENDS Naturals, Sequences, FiniteSets

CONSTANTS
  Calls,       \* calls of HostSupervisor.request for this Session
  MaxKills,    \* bound: Workers that die by themselves and calls of _reclaim_child
  MaxSwitches, \* bound: select and release
  NoRevision

ASSUME HostAssumption ==
  /\ MaxKills \in Nat /\ MaxSwitches \in Nat
  /\ NoRevision \notin Nat
  /\ Calls \cap {"free", "reclaim"} = {}

VARIABLES
  host,     \* the entry in workers and its Worker record
  calls,    \* where each request is
  lock,     \* who holds locks[session_id] over an await
  down, up, \* the pipe: Host to Worker, Worker to Host
  proc,     \* the Worker process
  selected, \* some owner has selected the Session
  written,  \* requests whose fact is in the Journal
  cancelled,\* reclaim has written the child's cancelled return
  frozen,   \* the Host's event loop spins and runs nothing else
  crossed,  \* history: busy ended a transition with a stop still on its way, or agreed to
  faults, reclaims, switches

pipeVars == <<down, up>>

historyVars == <<written, cancelled, crossed>>

bounds == <<faults, reclaims, switches>>

hostVars ==
  <<host, calls, lock, down, up, proc, selected, written, cancelled, frozen, crossed,
    faults, reclaims, switches>>

\* watch: where _watch is.
NewWorker ==
  [entry |-> TRUE, idle |-> NoRevision, stopping |-> FALSE, transition |-> FALSE,
   watch |-> "reading"]

NoWorker == [NewWorker EXCEPT !.entry = FALSE, !.watch = "exited", !.transition = TRUE]

\* open: its end of the pipe; end: how it ends.
NewProcess ==
  [pc |-> "recovering", open |-> TRUE, end |-> "clean", revision |-> 0, advertised |-> NoRevision,
   shownBusy |-> FALSE, changed |-> FALSE, stop |-> FALSE, busy |-> FALSE, handling |-> {}]

Dead == [NewProcess EXCEPT !.pc = "dead", !.open = FALSE]

Unanswered == {"sending", "asked", "answered"}

Ended == {"done", "failed", "lost"}

WorkerRecords ==
  [entry : BOOLEAN, idle : Nat \cup {NoRevision}, stopping : BOOLEAN, transition : BOOLEAN,
   watch : {"reading", "joining", "closing", "exited"}]

CallRecords ==
  [pc : {"out", "enter", "starting", "waiting"} \cup Unanswered \cup Ended, first : BOOLEAN]

Processes ==
  [pc : {"recovering", "wait", "top", "view", "closing", "closed", "dead"}, open : BOOLEAN,
   end : {"clean", "died", "reclaimed"}, revision : Nat, advertised : Nat \cup {NoRevision},
   shownBusy : BOOLEAN, changed : BOOLEAN, stop : BOOLEAN, busy : BOOLEAN,
   handling : SUBSET Calls]

Messages ==
  [kind : {"request", "response"}, value : Calls] \cup
  [kind : {"stop", "idle", "busy", "stopping"}, value : Nat \cup {NoRevision}]

HostTypeOK ==
  /\ host \in WorkerRecords
  /\ calls \in [Calls -> CallRecords]
  /\ lock \in Calls \cup {"free", "reclaim"}
  /\ proc \in Processes
  /\ down \in Seq(Messages)
  /\ up \in Seq(Messages)
  /\ host.entry <=> host.watch # "exited"
  /\ \A c \in Calls : calls[c].pc = "starting" <=> lock = c

HostInit ==
  /\ host = NoWorker
  /\ calls = [c \in Calls |-> [pc |-> "out", first |-> FALSE]]
  /\ lock = "free"
  /\ down = << >> /\ up = << >>
  /\ proc = Dead
  /\ selected = FALSE
  /\ written = {}
  /\ cancelled = FALSE
  /\ frozen = FALSE
  /\ crossed = FALSE
  /\ faults = 0 /\ reclaims = 0 /\ switches = 0

\* worker.requests
Requests == {c \in Calls : calls[c].pc \in Unanswered}

Moved(c, pc) == calls' = [calls EXCEPT ![c].pc = pc]

\* Messages of the pipe; a Worker that is gone reads nothing.
Message(kind, value) == [kind |-> kind, value |-> value]

Posted(message) == IF proc.open THEN Append(down, message) ELSE down

Told(kind, value) == up' = Append(up, Message(kind, value))

-------------------------------------------------------------------------------
\* The stop handshake, the Host's side: _stop_idle of the record h, with requests rs.

\* Mutant: open requests do not keep a Worker from being stopped.
StoppableInUse(h, rs, sel) == h.idle # NoRevision /\ ~h.stopping /\ ~sel

Stoppable(h, rs, sel) == rs = {} /\ h.idle # NoRevision /\ ~h.stopping /\ ~sel

StopIdle(h, rs, sel) ==
  IF Stoppable(h, rs, sel)
  THEN /\ host' = [h EXCEPT !.stopping = TRUE, !.transition = FALSE]
       /\ down' = Posted(Message("stop", h.idle))
  ELSE /\ host' = h
       /\ UNCHANGED down

-------------------------------------------------------------------------------
\* request

Call(c) ==
  /\ calls[c].pc = "out"
  /\ Moved(c, "enter")
  /\ UNCHANGED <<host, lock, pipeVars, proc, selected, frozen, historyVars, bounds>>

\* No entry: _start, which awaits the Journal with the lock held.
EnterEmpty(c) ==
  /\ calls[c].pc = "enter" /\ lock = "free"
  /\ ~host.entry
  /\ lock' = c
  /\ Moved(c, "starting")
  /\ UNCHANGED <<host, pipeVars, proc, selected, frozen, historyVars, bounds>>

\* The process is spawned, and the request goes on without another await.
StartWorker(c) ==
  /\ calls[c].pc = "starting"
  /\ host' = NewWorker
  /\ proc' = NewProcess
  /\ down' = << >> /\ up' = << >>
  /\ calls' = [calls EXCEPT ![c] = [pc |-> "sending", first |-> TRUE]]
  /\ lock' = "free"
  /\ UNCHANGED <<selected, frozen, historyVars, bounds>>

Admit(c) == Moved(c, "sending") /\ host' = [host EXCEPT !.idle = NoRevision]

EnterRunning(c) ==
  /\ calls[c].pc = "enter" /\ lock = "free"
  /\ host.entry /\ ~host.stopping
  /\ Admit(c)
  /\ UNCHANGED <<lock, pipeVars, proc, selected, frozen, historyVars, bounds>>

EnterStopping(c) ==
  /\ calls[c].pc = "enter" /\ lock = "free"
  /\ host.entry /\ host.stopping /\ ~host.transition
  /\ Moved(c, "waiting")
  /\ UNCHANGED <<host, lock, pipeVars, proc, selected, frozen, historyVars, bounds>>

\* The transition is over already: neither the free lock nor the set Event suspends the
\* coroutine, and nothing that could end the loop ever runs.
EnterSpins(c) ==
  /\ calls[c].pc = "enter" /\ lock = "free"
  /\ host.entry /\ host.stopping /\ host.transition
  /\ frozen' = TRUE
  /\ UNCHANGED <<host, calls, lock, pipeVars, proc, selected, historyVars, bounds>>

TransitionOver(c) ==
  /\ calls[c].pc = "waiting"
  /\ host.transition
  /\ Moved(c, "enter")
  /\ UNCHANGED <<host, lock, pipeVars, proc, selected, frozen, historyVars, bounds>>

\* PipePeer.send, in a thread; the pipe may have lost its other end.
Send(c) ==
  /\ calls[c].pc = "sending"
  /\ \/ /\ proc.open
        /\ down' = Append(down, Message("request", c))
        /\ Moved(c, "asked")
        /\ UNCHANGED host
     \/ /\ ~proc.open
        /\ Moved(c, "lost")
        /\ UNCHANGED <<host, down>>
  /\ UNCHANGED <<lock, up, proc, selected, frozen, historyVars, bounds>>

\* The finally of request; the answer to apply_auto_authorize is followed by the request.
Resume(c) ==
  /\ calls[c].pc = "answered"
  /\ IF calls[c].first
     THEN /\ calls' = [calls EXCEPT ![c] = [pc |-> "sending", first |-> FALSE]]
          /\ UNCHANGED <<host, down>>
     ELSE /\ Moved(c, "done")
          /\ StopIdle(host, Requests \ {c}, selected)
  /\ UNCHANGED <<lock, up, proc, selected, frozen, historyVars, bounds>>

\* select, and release or the selection of another Session
Switch ==
  /\ switches < MaxSwitches
  /\ switches' = switches + 1
  /\ selected' = ~selected
  /\ IF host.entry THEN StopIdle(host, Requests, ~selected) ELSE UNCHANGED <<host, down>>
  /\ UNCHANGED <<calls, lock, up, proc, frozen, historyVars, faults, reclaims>>

-------------------------------------------------------------------------------
\* The Host reads the pipe: PipePeer.run and signal.

Answered(c) == IF calls[c].pc = "asked" THEN Moved(c, "answered") ELSE UNCHANGED calls

Unstopped == [host EXCEPT !.idle = NoRevision, !.stopping = FALSE, !.transition = TRUE]

StopPending == proc.stop \/ \E i \in DOMAIN down : down[i].kind = "stop"

HostReads ==
  /\ host.watch = "reading"
  /\ up # << >>
  /\ crossed' = (crossed \/ (Head(up).kind = "busy" /\ StopPending))
  /\ LET m == Head(up) IN
     \/ /\ m.kind = "response"
        /\ Answered(m.value)
        /\ UNCHANGED <<host, down>>
     \/ /\ m.kind = "idle"
        /\ StopIdle([host EXCEPT !.idle = m.value], Requests, selected)
        /\ UNCHANGED calls
     \/ /\ m.kind = "busy"
        /\ host' = Unstopped
        /\ UNCHANGED <<calls, down>>
     \/ /\ m.kind = "stopping"
        /\ host' = [host EXCEPT !.stopping = TRUE]
        /\ UNCHANGED <<calls, down>>
  /\ up' = Tail(up)
  /\ UNCHANGED <<lock, proc, selected, frozen, written, cancelled, bounds>>

\* _watch after the pipe's end: join, stopping, the display, the peer, the entry.
EndOfPipe ==
  /\ host.watch = "reading"
  /\ ~proc.open /\ up = << >>
  /\ host' = [host EXCEPT !.watch = "joining"]
  /\ UNCHANGED <<calls, lock, pipeVars, proc, selected, frozen, historyVars, bounds>>

\* Mutant: the process is not joined.
Unjoined ==
  /\ host.watch = "joining"
  /\ host' = [host EXCEPT !.watch = "closing", !.stopping = TRUE]
  /\ UNCHANGED <<calls, lock, pipeVars, proc, selected, frozen, historyVars, bounds>>

Joined ==
  /\ host.watch = "joining"
  /\ proc.pc = "dead"
  /\ host' = [host EXCEPT !.watch = "closing", !.stopping = TRUE]
  /\ UNCHANGED <<calls, lock, pipeVars, proc, selected, frozen, historyVars, bounds>>

\* RuntimeError("Worker exited") after a clean exit or a reclaim, WorkerFailed when the Worker
\* died; if the Session was ever reclaimed, only when it lived to report its exception.
Verdicts ==
  IF proc.end # "died" THEN {"lost"}
  ELSE IF reclaims = 0 THEN {"failed"} ELSE {"failed", "lost"}

\* Mutant: a pending request is left to wait for an answer.
NothingFailed == UNCHANGED calls

\* A request that has yet to write to this pipe fails when it does; one that is answered
\* has nothing more to do with this Worker.
FailPending ==
  \E verdict \in Verdicts : calls' = [c \in Calls |->
    CASE calls[c].pc = "asked" -> [calls[c] EXCEPT !.pc = verdict]
      [] calls[c].pc = "sending" -> [calls[c] EXCEPT !.pc = "lost"]
      [] calls[c].pc = "answered" -> [calls[c] EXCEPT !.pc = IF calls[c].first THEN "lost" ELSE "done"]
      [] OTHER -> calls[c]]

Exited ==
  /\ host.watch = "closing"
  /\ FailPending
  /\ host' = NoWorker
  /\ UNCHANGED <<lock, pipeVars, proc, selected, frozen, historyVars, bounds>>

-------------------------------------------------------------------------------
\* The Worker process

Ready ==
  /\ proc.pc = "recovering"
  /\ \E busy \in BOOLEAN :
       proc' = [proc EXCEPT !.pc = "wait", !.busy = busy, !.changed = busy]
  /\ UNCHANGED <<host, calls, lock, pipeVars, selected, frozen, historyVars, bounds>>

Reading == proc.pc \in {"wait", "top", "view"} /\ down # << >>

\* handle, as far as active_requests and revision
TakeRequest ==
  /\ Reading
  /\ Head(down).kind = "request"
  /\ proc' = [proc EXCEPT !.handling = @ \cup {Head(down).value}, !.revision = @ + 1]
  /\ down' = Tail(down)
  /\ UNCHANGED <<host, calls, lock, up, selected, frozen, historyVars, bounds>>

\* Mutant: the answer does not wait for the Journal.
HandleUnwritten(c) ==
  /\ proc.pc \in {"wait", "top", "view"}
  /\ c \in proc.handling
  /\ proc' = [proc EXCEPT !.handling = @ \ {c}, !.changed = TRUE]
  /\ Told("response", c)
  /\ UNCHANGED <<host, calls, lock, down, selected, frozen, historyVars, bounds>>

\* The rest of it: the Journal has the fact, the Scheduler may have work, the answer goes out.
Handle(c) ==
  /\ proc.pc \in {"wait", "top", "view"}
  /\ c \in proc.handling
  /\ \E busy \in BOOLEAN :
       proc' = [proc EXCEPT !.handling = @ \ {c}, !.changed = TRUE, !.busy = @ \/ busy]
  /\ written' = IF calls[c].first THEN written ELSE written \cup {c}
  /\ Told("response", c)
  /\ UNCHANGED <<host, calls, lock, down, selected, frozen, cancelled, crossed, bounds>>

\* The Scheduler has nothing left to do.
Rest ==
  /\ proc.pc \in {"wait", "top", "view"}
  /\ proc.busy
  /\ proc' = [proc EXCEPT !.busy = FALSE, !.changed = TRUE]
  /\ UNCHANGED <<host, calls, lock, pipeVars, selected, frozen, historyVars, bounds>>

AgreesToStop(revision) ==
  revision = proc.revision /\ proc.handling = {} /\ ~proc.busy

TakeStop ==
  /\ Reading
  /\ Head(down).kind = "stop"
  /\ IF AgreesToStop(Head(down).value)
     THEN /\ proc' = [proc EXCEPT !.stop = TRUE]
          /\ UNCHANGED up
     ELSE /\ proc' = [proc EXCEPT !.advertised = NoRevision, !.changed = TRUE]
          /\ Told("busy", NoRevision)
  /\ down' = Tail(down)
  /\ UNCHANGED <<host, calls, lock, selected, frozen, historyVars, bounds>>

\* One turn of the loop; the view before the advertisement is an await.
LoopTurn ==
  /\ proc.pc = "wait"
  /\ proc.changed \/ proc.stop
  /\ \/ /\ proc.busy
        /\ IF proc.shownBusy
           THEN /\ proc' = [proc EXCEPT !.changed = FALSE, !.pc = "top"]
                /\ UNCHANGED up
           ELSE /\ proc' = [proc EXCEPT !.changed = FALSE, !.pc = "top", !.shownBusy = TRUE,
                                        !.advertised = NoRevision]
                /\ Told("busy", NoRevision)
     \/ /\ ~proc.busy
        /\ proc' = [proc EXCEPT !.changed = FALSE,
                      !.pc = IF proc.handling = {} /\ proc.advertised # proc.revision
                             THEN "view" ELSE "top"]
        /\ UNCHANGED up
  /\ UNCHANGED <<host, calls, lock, down, selected, frozen, historyVars, bounds>>

Advertise ==
  /\ proc.pc = "view"
  /\ proc' = [proc EXCEPT !.pc = "top", !.advertised = proc.revision, !.shownBusy = FALSE]
  /\ Told("idle", proc.revision)
  /\ UNCHANGED <<host, calls, lock, down, selected, frozen, historyVars, bounds>>

LoopTop ==
  /\ proc.pc = "top"
  /\ IF proc.stop
     THEN /\ proc' = [proc EXCEPT !.pc = "closing"]
          /\ Told("stopping", NoRevision)
     ELSE /\ proc' = [proc EXCEPT !.pc = "wait"]
          /\ UNCHANGED up
  /\ UNCHANGED <<host, calls, lock, down, selected, frozen, historyVars, bounds>>

\* peer.close cancels what is being handled; then the pipe is closed, then the process ends.
ClosePipe ==
  /\ proc.pc = "closing"
  /\ proc' = [proc EXCEPT !.pc = "closed", !.open = FALSE, !.handling = {}]
  /\ UNCHANGED <<host, calls, lock, pipeVars, selected, frozen, historyVars, bounds>>

ProcessEnds ==
  /\ proc.pc = "closed"
  /\ proc' = [proc EXCEPT !.pc = "dead"]
  /\ UNCHANGED <<host, calls, lock, pipeVars, selected, frozen, historyVars, bounds>>

Killed(end) == [proc EXCEPT !.pc = "dead", !.open = FALSE, !.end = end, !.handling = {}]

\* terminate() takes effect some time after it was called.
Terminated ==
  /\ proc.pc # "dead"
  /\ proc.end = "reclaimed"
  /\ proc' = Killed("reclaimed")
  /\ UNCHANGED <<host, calls, lock, pipeVars, selected, frozen, historyVars, bounds>>

WorkerDies ==
  /\ proc.pc # "dead"
  /\ faults + reclaims < MaxKills
  /\ faults' = faults + 1
  /\ proc' = Killed("died")
  /\ UNCHANGED <<host, calls, lock, pipeVars, selected, frozen, historyVars, reclaims, switches>>

-------------------------------------------------------------------------------
\* _reclaim_child: terminate the Worker, wait for its exit, write the cancelled return.

Reclaim ==
  /\ faults + reclaims < MaxKills
  /\ lock = "free"
  /\ reclaims' = reclaims + 1
  /\ lock' = "reclaim"
  /\ IF host.entry
     THEN proc' = IF proc.pc = "dead" THEN proc ELSE [proc EXCEPT !.end = "reclaimed"]
     ELSE UNCHANGED proc
  /\ UNCHANGED <<host, calls, pipeVars, selected, frozen, historyVars, faults, switches>>

\* Mutant: the cancelled return is written without waiting for the exit.
ReclaimInHaste ==
  /\ lock = "reclaim"
  /\ cancelled' = TRUE
  /\ lock' = "free"
  /\ UNCHANGED <<host, calls, pipeVars, proc, selected, frozen, written, crossed, bounds>>

ReclaimWrites ==
  /\ lock = "reclaim"
  /\ ~host.entry
  /\ cancelled' = TRUE
  /\ lock' = "free"
  /\ UNCHANGED <<host, calls, pipeVars, proc, selected, frozen, written, crossed, bounds>>

-------------------------------------------------------------------------------
\* One event loop: a step of the Host needs it to turn.
HostReacts ==
  /\ ~frozen
  /\ \/ \E c \in Calls : EnterEmpty(c)
     \/ \E c \in Calls : StartWorker(c)
     \/ \E c \in Calls : EnterRunning(c)
     \/ \E c \in Calls : EnterStopping(c)
     \/ \E c \in Calls : EnterSpins(c)
     \/ \E c \in Calls : TransitionOver(c)
     \/ \E c \in Calls : Send(c)
     \/ \E c \in Calls : Resume(c)
     \/ HostReads
     \/ EndOfPipe
     \/ Joined
     \/ Exited
     \/ ReclaimWrites

HostIsAsked ==
  /\ ~frozen
  /\ (\E c \in Calls : Call(c)) \/ Switch \/ Reclaim

WorkerStep ==
  \/ Ready
  \/ TakeRequest
  \/ \E c \in Calls : Handle(c)
  \/ Rest
  \/ TakeStop
  \/ LoopTurn
  \/ Advertise
  \/ LoopTop
  \/ ClosePipe
  \/ ProcessEnds
  \/ Terminated

HostNext ==
  \/ HostReacts
  \/ HostIsAsked
  \/ WorkerStep
  \/ WorkerDies

HostSpec == HostInit /\ [][HostNext]_hostVars

\* Both event loops run what is ready, a model call or a Command of the Worker ends.  That
\* anyone asks for anything, or that a Worker dies, nobody promises.
HostFairSpec ==
  /\ HostSpec
  /\ WF_hostVars(HostReacts)
  /\ WF_hostVars(WorkerStep)

-------------------------------------------------------------------------------
Promised ==
  [c \in Calls |->
     CASE calls[c].pc = "out" -> "none"
       [] calls[c].pc = "done" -> "confirmed"
       [] calls[c].pc \in {"failed", "lost"} -> "refused"
       [] OTHER -> "open"]

Promise == INSTANCE DeliveryPromise WITH promised <- Promised, stored <- written

(* Through crashes, kills, restarts and the stop handshake, callers see the*)
(* promise of DeliveryPromise.                                             *)
KeepsPromise == Promise!PromiseSpec

(* One writer for a Journal: when the Host holds no Worker for the Session,*)
(* and may start another, the process of the last one is gone.             *)
OneWriter == ~host.entry => proc.pc = "dead"

(* The Host itself writes to a child's Journal, the return that cancels it,*)
(* only while that Session has no Worker.                                  *)
HostWritesAlone == [][~cancelled /\ cancelled' => proc.pc = "dead"]_hostVars

(* A Worker that has agreed to stop has nothing in hand and nothing to run,*)
(* unless signals have crossed: a busy that answers an earlier stop, or    *)
(* none, ends the Host's transition while a later stop is under way.       *)
StopsWithNothingToDo == proc.stop /\ ~crossed => proc.handling = {} /\ ~proc.busy

(* A request ends without an answer and without WorkerFailed only if its   *)
(* Worker was killed or died, or, the known gap, after signals crossed.    *)
OnlyKnownLosses ==
  \A c \in Calls : calls[c].pc = "lost" => crossed \/ faults > 0 \/ reclaims > 0

(* The Host's event loop spins only in the known cases: while the watcher  *)
(* of a Worker cleans up, or after signals crossed.                        *)
OnlyKnownFreezes == frozen => crossed \/ host.watch = "closing"

(* Only crossed signals let the handshake go wrong in any of these ways.   *)
OnlyKnownSlips == StopsWithNothingToDo /\ OnlyKnownLosses /\ OnlyKnownFreezes

(* Every request is answered or fails; none waits for ever for a Worker    *)
(* that stopped, died or was killed.                                       *)
EveryRequestEnds ==
  \A c \in Calls : calls[c].pc = "enter" ~> (calls[c].pc \in Ended \/ frozen)

===============================================================================
