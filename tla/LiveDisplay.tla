------------------------------ MODULE LiveDisplay ------------------------------
(***************************************************************************)
(* What a page is shown of a Session while it runs: the text being         *)
(* written, the model's thinking, the tools in progress and whether it is  *)
(* running (assistant/delivery.py, the display signals of host/worker.py   *)
(* and host/supervisor.py, host/ipc.py, channels/web/hub.py).              *)
(*                                                                         *)
(* None of it is in the Journal.  The model runs in the Host and the       *)
(* decision in the Worker, so a chunk of text goes to the Worker and comes *)
(* back as a signal.  The hub is what a page is shown that subscribes now: *)
(* a page that is connected follows it event by event.                     *)
(*                                                                         *)
(* Abstracted: one Session with one Worker at a time; a text is a number   *)
(* of chunks; Compact readers, which show nothing.                         *)
(***************************************************************************)
EXTENDS Naturals, Sequences, Faults

CONSTANTS
  MaxOutputs,   \* bound: triggers the Session decides on
  MaxChunks,    \* bound: chunks of one answer
  MaxRequests,  \* bound: other requests the Worker makes of the Host
  MaxQueued     \* bound: signals in the pipe before the Worker goes on

ASSUME LiveDisplayAssumption ==
  /\ {MaxOutputs, MaxChunks, MaxRequests, MaxQueued} \subseteq Nat
  /\ None \notin {"starting", "asking", "heard", "answered", "silent", "again"}

VARIABLES
  process,     \* the Worker: "none", "alive" or "dead"
  trigger,     \* the trigger to decide on next: the identity of its output
  stream,      \* the decision in progress, or None
  slot,        \* PreviewEmitter._active, or None
  heldBack,    \* before_advance refused while a lost Step's preview was still shown
  thought,     \* PreviewEmitter._thinking, or None
  delivering,  \* outputs of committed Steps: [output, asked]
  running,     \* tools in progress, each named by its Step's output
  advertised,  \* the Worker has said that it is busy
  toHost,      \* the pipe, Worker to Host
  toWorker,    \* and back
  routes,      \* requests of the Worker the Host is handling
  active,      \* PipePeer.active_request_id, or None
  said,        \* chunks the model has produced for the stream, of each kind
  shown,       \* the Host's record of what this Worker shows
  hub,         \* what a page is shown that subscribes now
  strayed,     \* a chunk or an end met a stream that is not its own
  requests, displayFaults

streamVars == <<trigger, stream, slot, heldBack, thought>>
turnVars == <<delivering, running>>
hostVars == <<routes, active, said>>
displayVars == <<shown, hub>>
boundVars == <<requests, displayFaults>>
liveDisplayVars == <<process, advertised, streamVars, turnVars, toHost, toWorker,
                     hostVars, displayVars, strayed, boundVars>>

ShowsNothing == [preview |-> None, thinking |-> None, tools |-> {},
                 running |-> FALSE]
Silence == [text |-> 0, thought |-> 0]
Request(op, id) == [kind |-> "request", phase |-> op, output |-> id]
Signal(kind, phase, id) == [kind |-> kind, phase |-> phase, output |-> id]

LiveDisplayInit ==
  /\ process = "alive"
  /\ trigger = 1
  /\ stream = None /\ slot = None /\ heldBack = FALSE /\ thought = None
  /\ delivering = {} /\ running = {} /\ advertised = FALSE
  /\ toHost = <<>> /\ toWorker = <<>>
  /\ routes = {} /\ active = None /\ said = Silence
  /\ shown = ShowsNothing
  /\ hub = [preview |-> None, text |-> 0, thinking |-> None, tools |-> {},
            running |-> FALSE]
  /\ strayed = FALSE
  /\ requests = 0 /\ displayFaults = 0

-------------------------------------------------------------------------------
\* PreviewEmitter, in the Worker

\* abort and abort_thinking: what is shown of the output is withdrawn.
Withdrawn ==
  (IF slot = None THEN <<>> ELSE <<Signal("preview", "aborted", slot)>>) \o
  (IF thought = None THEN <<>> ELSE <<Signal("thinking", "aborted", thought)>>)

WithdrawPreview(before) ==
  /\ toHost' = toHost \o before \o Withdrawn
  /\ slot' = None
  /\ heldBack' = FALSE
  /\ thought' = None

Idle == stream = None /\ delivering = {} /\ running = {}

\* run_worker: the Worker says that it is busy, and later that it is idle.
Advertise ==
  /\ process = "alive"
  /\ Idle = advertised
  /\ advertised' = ~advertised
  /\ toHost' = Append(toHost, Signal("activity", IF advertised THEN "idle"
                                                 ELSE "busy", 0))
  /\ UNCHANGED <<process, streamVars, turnVars, toWorker, hostVars,
                 displayVars, strayed, boundVars>>

\* JournalBackedLlmDecisionMaker: the preview starts, and then the model is asked.
BeginStream ==
  /\ process = "alive"
  /\ stream \in {None, "again"}
  /\ running = {}
  /\ trigger <= MaxOutputs
  /\ stream' = "starting"
  /\ slot' = trigger
  /\ heldBack' = FALSE
  /\ toHost' = Append(toHost, Signal("preview", "started", trigger))
  /\ UNCHANGED <<process, advertised, trigger, thought, turnVars, toWorker, hostVars,
                 displayVars, strayed, boundVars>>

AskModel ==
  /\ process = "alive"
  /\ stream = "starting"
  /\ stream' = "asking"
  /\ toHost' = Append(toHost, Request("llm", trigger))
  /\ UNCHANGED <<process, advertised, trigger, slot, heldBack, thought, turnVars, toWorker,
                 hostVars, displayVars, strayed, boundVars>>

Asking == stream = "asking" /\ process = "alive"

HearText ==
  /\ IF slot = trigger
     THEN toHost' = Append(toHost, Signal("preview", "delta", trigger))
          /\ UNCHANGED strayed
     ELSE strayed' = TRUE /\ UNCHANGED toHost
  /\ UNCHANGED thought

HearThought ==
  /\ thought' = IF thought = None THEN trigger ELSE thought
  /\ toHost' = IF thought = None
               THEN toHost \o <<Signal("thinking", "started", trigger),
                                Signal("thinking", "delta", trigger)>>
               ELSE Append(toHost, Signal("thinking", "delta", trigger))
  /\ strayed' = (thought \notin {None, trigger})

\* PipePeer.run: a chunk for a request that is not waiting is dropped.
HearChunk ==
  /\ process = "alive"
  /\ toWorker # <<>>
  /\ LET chunk == Head(toWorker)
     IN /\ chunk.kind = "delta"
        /\ \/ /\ Asking /\ chunk.output = trigger
              /\ \/ chunk.phase = "text" /\ HearText
                 \/ chunk.phase = "thought" /\ HearThought
           \/ /\ ~(Asking /\ chunk.output = trigger)
              /\ UNCHANGED <<toHost, thought, strayed>>
  /\ toWorker' = Tail(toWorker)
  /\ UNCHANGED <<process, advertised, trigger, stream, slot, heldBack, turnVars, hostVars,
                 displayVars, boundVars>>

Replied(op, phase) ==
  /\ process = "alive"
  /\ toWorker # <<>>
  /\ Head(toWorker).kind = "response" /\ Head(toWorker).op = op
  /\ Head(toWorker).phase = phase
  /\ toWorker' = Tail(toWorker)
  /\ UNCHANGED <<process, advertised, trigger, hostVars, displayVars, boundVars>>

EndThinking ==
  IF thought = None THEN <<>>
  ELSE <<Signal("thinking", "finished", thought)>>

HearAnswer ==
  /\ Replied("llm", "ok")
  /\ Asking /\ Head(toWorker).output = trigger
  /\ strayed' = (thought \notin {None, trigger})
  /\ thought' = None
  /\ toHost' = toHost \o EndThinking
  /\ stream' = "heard"
  /\ UNCHANGED <<slot, heldBack, turnVars>>

\* Text is delivered by the Step; without any the preview is withdrawn.
Decide ==
  /\ process = "alive"
  /\ stream = "heard"
  /\ \/ stream' = "answered" /\ UNCHANGED <<slot, heldBack, toHost, thought>>
     \/ stream' = "silent" /\ WithdrawPreview(<<>>)
  /\ UNCHANGED <<process, advertised, trigger, turnVars, toWorker, hostVars, displayVars,
                 strayed, boundVars>>

HearFailure ==
  /\ Replied("llm", "failed")
  /\ Asking /\ Head(toWorker).output = trigger
  /\ stream' = None
  /\ WithdrawPreview(<<>>)
  /\ UNCHANGED <<turnVars, strayed>>

\* Nobody waits for the answer any more.
HearLate ==
  /\ \E phase \in {"ok", "failed"} : Replied("llm", phase)
  /\ ~(Asking /\ Head(toWorker).output = trigger)
  /\ UNCHANGED <<stream, slot, heldBack, thought, turnVars, toHost, strayed>>

\* The Step is committed, its commands are started: deliver, and a tool or not.
Commit ==
  /\ process = "alive"
  /\ stream \in {"answered", "silent"}
  /\ delivering' = IF stream = "answered"
                   THEN delivering \cup {[output |-> trigger, asked |-> FALSE]}
                   ELSE delivering
  /\ \/ /\ running' = {trigger}
        /\ toHost' = Append(toHost, Signal("tool", "start", trigger))
     \/ UNCHANGED <<running, toHost>>
  /\ stream' = None
  /\ trigger' = trigger + 1
  /\ UNCHANGED <<process, advertised, slot, heldBack, thought, toWorker, hostVars,
                 displayVars, strayed, boundVars>>

\* advance raises: the answer is no decision, or the commit fails.
StepFails ==
  /\ process = "alive"
  /\ stream \in {"heard", "answered", "silent"}
  /\ displayFaults < MaxFaults
  /\ displayFaults' = displayFaults + 1
  /\ stream' = None
  /\ WithdrawPreview(<<>>)
  /\ UNCHANGED <<process, advertised, trigger, turnVars, toWorker, hostVars, displayVars,
                 strayed, requests>>

\* cancel_turn cancels the trigger; a lost claim leaves it to be decided on again.
Interrupted ==
  \/ trigger' = trigger + 1 /\ UNCHANGED displayFaults
  \/ displayFaults < MaxFaults /\ displayFaults' = displayFaults + 1 /\ UNCHANGED trigger

\* The model answers: its request and what is shown of it are withdrawn.
CancelCall ==
  /\ Asking
  /\ Interrupted
  /\ stream' = None
  /\ WithdrawPreview(<<[kind |-> "abort", phase |-> "llm", output |-> trigger]>>)
  /\ UNCHANGED <<process, advertised, turnVars, toWorker, hostVars, displayVars, strayed,
                 requests>>

\* Before and after the call only the runner can withdraw the preview, and it does not while
\* the Session is RUNNABLE: another advance is to take the preview over.
LoseStep ==
  /\ process = "alive"
  /\ stream \in {"starting", "heard", "answered", "silent"}
  /\ Interrupted
  /\ \/ stream' = "again" /\ UNCHANGED <<slot, heldBack, thought, toHost>>
     \/ stream' = None /\ WithdrawPreview(<<>>)
  /\ UNCHANGED <<process, advertised, turnVars, toWorker, hostVars, displayVars, strayed,
                 requests>>

\* An advance that has no Step to make, and is not RUNNABLE, withdraws what there is, the
\* preview of an output that is being delivered too.
FindNothing ==
  /\ process = "alive"
  /\ stream \in {None, "again"}
  /\ stream' = None
  /\ WithdrawPreview(<<>>)
  /\ UNCHANGED <<process, advertised, trigger, turnVars, toWorker, hostVars, displayVars,
                 strayed, boundVars>>

\* before_advance refuses: the Session is paused, or waits for its compaction.
HoldBack ==
  /\ process = "alive"
  /\ stream = "again"
  /\ stream' = None
  /\ heldBack' = (slot # None)
  /\ UNCHANGED <<process, advertised, trigger, slot, thought, turnVars, toHost, toWorker,
                 hostVars, displayVars, strayed, boundVars>>

EndTool ==
  /\ process = "alive"
  /\ \E tool \in running :
       /\ running' = running \ {tool}
       /\ toHost' = Append(toHost, Signal("tool", "end", tool))
  /\ UNCHANGED <<process, advertised, streamVars, delivering, toWorker, hostVars,
                 displayVars, strayed, boundVars>>

\* deliver runs beside the next decision: its Outcome asks for none.
Deliver ==
  /\ process = "alive"
  /\ \E d \in delivering :
       /\ ~d.asked
       /\ delivering' = (delivering \ {d}) \cup {[d EXCEPT !.asked = TRUE]}
       /\ toHost' = Append(toHost, Request("output", d.output))
  /\ UNCHANGED <<process, advertised, streamVars, running, toWorker, hostVars, displayVars,
                 strayed, boundVars>>

\* Mutant: the end of a delivery takes whatever preview there is.
RetiredAny(output) == None

\* PreviewEmitter.finish: the slot may belong to the next decision by now.
Retired(output) == IF slot = output THEN None ELSE slot

Delivered ==
  /\ Replied("output", "ok")
  /\ delivering' = {d \in delivering : d.output # Head(toWorker).output}
  /\ slot' = Retired(Head(toWorker).output)
  /\ UNCHANGED <<stream, heldBack, thought, running, toHost, strayed>>

\* A child is resumed or reclaimed, a boundary is asked for...
AskOther ==
  /\ process = "alive"
  /\ requests < MaxRequests
  /\ requests' = requests + 1
  /\ toHost' = Append(toHost, Request("other", requests))
  /\ UNCHANGED <<process, advertised, streamVars, turnVars, toWorker, hostVars,
                 displayVars, strayed, displayFaults>>

Die ==
  /\ process = "alive"
  /\ displayFaults < MaxFaults
  /\ displayFaults' = displayFaults + 1
  /\ process' = "dead"
  /\ stream' = None /\ slot' = None /\ heldBack' = FALSE /\ thought' = None
  /\ delivering' = {} /\ running' = {} /\ advertised' = FALSE
  /\ toWorker' = <<>>
  /\ UNCHANGED <<trigger, toHost, hostVars, displayVars, strayed, requests>>

-------------------------------------------------------------------------------
\* The Host: PipePeer, the display signals of a Worker, WebEventHub

OnPreview(m) ==
  CASE m.phase = "started" ->
         /\ shown' = [shown EXCEPT !.preview = m.output]
         /\ hub' = [hub EXCEPT !.preview = m.output, !.text = 0]
         /\ UNCHANGED strayed
    [] m.phase = "delta" ->
         /\ hub' = [hub EXCEPT !.text = @ + 1]
         /\ strayed' = (hub.preview # m.output)
         /\ UNCHANGED shown
    [] m.phase = "aborted" ->
         /\ shown' = [shown EXCEPT !.preview = None]
         /\ hub' = [hub EXCEPT !.preview = None, !.text = 0]
         /\ strayed' = (hub.preview \notin {None, m.output})

OnThinking(m) ==
  CASE m.phase = "started" ->
         /\ shown' = [shown EXCEPT !.thinking = m.output]
         /\ hub' = [hub EXCEPT !.thinking = m.output]
         /\ UNCHANGED strayed
    [] m.phase = "delta" ->
         /\ strayed' = (hub.thinking # m.output)
         /\ UNCHANGED displayVars
    [] m.phase \in {"finished", "aborted"} ->
         /\ shown' = [shown EXCEPT !.thinking = None]
         /\ hub' = [hub EXCEPT !.thinking = None]
         /\ strayed' = (hub.thinking \notin {None, m.output})

WithTool(display, m) ==
  [display EXCEPT !.tools = IF m.phase = "start" THEN @ \cup {m.output}
                            ELSE @ \ {m.output}]

OnTool(m) ==
  /\ shown' = WithTool(shown, m)
  /\ hub' = WithTool(hub, m)
  /\ UNCHANGED strayed

\* WebEventHub.session_activity: the end of a run takes its tools along.
OnActivity(m) ==
  /\ shown' = [shown EXCEPT !.running = (m.phase = "busy")]
  /\ hub' = IF m.phase = "busy"
            THEN [hub EXCEPT !.running = TRUE]
            ELSE [hub EXCEPT !.running = FALSE, !.tools = {}]
  /\ UNCHANGED strayed

\* A handler that starts is the active one; the chunks go by that name.
OnRequest(m) ==
  /\ routes' = routes \cup {m}
  /\ active' = m
  /\ said' = IF m.phase = "llm" THEN Silence ELSE said
  /\ UNCHANGED <<displayVars, strayed>>

Released(request) == IF active = request THEN None ELSE active

OnAbort(m) ==
  /\ routes' = routes \ {Request(m.phase, m.output)}
  /\ active' = Released(Request(m.phase, m.output))
  /\ UNCHANGED <<said, displayVars, strayed>>

Receive ==
  /\ process # "none"
  /\ toHost # <<>>
  /\ LET m == Head(toHost)
     IN \/ m.kind = "preview" /\ OnPreview(m) /\ UNCHANGED hostVars
        \/ m.kind = "thinking" /\ OnThinking(m) /\ UNCHANGED hostVars
        \/ m.kind = "tool" /\ OnTool(m) /\ UNCHANGED hostVars
        \/ m.kind = "activity" /\ OnActivity(m) /\ UNCHANGED hostVars
        \/ m.kind = "request" /\ OnRequest(m)
        \/ m.kind = "abort" /\ OnAbort(m)
  /\ toHost' = Tail(toHost)
  /\ UNCHANGED <<process, advertised, streamVars, turnVars, toWorker, boundVars>>

\* complete_llm_chat with on_delta: a chunk is sent under the active request.
Address == IF active = None \/ active.phase # "llm" THEN 0 ELSE active.output

Speak ==
  /\ process = "alive"
  /\ said.text + said.thought < MaxChunks
  /\ \E r \in routes : r.phase = "llm"
  /\ \E phase \in {"text", "thought"} :
       /\ toWorker' = Append(toWorker, Signal("delta", phase, Address))
       /\ said' = [said EXCEPT ![phase] = @ + 1]
  /\ UNCHANGED <<process, advertised, streamVars, turnVars, toHost, routes, active,
                 displayVars, strayed, boundVars>>

Respond(r, phase) ==
  /\ routes' = routes \ {r}
  /\ active' = Released(r)
  /\ toWorker' = IF process = "alive"
                 THEN Append(toWorker, [kind |-> "response", op |-> r.phase,
                                        phase |-> phase, output |-> r.output])
                 ELSE toWorker
  /\ UNCHANGED <<process, advertised, streamVars, turnVars, toHost, said, strayed>>

EndSpeech ==
  \E r \in routes :
    /\ r.phase = "llm"
    /\ \/ Respond(r, "ok") /\ UNCHANGED boundVars
       \/ /\ displayFaults < MaxFaults
          /\ displayFaults' = displayFaults + 1
          /\ Respond(r, "failed")
          /\ UNCHANGED requests
    /\ UNCHANGED displayVars

EndOther ==
  \E r \in routes :
    /\ r.phase = "other"
    /\ routes' = routes \ {r}
    /\ active' = Released(r)
    /\ UNCHANGED <<process, advertised, streamVars, turnVars, toHost, toWorker, said,
                   displayVars, strayed, boundVars>>

\* The final text takes the place of the preview, of its own one only.
EndOutput ==
  \E r \in routes :
    /\ r.phase = "output"
    /\ hub' = IF hub.preview = r.output
              THEN [hub EXCEPT !.preview = None, !.text = 0] ELSE hub
    /\ shown' = IF shown.preview = r.output
                THEN [shown EXCEPT !.preview = None] ELSE shown
    /\ Respond(r, "ok")
    /\ UNCHANGED boundVars

\* _close_generation_display: what this Worker shows, as the Host recorded it.
Cleared ==
  [hub EXCEPT !.preview = IF shown.preview = None THEN @ ELSE None,
              !.text = IF shown.preview = None THEN @ ELSE 0,
              !.thinking = IF shown.thinking = None THEN @ ELSE None,
              !.tools = IF shown.running THEN {} ELSE @ \ shown.tools,
              !.running = @ /\ ~shown.running]

CloseGeneration ==
  /\ process = "dead"
  /\ toHost = <<>>
  /\ process' = "none"
  /\ hub' = Cleared
  /\ shown' = ShowsNothing
  /\ routes' = {} /\ active' = None
  /\ UNCHANGED <<advertised, streamVars, turnVars, toHost, toWorker, said, strayed,
                 boundVars>>

StartWorker ==
  /\ process = "none"
  /\ process' = "alive"
  /\ UNCHANGED <<advertised, streamVars, turnVars, toHost, toWorker, hostVars,
                 displayVars, strayed, boundVars>>

WorkerStep ==
  \/ BeginStream \/ AskModel \/ HearChunk \/ HearAnswer \/ HearFailure \/ HearLate
  \/ Decide \/ Commit \/ StepFails \/ CancelCall \/ LoseStep \/ FindNothing \/ HoldBack
  \/ EndTool \/ Deliver \/ Delivered \/ AskOther \/ Advertise

HostStep ==
  \/ Receive \/ Speak \/ EndSpeech \/ EndOther \/ EndOutput
  \/ CloseGeneration \/ StartWorker

LiveDisplayNext ==
  \/ Len(toHost) <= MaxQueued /\ WorkerStep
  \/ Die
  \/ HostStep

LiveDisplaySpec == LiveDisplayInit /\ [][LiveDisplayNext]_liveDisplayVars

-------------------------------------------------------------------------------
\* Properties

(***************************************************************************)
(* No chunk and no end of a stream meets another stream than its own, in   *)
(* the Worker or in the Host, while deliveries run beside the next         *)
(* decision, turns are cancelled and Workers die: each of these raises and *)
(* would cost the Session its Worker (delivery.py:57-60, hub.py:64-84).    *)
(***************************************************************************)
EveryChunkHasItsStream == ~strayed

(***************************************************************************)
(* A page is shown no preview, thinking, tool or activity of a Session     *)
(* that rests or has no Worker, whatever the Worker was doing when it      *)
(* ended (docs Channel, Web: the Host ends the display of a generation).   *)
(* One case is known: the preview of a Step that was lost while another    *)
(* advance was to follow, which before_advance then refused, stays until   *)
(* the next advance or the end of the Worker (runner.py:111, 139-141).     *)
(***************************************************************************)
AtRest ==
  \/ process = "none"
  \/ /\ process = "alive" /\ Idle /\ ~advertised
     /\ toHost = <<>> /\ toWorker = <<>> /\ routes = {}

RestShowsNothing ==
  AtRest => /\ hub.preview = None \/ (heldBack /\ hub.preview = slot)
            /\ hub.thinking = None /\ hub.tools = {} /\ ~hub.running

(* What is shown belongs to the stream it came from, and ends with it.     *)
DisplayIsTrue == EveryChunkHasItsStream /\ RestShowsNothing

===============================================================================
