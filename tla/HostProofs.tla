------------------------------- MODULE HostProofs -------------------------------
(***************************************************************************)
(* What holds of HostWorkers for every set of calls and every number of    *)
(* Workers that die or are killed: one writer for a Journal, the promise   *)
(* of DeliveryPromise, and what only crossed signals can do to the stop    *)
(* handshake.                                                              *)
(*                                                                         *)
(* And of OneShot, the Host's clock, for every set of Sessions, schedules  *)
(* and cancellations, every delay and every number of crashes.             *)
(***************************************************************************)
EXTENDS HostWorkers, OneShot, TLAPS

\* A pipe s has a message of this kind with this value.
Has(s, kind, value) == \E i \in 1..Len(s) : s[i].kind = kind /\ s[i].value = value

\* A pipe s has at most one message of this kind for a value.
Once(s, kind) ==
  \A i, j \in 1..Len(s) :
    s[i].kind = kind /\ s[j].kind = kind /\ s[i].value = s[j].value => i = j

\* The Host forgets a Worker only when its process is gone, and starts another only when it
\* has forgotten the last.
Lifetimes ==
  /\ ~host.entry => proc.pc = "dead"
  /\ host.watch = "closing" => proc.pc = "dead"
  /\ host.watch # "reading" => ~proc.open /\ up = << >>
  /\ proc.open <=> proc.pc \notin {"closed", "dead"}
  /\ ~proc.open => proc.handling = {}
  /\ lock \in Calls => ~host.entry

\* The message of a request that waits for an answer is in one place: on its way to the
\* Worker, in the Worker's hands, or on its way back.
OneMessage ==
  /\ proc.open => Once(down, "request")
  /\ Once(up, "response")
  /\ \A c \in Calls :
       /\ c \in proc.handling =>
            calls[c].pc = "asked" /\ ~Has(down, "request", c) /\ ~Has(up, "response", c)
       /\ proc.open /\ Has(down, "request", c) =>
            calls[c].pc = "asked" /\ ~Has(up, "response", c)

\* What is answered is in the Journal.
AnsweredIsWritten ==
  \A c \in Calls :
    /\ Has(up, "response", c) => calls[c].pc = "asked" /\ (~calls[c].first => c \in written)
    /\ calls[c].pc = "answered" /\ ~calls[c].first => c \in written

HostInv == HostTypeOK /\ Lifetimes /\ OneMessage /\ AnsweredIsWritten

-------------------------------------------------------------------------------
\* Type correctness

\* What is sent in the pipes has the type of their messages.
LEMMA MessageTyped ==
  /\ \A kind \in {"request", "response"}, c \in Calls : Message(kind, c) \in Messages
  /\ \A kind \in {"stop", "idle", "busy", "stopping"}, revision \in Nat \cup {NoRevision} :
       Message(kind, revision) \in Messages
BY DEF Message, Messages

\* A pipe that is written to or read from stays a sequence of messages.
LEMMA PipesTyped ==
  ASSUME NEW s \in Seq(Messages), NEW m \in Messages
  PROVE  /\ Append(s, m) \in Seq(Messages)
         /\ s # << >> => Head(s) \in Messages /\ Tail(s) \in Seq(Messages)
OBVIOUS

\* A request that moves on
LEMMA MovedTyped ==
  ASSUME HostTypeOK, NEW c \in Calls, NEW pc, Moved(c, pc),
         pc \in {"out", "enter", "starting", "waiting"} \cup Unanswered \cup Ended
  PROVE  /\ calls' \in [Calls -> CallRecords]
         /\ calls'[c].pc = pc /\ calls'[c].first = calls[c].first
         /\ \A d \in Calls \ {c} : calls'[d] = calls[d]
<1>1. calls \in [Calls -> CallRecords] /\ calls[c] \in CallRecords
  BY DEF HostTypeOK
<1>2. [calls[c] EXCEPT !.pc = pc] \in CallRecords
  BY <1>1 DEF CallRecords
<1>3. calls' = [calls EXCEPT ![c] = [calls[c] EXCEPT !.pc = pc]]
  BY DEF Moved
<1>4. [calls[c] EXCEPT !.pc = pc].pc = pc /\ [calls[c] EXCEPT !.pc = pc].first = calls[c].first
  BY <1>1 DEF CallRecords
<1>5. QED
  BY <1>1, <1>2, <1>3, <1>4

\* The Host's records of a Worker keep their shape.
LEMMA StopIdleTyped ==
  ASSUME HostTypeOK, NEW h \in WorkerRecords, h.entry <=> h.watch # "exited",
         NEW rs, NEW sel, StopIdle(h, rs, sel)
  PROVE  /\ host' \in WorkerRecords
         /\ host'.entry = h.entry /\ host'.watch = h.watch
         /\ \/ down' = down
            \/ down' = Append(down, Message("stop", h.idle)) /\ proc.open
         /\ down' \in Seq(Messages)
<1>1. host' \in WorkerRecords /\ host'.entry = h.entry /\ host'.watch = h.watch
  BY DEF StopIdle, WorkerRecords
<1>2. h.idle \in Nat \cup {NoRevision}
  BY DEF WorkerRecords
<1>3. Message("stop", h.idle) \in Messages
  BY <1>2, MessageTyped
<1>4. down' = down \/ (down' = Append(down, Message("stop", h.idle)) /\ proc.open)
  BY DEF StopIdle, Posted
<1>5. down' \in Seq(Messages)
  BY <1>3, <1>4, PipesTyped DEF HostTypeOK
<1>6. QED
  BY <1>1, <1>4, <1>5

\* The Worker's side of a step: the process keeps its shape and at most posts a message.
LEMMA WorkerTyped ==
  ASSUME HostTypeOK, WorkerStep \/ WorkerDies
  PROVE  /\ proc' \in Processes
         /\ UNCHANGED <<host, calls, lock>>
         /\ up' \in Seq(Messages)
         /\ down' \in Seq(Messages)
<1> USE DEF pipeVars, historyVars, bounds
<1>1. proc \in Processes /\ up \in Seq(Messages) /\ down \in Seq(Messages)
  BY DEF HostTypeOK
<1>2. ASSUME Ready \/ Rest \/ ClosePipe \/ ProcessEnds \/ Terminated \/ WorkerDies
      PROVE  /\ proc' \in Processes
             /\ UNCHANGED <<host, calls, lock, up, down>>
  BY <1>1, <1>2
  DEF Ready, Rest, ClosePipe, ProcessEnds, Terminated, WorkerDies, Killed, Processes
<1>3. ASSUME TakeRequest
      PROVE  /\ proc' \in Processes
             /\ UNCHANGED <<host, calls, lock, up>>
             /\ down' \in Seq(Messages)
  <2>1. down' \in Seq(Messages) /\ Head(down) \in Messages
    BY <1>1, <1>3, PipesTyped DEF TakeRequest, Reading
  <2>2. proc' = [proc EXCEPT !.handling = @ \cup {Head(down).value}, !.revision = @ + 1]
    BY <1>3 DEF TakeRequest
  <2>3. Head(down).value \in Calls
    BY <1>3, <2>1 DEF TakeRequest, Messages
  <2>4. proc' \in Processes
    <3>1. proc.handling \cup {Head(down).value} \in SUBSET Calls /\ proc.revision + 1 \in Nat
      BY <1>1, <2>3 DEF Processes
    <3>2. QED
      BY <1>1, <2>2, <3>1 DEF Processes
  <2>5. QED
    BY <1>3, <2>1, <2>4 DEF TakeRequest
<1>4. ASSUME TakeStop
      PROVE  /\ proc' \in Processes
             /\ UNCHANGED <<host, calls, lock>>
             /\ up' \in Seq(Messages) /\ down' \in Seq(Messages)
  <2>1. proc' \in Processes
    BY <1>1, <1>4 DEF TakeStop, Processes
  <2>2. up' \in Seq(Messages) /\ down' \in Seq(Messages)
    BY <1>1, <1>4, MessageTyped, PipesTyped DEF TakeStop, Reading, Told
  <2>3. QED
    BY <1>4, <2>1, <2>2 DEF TakeStop
<1>5. ASSUME NEW c \in Calls, Handle(c)
      PROVE  /\ proc' \in Processes
             /\ UNCHANGED <<host, calls, lock, down>>
             /\ up' \in Seq(Messages)
  <2>1. proc' \in Processes
    BY <1>1, <1>5 DEF Handle, Processes
  <2>2. up' \in Seq(Messages)
    BY <1>1, <1>5, MessageTyped, PipesTyped DEF Handle, Told
  <2>3. QED
    BY <1>5, <2>1, <2>2 DEF Handle
<1>6. ASSUME LoopTurn \/ LoopTop \/ Advertise
      PROVE  /\ proc' \in Processes
             /\ UNCHANGED <<host, calls, lock, down>>
             /\ up' \in Seq(Messages)
  <2>1. proc' \in Processes
    <3>1. ASSUME LoopTurn PROVE proc' \in Processes
      <4>1. \/ proc' = [proc EXCEPT !.changed = FALSE, !.pc = "top"]
            \/ proc' = [proc EXCEPT !.changed = FALSE, !.pc = "top", !.shownBusy = TRUE,
                                    !.advertised = NoRevision]
            \/ proc' = [proc EXCEPT !.changed = FALSE, !.pc = "view"]
        BY <3>1 DEF LoopTurn
      <4>2. QED
        BY <1>1, <4>1 DEF Processes
    <3>2. ASSUME LoopTop \/ Advertise PROVE proc' \in Processes
      BY <1>1, <3>2 DEF LoopTop, Advertise, Processes
    <3>3. QED
      BY <1>6, <3>1, <3>2
  <2>2. proc.revision \in Nat
    BY <1>1 DEF Processes
  <2>3. up' \in Seq(Messages)
    BY <1>1, <1>6, <2>2, MessageTyped, PipesTyped DEF LoopTurn, LoopTop, Advertise, Told
  <2>4. QED
    BY <1>6, <2>1, <2>3 DEF LoopTurn, LoopTop, Advertise
<1>7. QED
  BY <1>1, <1>2, <1>3, <1>4, <1>5, <1>6 DEF WorkerStep

\* What the Host does about its Workers keeps the types.
LEMMA ReactionTyped ==
  ASSUME HostTypeOK, Lifetimes, HostReacts
  PROVE  HostTypeOK'
<1> USE DEF pipeVars, historyVars, bounds
<1>0. /\ host \in WorkerRecords /\ calls \in [Calls -> CallRecords]
      /\ proc \in Processes /\ up \in Seq(Messages) /\ down \in Seq(Messages)
  BY DEF HostTypeOK
<1>1. ASSUME NEW c \in Calls, EnterEmpty(c)
      PROVE  HostTypeOK'
  BY <1>1, MovedTyped, HostAssumption DEF EnterEmpty, HostTypeOK
<1>2. ASSUME NEW c \in Calls, StartWorker(c)
      PROVE  HostTypeOK'
  <2>1. NewWorker \in WorkerRecords /\ NewProcess \in Processes /\ << >> \in Seq(Messages)
    BY DEF NewWorker, WorkerRecords, NewProcess, Processes
  <2>2. [pc |-> "sending", first |-> TRUE] \in CallRecords
    BY DEF CallRecords, Unanswered
  <2>3. calls' \in [Calls -> CallRecords]
    BY <1>0, <1>2, <2>2 DEF StartWorker
  <2>4. \A d \in Calls : calls'[d].pc # "starting"
    BY <1>0, <1>2 DEF StartWorker, HostTypeOK
  <2>5. QED
    BY <1>2, <2>1, <2>3, <2>4, HostAssumption DEF StartWorker, HostTypeOK, NewWorker
<1>3. ASSUME NEW c \in Calls, EnterRunning(c)
      PROVE  HostTypeOK'
  <2>1. Moved(c, "sending")
    BY <1>3 DEF EnterRunning, Admit
  <2>2. host' \in WorkerRecords /\ host'.entry = host.entry /\ host'.watch = host.watch
    BY <1>0, <1>3 DEF EnterRunning, Admit, WorkerRecords
  <2>3. QED
    BY <1>3, <2>1, <2>2, MovedTyped DEF EnterRunning, HostTypeOK, Unanswered
<1>4. ASSUME NEW c \in Calls, EnterStopping(c) \/ TransitionOver(c) \/ EnterSpins(c)
      PROVE  HostTypeOK'
  BY <1>4, MovedTyped DEF EnterStopping, TransitionOver, EnterSpins, HostTypeOK
<1>5. ASSUME NEW c \in Calls, Send(c)
      PROVE  HostTypeOK'
  <2>1. \E pc \in {"asked", "lost"} : Moved(c, pc)
    BY <1>5 DEF Send
  <2>2. down' \in Seq(Messages)
    BY <1>0, <1>5, MessageTyped, PipesTyped DEF Send
  <2>3. host' = host
    BY <1>5 DEF Send
  <2>4. QED
    BY <1>5, <2>1, <2>2, <2>3, MovedTyped DEF Send, HostTypeOK, Unanswered, Ended
<1>6. ASSUME NEW c \in Calls, Resume(c)
      PROVE  HostTypeOK'
  <2>1. CASE calls[c].first
    <3>1. [pc |-> "sending", first |-> FALSE] \in CallRecords
      BY DEF CallRecords, Unanswered
    <3>2. calls' \in [Calls -> CallRecords]
      BY <1>0, <1>6, <2>1, <3>1 DEF Resume
    <3>3. \A d \in Calls : calls'[d].pc = "starting" <=> calls[d].pc = "starting"
      BY <1>0, <1>6, <2>1 DEF Resume
    <3>4. QED
      BY <1>6, <2>1, <3>2, <3>3 DEF Resume, HostTypeOK
  <2>2. CASE ~calls[c].first
    <3>1. Moved(c, "done") /\ StopIdle(host, Requests \ {c}, selected)
      BY <1>6, <2>2 DEF Resume
    <3>2. /\ host' \in WorkerRecords /\ down' \in Seq(Messages)
          /\ host'.entry = host.entry /\ host'.watch = host.watch
      BY <3>1, StopIdleTyped DEF HostTypeOK
    <3>3. QED
      BY <1>6, <3>1, <3>2, MovedTyped DEF Resume, HostTypeOK, Ended
  <2>3. QED
    BY <2>1, <2>2
<1>7. ASSUME HostReads
      PROVE  HostTypeOK'
  <2>1. Head(up) \in Messages /\ up' \in Seq(Messages)
    BY <1>0, <1>7, PipesTyped DEF HostReads
  <2>2. UNCHANGED <<lock, proc>>
    BY <1>7 DEF HostReads
  <2>3. CASE Head(up).kind = "response" /\ Answered(Head(up).value) /\ UNCHANGED <<host, down>>
    <3>1. Head(up).value \in Calls
      BY <2>1, <2>3 DEF Messages
    <3>2. CASE UNCHANGED calls
      BY <2>1, <2>2, <2>3, <3>2 DEF HostTypeOK
    <3>3. CASE Moved(Head(up).value, "answered") /\ calls[Head(up).value].pc = "asked"
      BY <2>1, <2>2, <2>3, <3>1, <3>3, MovedTyped DEF HostTypeOK, Unanswered
    <3>4. QED
      BY <2>3, <3>2, <3>3 DEF Answered
  <2>4. CASE Head(up).kind = "idle" /\ UNCHANGED calls
             /\ StopIdle([host EXCEPT !.idle = Head(up).value], Requests, selected)
    <3> DEFINE h == [host EXCEPT !.idle = Head(up).value]
    <3>1. Head(up).value \in Nat \cup {NoRevision}
      BY <2>1, <2>4 DEF Messages
    <3>2. h \in WorkerRecords /\ h.entry = host.entry /\ h.watch = host.watch
      BY <1>0, <3>1 DEF WorkerRecords
    <3> HIDE DEF h
    <3>3. StopIdle(h, Requests, selected)
      BY <2>4 DEF h
    <3>4. QED
      BY <2>1, <2>2, <2>4, <3>2, <3>3, StopIdleTyped DEF HostTypeOK
  <2>5. CASE (Head(up).kind = "busy" /\ host' = Unstopped) \/
             (Head(up).kind = "stopping" /\ host' = [host EXCEPT !.stopping = TRUE])
    <3>1. UNCHANGED <<calls, down>>
      BY <1>7, <2>5 DEF HostReads
    <3>2. host' \in WorkerRecords /\ host'.entry = host.entry /\ host'.watch = host.watch
      BY <1>0, <2>5 DEF Unstopped, WorkerRecords
    <3>3. QED
      BY <2>1, <2>2, <3>1, <3>2 DEF HostTypeOK
  <2>6. QED
    BY <1>7, <2>3, <2>4, <2>5 DEF HostReads
<1>8. ASSUME EndOfPipe \/ Joined
      PROVE  HostTypeOK'
  <2>1. host' \in WorkerRecords
    BY <1>0, <1>8 DEF EndOfPipe, Joined, WorkerRecords
  <2>2. host'.entry = host.entry /\ host'.watch # "exited" /\ host.watch # "exited"
    BY <1>0, <1>8 DEF EndOfPipe, Joined, WorkerRecords
  <2>3. QED
    BY <1>8, <2>1, <2>2 DEF EndOfPipe, Joined, HostTypeOK
<1>9. ASSUME Exited
      PROVE  HostTypeOK'
  <2>1. NoWorker \in WorkerRecords /\ ~NoWorker.entry /\ NoWorker.watch = "exited"
    BY DEF NoWorker, NewWorker, WorkerRecords
  <2>2. \A c \in Calls :
          calls'[c] \in CallRecords /\ (calls'[c].pc = "starting" <=> calls[c].pc = "starting")
    <3>1. PICK verdict \in {"lost", "failed"} : calls' = [c \in Calls |->
            CASE calls[c].pc = "asked" -> [calls[c] EXCEPT !.pc = verdict]
              [] calls[c].pc = "sending" -> [calls[c] EXCEPT !.pc = "lost"]
              [] calls[c].pc = "answered" ->
                   [calls[c] EXCEPT !.pc = IF calls[c].first THEN "lost" ELSE "done"]
              [] OTHER -> calls[c]]
      BY <1>9 DEF Exited, FailPending, Verdicts
    <3>2. TAKE c \in Calls
    <3>3. calls[c] \in CallRecords
      BY <1>0
    <3>4. QED
      BY <3>1, <3>3 DEF CallRecords, Ended, Unanswered
  <2>3. calls' = [c \in Calls |-> calls'[c]]
    BY <1>9 DEF Exited, FailPending
  <2>4. calls' \in [Calls -> CallRecords]
    BY <2>2, <2>3
  <2>5. QED
    BY <1>9, <2>1, <2>2, <2>4 DEF Exited, HostTypeOK
<1>10. ASSUME ReclaimWrites
       PROVE  HostTypeOK'
  BY <1>10, HostAssumption DEF ReclaimWrites, HostTypeOK
<1>11. QED
  BY <1>1, <1>2, <1>3, <1>4, <1>5, <1>6, <1>7, <1>8, <1>9, <1>10 DEF HostReacts

\* What the Host is asked to do keeps the types.
LEMMA AskedTyped ==
  ASSUME HostTypeOK, HostIsAsked
  PROVE  HostTypeOK'
<1> USE DEF pipeVars, historyVars, bounds
<1>1. ASSUME NEW c \in Calls, Call(c)
      PROVE  HostTypeOK'
  BY <1>1, MovedTyped DEF Call, HostTypeOK
<1>2. ASSUME Switch
      PROVE  HostTypeOK'
  <2>1. /\ host' \in WorkerRecords /\ host'.entry = host.entry /\ host'.watch = host.watch
        /\ down' \in Seq(Messages)
    BY <1>2, StopIdleTyped DEF Switch, HostTypeOK
  <2>2. QED
    BY <1>2, <2>1 DEF Switch, HostTypeOK
<1>3. ASSUME Reclaim
      PROVE  HostTypeOK'
  <2>1. proc' \in Processes
    BY <1>3 DEF Reclaim, HostTypeOK, Processes
  <2>2. QED
    BY <1>3, <2>1, HostAssumption DEF Reclaim, HostTypeOK
<1>4. QED
  BY <1>1, <1>2, <1>3 DEF HostIsAsked

\* Every step keeps the types.
LEMMA StepTyped ==
  ASSUME HostTypeOK, Lifetimes, HostNext
  PROVE  HostTypeOK'
<1>1. CASE WorkerStep \/ WorkerDies
  BY <1>1, WorkerTyped DEF HostTypeOK
<1>2. QED
  BY <1>1, ReactionTyped, AskedTyped DEF HostNext

-------------------------------------------------------------------------------
\* One writer

\* What a step does to the life of a process, and to what the Host knows of it.
LEMMA WorkerLives ==
  ASSUME HostTypeOK, Lifetimes, WorkerStep \/ WorkerDies
  PROVE  Lifetimes'
<1> USE DEF pipeVars, historyVars, bounds, Lifetimes
<1>0. proc \in Processes
  BY DEF HostTypeOK
<1>1. ASSUME Ready \/ Rest \/ TakeRequest \/ TakeStop
      PROVE  Lifetimes'
  <2>1. /\ proc'.open = proc.open /\ proc.open
        /\ proc'.pc \notin {"closed", "dead"}
        /\ UNCHANGED <<host, lock>>
        /\ host.watch = "reading" /\ host.entry
    BY <1>0, <1>1 DEF Ready, Rest, TakeRequest, TakeStop, Reading, Processes
  <2>2. QED
    BY <2>1
<1>2. ASSUME (\E c \in Calls : Handle(c)) \/ LoopTurn \/ Advertise \/ LoopTop
      PROVE  Lifetimes'
  <2>1. /\ proc'.open = proc.open /\ proc.open
        /\ proc'.pc \notin {"closed", "dead"}
        /\ UNCHANGED <<host, lock>>
        /\ host.watch = "reading" /\ host.entry
    <3>1. UNCHANGED <<host, lock>> /\ proc.pc \notin {"closed", "dead"}
      BY <1>2 DEF Handle, LoopTurn, Advertise, LoopTop
    <3>2. proc'.open = proc.open /\ proc'.pc \notin {"closed", "dead"}
      <4>1. CASE \E c \in Calls : Handle(c)
        BY <1>0, <4>1 DEF Handle, Processes
      <4>2. CASE LoopTurn
        BY <1>0, <4>2 DEF LoopTurn, Processes
      <4>3. CASE Advertise \/ LoopTop
        BY <1>0, <4>3 DEF Advertise, LoopTop, Processes
      <4>4. QED
        BY <1>2, <4>1, <4>2, <4>3
    <3>3. QED
      BY <1>0, <3>1, <3>2
  <2>2. QED
    BY <2>1
<1>3. ASSUME ClosePipe
      PROVE  Lifetimes'
  <2>1. ~proc'.open /\ proc'.pc = "closed" /\ proc'.handling = {}
    BY <1>0, <1>3 DEF ClosePipe, Processes
  <2>2. QED
    BY <1>3, <2>1 DEF ClosePipe
<1>4. ASSUME ProcessEnds \/ Terminated \/ WorkerDies
      PROVE  Lifetimes'
  <2>1. ~proc'.open /\ proc'.pc = "dead" /\ proc'.handling = {}
    <3>1. CASE ProcessEnds
      BY <1>0, <3>1 DEF ProcessEnds, Processes
    <3>2. CASE Terminated \/ WorkerDies
      <4>1. PICK end : proc' = Killed(end)
        BY <3>2 DEF Terminated, WorkerDies
      <4>2. QED
        BY <1>0, <4>1 DEF Killed, Processes
    <3>3. QED
      BY <1>4, <3>1, <3>2
  <2>2. QED
    BY <1>4, <2>1 DEF ProcessEnds, Terminated, WorkerDies
<1>5. QED
  BY <1>1, <1>2, <1>3, <1>4 DEF WorkerStep

\* The steps of the Host keep Workers and their processes in agreement.
LEMMA HostLives ==
  ASSUME HostTypeOK, Lifetimes, HostReacts \/ HostIsAsked
  PROVE  Lifetimes'
<1> USE DEF pipeVars, historyVars, bounds, Lifetimes
<1>0. /\ host \in WorkerRecords /\ proc \in Processes /\ up \in Seq(Messages)
      /\ host.entry <=> host.watch # "exited"
      /\ lock \in Calls \cup {"free", "reclaim"}
  BY DEF HostTypeOK
<1>1. ASSUME NEW c \in Calls,
             EnterEmpty(c) \/ EnterStopping(c) \/ EnterSpins(c) \/ TransitionOver(c) \/ Call(c)
      PROVE  Lifetimes'
  BY <1>1 DEF EnterEmpty, EnterStopping, EnterSpins, TransitionOver, Call
<1>2. ASSUME NEW c \in Calls, StartWorker(c)
      PROVE  Lifetimes'
  BY <1>2, HostAssumption DEF StartWorker, NewWorker, NewProcess
<1>3. ASSUME NEW c \in Calls, EnterRunning(c)
      PROVE  Lifetimes'
  BY <1>0, <1>3 DEF EnterRunning, Admit, WorkerRecords
<1>4. ASSUME NEW c \in Calls, Send(c)
      PROVE  Lifetimes'
  BY <1>4 DEF Send
<1>5. ASSUME (\E c \in Calls : Resume(c)) \/ Switch
      PROVE  Lifetimes'
  <2>1. UNCHANGED <<lock, proc, up>>
    BY <1>5 DEF Resume, Switch
  <2>2. host'.entry = host.entry /\ host'.watch = host.watch
    BY <1>0, <1>5 DEF Resume, Switch, StopIdle, WorkerRecords
  <2>3. QED
    BY <2>1, <2>2
<1>6. ASSUME HostReads
      PROVE  Lifetimes'
  <2>1. UNCHANGED <<lock, proc>> /\ host.watch = "reading"
    BY <1>6 DEF HostReads
  <2>2. host'.entry = host.entry /\ host'.watch = host.watch
    BY <1>0, <1>6 DEF HostReads, StopIdle, Unstopped, WorkerRecords
  <2>3. QED
    BY <2>1, <2>2
<1>7. ASSUME EndOfPipe \/ Joined
      PROVE  Lifetimes'
  <2>1. /\ UNCHANGED <<lock, proc, up>>
        /\ host'.entry = host.entry
        /\ host'.watch \in {"joining", "closing"}
        /\ host'.watch = "closing" => proc.pc = "dead"
        /\ ~proc.open /\ up = << >>
    BY <1>0, <1>7 DEF EndOfPipe, Joined, WorkerRecords
  <2>2. QED
    BY <2>1
<1>8. ASSUME Exited
      PROVE  Lifetimes'
  <2>1. proc.pc = "dead" /\ ~proc.open /\ up = << >> /\ UNCHANGED <<lock, proc, up>>
    BY <1>8 DEF Exited
  <2>2. host' = NoWorker
    BY <1>8 DEF Exited
  <2>3. ~host'.entry
    BY <2>2 DEF NoWorker, NewWorker
  <2>4. QED
    BY <2>1, <2>3
<1>9. ASSUME Reclaim \/ ReclaimWrites
      PROVE  Lifetimes'
  <2>1. /\ UNCHANGED <<host, up>>
        /\ lock' \notin Calls
        /\ proc'.pc = proc.pc /\ proc'.open = proc.open /\ proc'.handling = proc.handling
    BY <1>0, <1>9, HostAssumption DEF Reclaim, ReclaimWrites, Processes
  <2>2. QED
    BY <2>1
<1>10. QED
  BY <1>1, <1>2, <1>3, <1>4, <1>5, <1>6, <1>7, <1>8, <1>9 DEF HostReacts, HostIsAsked

\* Every step does.
LEMMA LivesStep ==
  ASSUME HostTypeOK, Lifetimes, HostNext
  PROVE  Lifetimes'
BY WorkerLives, HostLives DEF HostNext

-------------------------------------------------------------------------------
\* Messages

\* What a pipe holds after a message is added, and what it still holds only once.
LEMMA PostPipe ==
  ASSUME NEW s \in Seq(Messages), NEW m \in Messages
  PROVE  /\ \A kind, v : Has(Append(s, m), kind, v) <=> Has(s, kind, v) \/ (m.kind = kind /\ m.value = v)
         /\ \A kind : Once(s, kind) /\ (m.kind = kind => ~Has(s, kind, m.value))
                        => Once(Append(s, m), kind)
<1>1. /\ Len(Append(s, m)) = Len(s) + 1 /\ Len(s) \in Nat
      /\ \A i \in 1..Len(s) : Append(s, m)[i] = s[i]
      /\ Append(s, m)[Len(s) + 1] = m
  OBVIOUS
<1>2. \A i \in 1..Len(Append(s, m)) : i \in 1..Len(s) \/ i = Len(s) + 1
  BY <1>1
<1>3. Len(s) + 1 \in 1..Len(Append(s, m)) /\ \A i \in 1..Len(s) : i \in 1..Len(Append(s, m))
  BY <1>1
<1> DEFINE t == Append(s, m)
<1> HIDE DEF t
<1>4. \A kind, v : Has(t, kind, v) <=> Has(s, kind, v) \/ (m.kind = kind /\ m.value = v)
  BY <1>1, <1>2, <1>3 DEF Has, t
<1>5. \A kind : Once(s, kind) /\ (m.kind = kind => ~Has(s, kind, m.value)) => Once(t, kind)
  BY <1>1, <1>2 DEF Has, Once, t
<1>6. QED
  BY <1>4, <1>5 DEF t

\* What a pipe holds after its first message is taken.
LEMMA ReadPipe ==
  ASSUME NEW s \in Seq(Messages), s # << >>
  PROVE  /\ \A kind, v : Has(Tail(s), kind, v) => Has(s, kind, v)
         /\ \A kind : Once(s, kind) => Once(Tail(s), kind)
         /\ Has(s, Head(s).kind, Head(s).value)
         /\ Once(s, Head(s).kind) => ~Has(Tail(s), Head(s).kind, Head(s).value)
<1>1. /\ Len(Tail(s)) = Len(s) - 1 /\ Len(s) \in Nat \ {0}
      /\ \A i \in 1..Len(Tail(s)) : Tail(s)[i] = s[i + 1]
      /\ Head(s) = s[1]
  OBVIOUS
<1>2. /\ \A i \in 1..Len(Tail(s)) : i + 1 \in 1..Len(s) /\ i + 1 # 1
      /\ \A i, j \in 1..Len(Tail(s)) : i + 1 = j + 1 => i = j
      /\ 1 \in 1..Len(s)
  BY <1>1
<1> DEFINE t == Tail(s)
<1> HIDE DEF t
<1>3. \A kind, v : Has(t, kind, v) => Has(s, kind, v)
  BY <1>1, <1>2 DEF Has, t
<1>4. \A kind : Once(s, kind) => Once(t, kind)
  BY <1>1, <1>2 DEF Once, t
<1>5. Has(s, Head(s).kind, Head(s).value)
  BY <1>1, <1>2 DEF Has
<1>6. Once(s, Head(s).kind) => ~Has(t, Head(s).kind, Head(s).value)
  BY <1>1, <1>2 DEF Once, Has, t
<1>7. QED
  BY <1>3, <1>4, <1>5, <1>6 DEF t

\* A signal of the Worker is no response.
LEMMA SignalPosted ==
  ASSUME NEW s \in Seq(Messages), NEW kind \in {"idle", "busy", "stopping"},
         NEW value \in Nat \cup {NoRevision}, Once(s, "response")
  PROVE  /\ Once(Append(s, Message(kind, value)), "response")
         /\ \A c \in Calls : Has(Append(s, Message(kind, value)), "response", c)
                             => Has(s, "response", c)
<1>1. Message(kind, value) \in Messages
  BY MessageTyped
<1>2. Message(kind, value).kind # "response"
  BY DEF Message
<1>3. QED
  BY <1>1, <1>2, PostPipe

\* An empty pipe holds no message.
LEMMA EmptyPipe == \A kind, v : ~Has(<< >>, kind, v) /\ Once(<< >>, kind)
BY DEF Has, Once

\* A step that adds no request and no response, and does not end a request that waits
LEMMA QuietKeeps ==
  ASSUME OneMessage, AnsweredIsWritten,
         proc'.open => Once(down', "request"),
         Once(up', "response"),
         \A c \in Calls :
           /\ proc'.open /\ Has(down', "request", c) => proc.open /\ Has(down, "request", c)
           /\ Has(up', "response", c) => Has(up, "response", c)
           /\ calls[c].pc = "asked" => calls'[c] = calls[c]
           /\ calls'[c].pc = "answered" => calls'[c] = calls[c],
         proc'.handling \subseteq proc.handling,
         proc'.handling # {} => proc'.open,
         written' = written
  PROVE  OneMessage' /\ AnsweredIsWritten'
<1>1. OneMessage'
  BY DEF OneMessage
<1>2. AnsweredIsWritten'
  BY DEF AnsweredIsWritten
<1>3. QED
  BY <1>1, <1>2

\* A Worker's steps leave every call one message at most, and answer what is written only.
LEMMA WorkerMessages ==
  ASSUME HostInv, WorkerStep \/ WorkerDies
  PROVE  OneMessage' /\ AnsweredIsWritten'
<1> USE DEF pipeVars, historyVars, bounds
<1>0. /\ proc \in Processes /\ up \in Seq(Messages) /\ down \in Seq(Messages)
      /\ calls \in [Calls -> CallRecords]
      /\ Lifetimes /\ OneMessage /\ AnsweredIsWritten /\ HostTypeOK
  BY DEF HostInv, HostTypeOK
<1>1. calls' = calls
  BY <1>0, WorkerTyped
<1>2. ASSUME Ready \/ Rest \/ ClosePipe \/ ProcessEnds \/ Terminated \/ WorkerDies
      PROVE  OneMessage' /\ AnsweredIsWritten'
  <2>1. UNCHANGED <<up, down, written>>
    BY <1>2 DEF Ready, Rest, ClosePipe, ProcessEnds, Terminated, WorkerDies
  <2>2. proc'.handling \subseteq proc.handling /\ (proc'.open => proc.open)
        /\ (proc'.handling # {} => proc'.open)
    <3>1. CASE Ready \/ Rest
      BY <1>0, <3>1 DEF Ready, Rest, Processes, Lifetimes
    <3>2. CASE ClosePipe \/ ProcessEnds
      BY <1>0, <3>2 DEF ClosePipe, ProcessEnds, Processes, Lifetimes
    <3>3. CASE Terminated \/ WorkerDies
      BY <1>0, <3>3 DEF Terminated, WorkerDies, Killed, Processes
    <3>4. QED
      BY <1>2, <3>1, <3>2, <3>3
  <2>3. QED
    BY <1>0, <1>1, <2>1, <2>2, QuietKeeps DEF OneMessage
<1>3. ASSUME LoopTurn \/ Advertise \/ LoopTop
      PROVE  OneMessage' /\ AnsweredIsWritten'
  <2>1. UNCHANGED <<down, written>>
    BY <1>3 DEF LoopTurn, Advertise, LoopTop
  <2>2. proc'.handling = proc.handling /\ proc'.open = proc.open
    <3>1. CASE LoopTurn
      BY <1>0, <3>1 DEF LoopTurn, Processes
    <3>2. CASE Advertise \/ LoopTop
      BY <1>0, <3>2 DEF Advertise, LoopTop, Processes
    <3>3. QED
      BY <1>3, <3>1, <3>2
  <2>3. Once(up, "response") /\ proc.revision \in Nat
    BY <1>0 DEF OneMessage, Processes
  <2>4. Once(up', "response") /\ \A c \in Calls : Has(up', "response", c) => Has(up, "response", c)
    <3>1. \/ up' = up \/ up' = Append(up, Message("busy", NoRevision))
          \/ up' = Append(up, Message("idle", proc.revision))
          \/ up' = Append(up, Message("stopping", NoRevision))
      BY <1>3 DEF LoopTurn, Advertise, LoopTop, Told
    <3>2. CASE up' = up
      BY <2>3, <3>2
    <3>3. CASE up' = Append(up, Message("busy", NoRevision))
      BY <1>0, <2>3, <3>3, SignalPosted
    <3>4. CASE up' = Append(up, Message("idle", proc.revision))
      BY <1>0, <2>3, <3>4, SignalPosted
    <3>5. CASE up' = Append(up, Message("stopping", NoRevision))
      BY <1>0, <2>3, <3>5, SignalPosted
    <3>6. QED
      BY <3>1, <3>2, <3>3, <3>4, <3>5
  <2>5. QED
    BY <1>0, <1>1, <2>1, <2>2, <2>4, QuietKeeps DEF OneMessage, Lifetimes
<1>4. ASSUME TakeStop
      PROVE  OneMessage' /\ AnsweredIsWritten'
  <2>1. proc'.handling = proc.handling /\ proc'.open = proc.open /\ written' = written
    BY <1>0, <1>4 DEF TakeStop, Processes
  <2>2. /\ Once(down, "request") => Once(down', "request")
        /\ \A c \in Calls : Has(down', "request", c) => Has(down, "request", c)
    BY <1>0, <1>4, ReadPipe DEF TakeStop, Reading
  <2>3. up' = up \/ up' = Append(up, Message("busy", NoRevision))
    BY <1>4 DEF TakeStop, Told
  <2>4. Once(up', "response") /\ \A c \in Calls : Has(up', "response", c) => Has(up, "response", c)
    BY <1>0, <2>3, SignalPosted DEF OneMessage
  <2>5. QED
    BY <1>0, <1>1, <2>1, <2>2, <2>4, QuietKeeps DEF OneMessage, Lifetimes
<1>5. ASSUME TakeRequest
      PROVE  OneMessage' /\ AnsweredIsWritten'
  <2> DEFINE c == Head(down).value
  <2>1. down # << >> /\ Head(down) \in Messages /\ Head(down).kind = "request" /\ proc.open
    BY <1>0, <1>5, PipesTyped DEF TakeRequest, Reading, Lifetimes
  <2>2. c \in Calls
    BY <2>1 DEF Messages
  <2>3. UNCHANGED <<up, written>> /\ down' = Tail(down)
    BY <1>5 DEF TakeRequest
  <2>4. proc'.handling = proc.handling \cup {c} /\ proc'.open = proc.open
    BY <1>0, <1>5 DEF TakeRequest, Processes
  <2>5. Has(down, "request", c) /\ Once(down', "request") /\ ~Has(down', "request", c)
    BY <1>0, <2>1, <2>3, ReadPipe DEF OneMessage
  <2>6. \A d \in Calls : Has(down', "request", d) => Has(down, "request", d)
    BY <1>0, <2>1, <2>3, ReadPipe
  <2> HIDE DEF c
  <2>7. OneMessage'
    BY <1>0, <1>1, <2>1, <2>2, <2>3, <2>4, <2>5, <2>6 DEF OneMessage
  <2>8. AnsweredIsWritten'
    BY <1>0, <1>1, <2>3 DEF AnsweredIsWritten
  <2>9. QED
    BY <2>7, <2>8
<1>6. ASSUME NEW c \in Calls, Handle(c)
      PROVE  OneMessage' /\ AnsweredIsWritten'
  <2>1. c \in proc.handling /\ down' = down /\ proc.open
    BY <1>0, <1>6 DEF Handle, Lifetimes
  <2>2. proc'.handling = proc.handling \ {c} /\ proc'.open = proc.open
    BY <1>0, <1>6 DEF Handle, Processes
  <2>3. /\ up' = Append(up, Message("response", c))
        /\ Message("response", c) \in Messages
        /\ Message("response", c).kind = "response" /\ Message("response", c).value = c
    BY <1>6, MessageTyped DEF Handle, Told, Message
  <2>4. calls[c].pc = "asked" /\ ~Has(up, "response", c) /\ ~Has(down, "request", c)
    BY <1>0, <2>1 DEF OneMessage
  <2>5. Once(up', "response") /\ \A d \in Calls : Has(up', "response", d) => Has(up, "response", d) \/ d = c
    BY <1>0, <2>3, <2>4, PostPipe DEF OneMessage
  <2>6. written \subseteq written' /\ (~calls[c].first => c \in written')
    BY <1>6 DEF Handle
  <2>7. OneMessage'
    BY <1>0, <1>1, <2>1, <2>2, <2>4, <2>5 DEF OneMessage
  <2>8. AnsweredIsWritten'
    BY <1>0, <1>1, <2>4, <2>5, <2>6 DEF AnsweredIsWritten
  <2>9. QED
    BY <2>7, <2>8
<1>7. QED
  BY <1>2, <1>3, <1>4, <1>5, <1>6 DEF WorkerStep

\* A request to stop is no request of a caller.
LEMMA StopPosted ==
  ASSUME down \in Seq(Messages), NEW h \in WorkerRecords, NEW rs, NEW sel, StopIdle(h, rs, sel),
         proc.open => Once(down, "request")
  PROVE  /\ proc.open => Once(down', "request")
         /\ \A c \in Calls : proc.open /\ Has(down', "request", c) => Has(down, "request", c)
<1>1. down' = down \/ down' = Append(down, Message("stop", h.idle))
  BY DEF StopIdle, Posted
<1>2. Message("stop", h.idle) \in Messages
  BY MessageTyped DEF WorkerRecords
<1>3. Message("stop", h.idle).kind # "request"
  BY DEF Message
<1>4. CASE down' = Append(down, Message("stop", h.idle))
  <2>1. \A c \in Calls : Has(down', "request", c) => Has(down, "request", c)
    BY <1>2, <1>3, <1>4, PostPipe
  <2>2. Once(down, "request") => Once(down', "request")
    BY <1>2, <1>3, <1>4, PostPipe
  <2>3. QED
    BY <2>1, <2>2
<1>5. QED
  BY <1>1, <1>4

\* The Host's steps do too.
LEMMA HostMessages ==
  ASSUME HostInv, HostReacts \/ HostIsAsked
  PROVE  OneMessage' /\ AnsweredIsWritten'
<1> USE DEF pipeVars, historyVars, bounds
<1>0. /\ proc \in Processes /\ up \in Seq(Messages) /\ down \in Seq(Messages)
      /\ host \in WorkerRecords /\ calls \in [Calls -> CallRecords]
      /\ Lifetimes /\ OneMessage /\ AnsweredIsWritten /\ HostTypeOK
      /\ proc.handling # {} => proc.open
      /\ proc.open => Once(down, "request")
      /\ Once(up, "response")
  BY DEF HostInv, HostTypeOK, Lifetimes, OneMessage
<1>1. ASSUME NEW c \in Calls, NEW pc, Moved(c, pc), UNCHANGED <<pipeVars, proc, written>>,
             pc \in {"enter", "starting", "waiting", "sending"}, calls[c].pc # "asked"
      PROVE  OneMessage' /\ AnsweredIsWritten'
  <2>1. \A d \in Calls : /\ calls[d].pc = "asked" => calls'[d] = calls[d]
                         /\ calls'[d].pc = "answered" => calls'[d] = calls[d]
    BY <1>0, <1>1, MovedTyped DEF Unanswered
  <2>2. QED
    BY <1>0, <1>1, <2>1, QuietKeeps
<1>2. ASSUME NEW c \in Calls,
             \/ Call(c) \/ EnterEmpty(c) \/ EnterRunning(c) \/ EnterStopping(c) \/ TransitionOver(c)
      PROVE  OneMessage' /\ AnsweredIsWritten'
  BY <1>1, <1>2 DEF Call, EnterEmpty, EnterRunning, Admit, EnterStopping, TransitionOver
<1>3. ASSUME NEW c \in Calls, StartWorker(c)
      PROVE  OneMessage' /\ AnsweredIsWritten'
  <2>1. proc'.handling = {} /\ down' = << >> /\ up' = << >> /\ written' = written
    BY <1>3 DEF StartWorker, NewProcess
  <2>2. \A d \in Calls : /\ calls[d].pc = "asked" => calls'[d] = calls[d]
                         /\ calls'[d].pc = "answered" => calls'[d] = calls[d]
    BY <1>0, <1>3 DEF StartWorker
  <2>3. QED
    BY <1>0, <2>1, <2>2, EmptyPipe, QuietKeeps
<1>4. ASSUME NEW c \in Calls, EnterSpins(c)
      PROVE  OneMessage' /\ AnsweredIsWritten'
  BY <1>0, <1>4, QuietKeeps DEF EnterSpins
<1>5. ASSUME NEW c \in Calls, Send(c)
      PROVE  OneMessage' /\ AnsweredIsWritten'
  <2>1. UNCHANGED <<up, proc, written>> /\ calls[c].pc = "sending"
    BY <1>5 DEF Send
  <2>2. /\ c \notin proc.handling /\ ~Has(up, "response", c)
        /\ proc.open => ~Has(down, "request", c)
    BY <1>0, <2>1 DEF OneMessage, AnsweredIsWritten
  <2>3. CASE proc.open
    <3>1. down' = Append(down, Message("request", c)) /\ Moved(c, "asked")
      BY <1>5, <2>3 DEF Send
    <3>2. /\ Message("request", c) \in Messages
          /\ Message("request", c).kind = "request" /\ Message("request", c).value = c
      BY MessageTyped DEF Message
    <3>3. /\ Once(down', "request")
          /\ \A d \in Calls : Has(down', "request", d) => Has(down, "request", d) \/ d = c
      BY <1>0, <2>2, <2>3, <3>1, <3>2, PostPipe
    <3>4. /\ calls'[c].pc = "asked"
          /\ \A d \in Calls \ {c} : calls'[d] = calls[d]
      BY <1>0, <3>1, MovedTyped DEF Unanswered
    <3>5. OneMessage'
      BY <1>0, <2>1, <2>2, <2>3, <3>3, <3>4 DEF OneMessage
    <3>6. AnsweredIsWritten'
      BY <1>0, <2>1, <2>2, <3>4 DEF AnsweredIsWritten
    <3>7. QED
      BY <3>5, <3>6
  <2>4. CASE ~proc.open
    <3>1. Moved(c, "lost") /\ down' = down
      BY <1>5, <2>4 DEF Send
    <3>2. \A d \in Calls : /\ calls[d].pc = "asked" => calls'[d] = calls[d]
                           /\ calls'[d].pc = "answered" => calls'[d] = calls[d]
      BY <1>0, <2>1, <3>1, MovedTyped DEF Ended
    <3>3. QED
      BY <1>0, <2>1, <3>1, <3>2, QuietKeeps
  <2>5. QED
    BY <2>3, <2>4
<1>6. ASSUME NEW c \in Calls, Resume(c)
      PROVE  OneMessage' /\ AnsweredIsWritten'
  <2>1. UNCHANGED <<up, proc, written>> /\ calls[c].pc = "answered"
    BY <1>6 DEF Resume
  <2>2. \A d \in Calls : /\ calls[d].pc = "asked" => calls'[d] = calls[d]
                         /\ calls'[d].pc = "answered" => calls'[d] = calls[d]
    <3>1. CASE calls[c].first
      BY <1>0, <1>6, <2>1, <3>1 DEF Resume
    <3>2. CASE ~calls[c].first
      <4>1. Moved(c, "done")
        BY <1>6, <3>2 DEF Resume
      <4>2. QED
        BY <1>0, <2>1, <4>1, MovedTyped DEF Ended
    <3>3. QED
      BY <3>1, <3>2
  <2>3. /\ proc.open => Once(down', "request")
        /\ \A d \in Calls : proc.open /\ Has(down', "request", d) => Has(down, "request", d)
    <3>1. down' = down \/ StopIdle(host, Requests \ {c}, selected)
      BY <1>6 DEF Resume
    <3>2. QED
      BY <1>0, <3>1, StopPosted
  <2>4. QED
    BY <1>0, <2>1, <2>2, <2>3, QuietKeeps
<1>7. ASSUME Switch
      PROVE  OneMessage' /\ AnsweredIsWritten'
  <2>1. UNCHANGED <<up, proc, written, calls>>
    BY <1>7 DEF Switch
  <2>2. down' = down \/ StopIdle(host, Requests, ~selected)
    BY <1>7 DEF Switch
  <2>3. /\ proc.open => Once(down', "request")
        /\ \A d \in Calls : proc.open /\ Has(down', "request", d) => Has(down, "request", d)
    BY <1>0, <2>2, StopPosted
  <2>4. QED
    BY <1>0, <2>1, <2>3, QuietKeeps
<1>8. ASSUME HostReads
      PROVE  OneMessage' /\ AnsweredIsWritten'
  <2>1. /\ UNCHANGED <<proc, written>> /\ up # << >> /\ up' = Tail(up) /\ Head(up) \in Messages
    BY <1>0, <1>8, PipesTyped DEF HostReads
  <2>2. Once(up', "response") /\ \A c \in Calls : Has(up', "response", c) => Has(up, "response", c)
    BY <1>0, <2>1, ReadPipe
  <2>3. CASE UNCHANGED calls
    <3>1. \/ down' = down
          \/ \E h \in WorkerRecords : StopIdle(h, Requests, selected)
      <4>1. CASE Head(up).kind = "idle" /\ StopIdle([host EXCEPT !.idle = Head(up).value], Requests, selected)
        <5>1. Head(up).value \in Nat \cup {NoRevision}
          BY <2>1, <4>1 DEF Messages
        <5>2. [host EXCEPT !.idle = Head(up).value] \in WorkerRecords
          BY <1>0, <5>1 DEF WorkerRecords
        <5>3. QED
          BY <4>1, <5>2
      <4>2. QED
        BY <1>8, <4>1 DEF HostReads
    <3>2. /\ proc.open => Once(down', "request")
          /\ \A d \in Calls : proc.open /\ Has(down', "request", d) => Has(down, "request", d)
      BY <1>0, <3>1, StopPosted
    <3>3. QED
      BY <1>0, <2>1, <2>2, <2>3, <3>2, QuietKeeps
  <2>4. CASE /\ Head(up).kind = "response" /\ down' = down
             /\ Moved(Head(up).value, "answered") /\ calls[Head(up).value].pc = "asked"
    <3> DEFINE c == Head(up).value
    <3>1. c \in Calls
      BY <2>1, <2>4 DEF Messages
    <3>2. Has(up, "response", c) /\ ~Has(up', "response", c)
      BY <1>0, <2>1, <2>4, ReadPipe
    <3>3. /\ calls'[c].pc = "answered" /\ calls'[c].first = calls[c].first
          /\ \A d \in Calls \ {c} : calls'[d] = calls[d]
      BY <1>0, <2>4, <3>1, MovedTyped DEF Unanswered
    <3>4. ~calls[c].first => c \in written
      BY <1>0, <3>1, <3>2 DEF AnsweredIsWritten
    <3> HIDE DEF c
    <3>5. OneMessage'
      BY <1>0, <2>1, <2>2, <2>4, <3>1, <3>2, <3>3 DEF OneMessage
    <3>6. AnsweredIsWritten'
      BY <1>0, <2>1, <2>2, <3>1, <3>2, <3>3, <3>4 DEF AnsweredIsWritten
    <3>7. QED
      BY <3>5, <3>6
  <2>5. QED
    BY <1>8, <2>3, <2>4 DEF HostReads, Answered
<1>9. ASSUME EndOfPipe \/ Joined \/ ReclaimWrites
      PROVE  OneMessage' /\ AnsweredIsWritten'
  BY <1>0, <1>9, QuietKeeps DEF EndOfPipe, Joined, ReclaimWrites
<1>10. ASSUME Exited
       PROVE  OneMessage' /\ AnsweredIsWritten'
  <2>1. /\ UNCHANGED <<pipeVars, proc, written>>
        /\ ~proc.open /\ up = << >> /\ proc.handling = {}
    BY <1>0, <1>10 DEF Exited, Lifetimes
  <2>2. \A c \in Calls : calls'[c].pc # "answered"
    <3>1. PICK verdict \in {"lost", "failed"} : calls' = [c \in Calls |->
            CASE calls[c].pc = "asked" -> [calls[c] EXCEPT !.pc = verdict]
              [] calls[c].pc = "sending" -> [calls[c] EXCEPT !.pc = "lost"]
              [] calls[c].pc = "answered" ->
                   [calls[c] EXCEPT !.pc = IF calls[c].first THEN "lost" ELSE "done"]
              [] OTHER -> calls[c]]
      BY <1>10 DEF Exited, FailPending, Verdicts
    <3>2. TAKE c \in Calls
    <3>3. calls[c] \in CallRecords
      BY <1>0
    <3>4. QED
      BY <3>1, <3>3 DEF CallRecords
  <2>3. OneMessage' /\ AnsweredIsWritten'
    BY <2>1, <2>2, EmptyPipe DEF OneMessage, AnsweredIsWritten
  <2>4. QED
    BY <2>3
<1>11. ASSUME Reclaim
       PROVE  OneMessage' /\ AnsweredIsWritten'
  <2>1. proc'.open = proc.open /\ proc'.handling = proc.handling
    BY <1>0, <1>11 DEF Reclaim, Processes
  <2>2. QED
    BY <1>0, <1>11, <2>1, QuietKeeps DEF Reclaim
<1>12. QED
  BY <1>2, <1>3, <1>4, <1>5, <1>6, <1>7, <1>8, <1>9, <1>10, <1>11 DEF HostReacts, HostIsAsked

\* The invariant holds in every reachable state.
LEMMA HostInvHolds == HostSpec => []HostInv
<1>1. HostInit => HostInv
  <2> SUFFICES ASSUME HostInit PROVE HostInv
    OBVIOUS
  <2>1. NoWorker \in WorkerRecords /\ ~NoWorker.entry /\ NoWorker.watch = "exited"
    BY DEF NoWorker, NewWorker, WorkerRecords
  <2>2. Dead \in Processes /\ Dead.pc = "dead" /\ ~Dead.open /\ Dead.handling = {}
    BY DEF Dead, NewProcess, Processes
  <2>3. [pc |-> "out", first |-> FALSE] \in CallRecords
    BY DEF CallRecords
  <2>4. HostTypeOK
    BY <2>1, <2>2, <2>3, HostAssumption DEF HostInit, HostTypeOK
  <2>5. Lifetimes
    BY <2>1, <2>2, HostAssumption DEF HostInit, Lifetimes
  <2>6. OneMessage /\ AnsweredIsWritten
    BY <2>2, EmptyPipe DEF HostInit, OneMessage, AnsweredIsWritten
  <2>7. QED
    BY <2>4, <2>5, <2>6 DEF HostInv
<1>2. HostInv /\ [HostNext]_hostVars => HostInv'
  <2> SUFFICES ASSUME HostInv, [HostNext]_hostVars PROVE HostInv'
    OBVIOUS
  <2>1. CASE HostNext
    <3>1. HostTypeOK' /\ Lifetimes'
      BY <2>1, StepTyped, LivesStep DEF HostInv
    <3>2. OneMessage' /\ AnsweredIsWritten'
      BY <2>1, WorkerMessages, HostMessages DEF HostNext
    <3>3. QED
      BY <3>1, <3>2 DEF HostInv
  <2>2. CASE UNCHANGED hostVars
    BY <2>2
    DEF hostVars, HostInv, HostTypeOK, Lifetimes, OneMessage, AnsweredIsWritten
  <2>3. QED
    BY <2>1, <2>2
<1>3. QED
  BY <1>1, <1>2, PTL DEF HostSpec

\* The Host's records, the pipe and the process are well-formed.
THEOREM HostTyped == HostSpec => []HostTypeOK
<1>1. HostInv => HostTypeOK
  BY DEF HostInv
<1>2. QED
  BY <1>1, HostInvHolds, PTL

\* However requests, deaths, kills and the stop handshake interleave: a Session for which
\* the Host holds no Worker has no process that could still write to its Journal.
THEOREM OneWriterHolds == HostSpec => []OneWriter
<1>1. HostInv => OneWriter
  BY DEF HostInv, Lifetimes, OneWriter
<1>2. QED
  BY <1>1, HostInvHolds, PTL

\* The Host writes a child's cancelled return only while no Worker can write to the Journal.
THEOREM HostWritesAloneHolds == HostSpec => HostWritesAlone
<1> USE DEF historyVars, pipeVars, bounds
<1>1. HostInv /\ [HostNext]_hostVars => [~cancelled /\ cancelled' => proc.pc = "dead"]_hostVars
  <2> SUFFICES ASSUME HostInv, HostNext, ~cancelled, cancelled'
               PROVE  proc.pc = "dead"
    OBVIOUS
  <2>1. CASE ReclaimWrites
    BY <2>1 DEF ReclaimWrites, HostInv, Lifetimes
  <2>2. CASE HostIsAsked
    BY <2>2 DEF HostIsAsked, Call, Switch, Reclaim
  <2>3. CASE WorkerStep \/ WorkerDies
    BY <2>3
    DEF WorkerStep, Ready, TakeRequest, Handle, Rest, TakeStop, LoopTurn, Advertise, LoopTop,
        ClosePipe, ProcessEnds, Terminated, WorkerDies
  <2>4. CASE \E c \in Calls : \/ EnterEmpty(c) \/ StartWorker(c) \/ EnterRunning(c)
                              \/ EnterStopping(c) \/ EnterSpins(c) \/ TransitionOver(c)
                              \/ Send(c) \/ Resume(c)
    BY <2>4
    DEF EnterEmpty, StartWorker, EnterRunning, EnterStopping, EnterSpins, TransitionOver, Send,
        Resume
  <2>5. CASE HostReads \/ EndOfPipe \/ Joined \/ Exited
    BY <2>5 DEF HostReads, EndOfPipe, Joined, Exited
  <2>6. QED
    BY <2>1, <2>2, <2>3, <2>4, <2>5 DEF HostNext, HostReacts
<1>2. QED
  BY <1>1, HostInvHolds, PTL DEF HostSpec, HostWritesAlone

-------------------------------------------------------------------------------
\* The promise

\* What a caller knows of a request that is at pc.
Standing(pc) ==
  CASE pc = "out" -> "none"
    [] pc = "done" -> "confirmed"
    [] pc \in {"failed", "lost"} -> "refused"
    [] OTHER -> "open"

\* A request that moves on without an end, and nothing written, is no step of the promise.
LEMMA StandingKept ==
  ASSUME \A c \in Calls : Standing(calls'[c].pc) = Standing(calls[c].pc)
  PROVE  Promised' = Promised
BY DEF Promised, Standing

\* One request ends, and nothing is written.
LEMMA OneSettled ==
  ASSUME HostTypeOK, NEW c \in Calls, NEW pc \in {"done", "lost"}, Moved(c, pc),
         UNCHANGED written, Standing(calls[c].pc) = "open", pc = "done" => c \in written
  PROVE  Promise!PromiseNext
<1> DEFINE confirmed == IF pc = "done" THEN {c} ELSE {}
           refused == IF pc = "done" THEN {} ELSE {c}
<1>1. /\ calls'[c].pc = pc
      /\ \A d \in Calls \ {c} : calls'[d] = calls[d]
  BY MovedTyped DEF Ended
<1>2. c \in Promise!Open
  BY DEF Promise!Open, Promised, Standing
<1>3. Promised' = [d \in Calls |-> IF d \in confirmed THEN "confirmed"
                                   ELSE IF d \in refused THEN "refused" ELSE Promised[d]]
  BY <1>1 DEF Promised
<1>4. confirmed \subseteq Promise!Open \cap written /\ refused \subseteq Promise!Open \ confirmed
  BY <1>2
<1>5. confirmed \in SUBSET Calls /\ refused \in SUBSET Calls
  OBVIOUS
<1>6. Promise!Settle(confirmed, refused)
  BY <1>3, <1>4 DEF Promise!Settle
<1>7. QED
  BY <1>5, <1>6 DEF Promise!PromiseNext

\* A Worker's step is a step of the promise, or changes nothing the promise is about.
LEMMA WorkerPromise ==
  ASSUME HostInv, WorkerStep \/ WorkerDies
  PROVE  Promise!PromiseNext \/ UNCHANGED <<Promised, written>>
<1> USE DEF pipeVars, historyVars, bounds
<1>1. calls' = calls
  BY WorkerTyped DEF HostInv
<1>2. Promised' = Promised
  BY <1>1 DEF Promised
<1>3. CASE \E c \in Calls : Handle(c)
  <2>1. PICK c \in Calls : Handle(c)
    BY <1>3
  <2>2. CASE written' = written
    BY <1>2, <2>2
  <2>3. CASE written' = written \cup {c} /\ c \notin written
    <3>1. calls[c].pc = "asked"
      BY <2>1 DEF Handle, HostInv, OneMessage
    <3>2. c \in Promise!Open
      BY <3>1 DEF Promise!Open, Promised
    <3>3. Promise!Store(c)
      BY <1>2, <2>3, <3>2 DEF Promise!Store
    <3>4. QED
      BY <3>3 DEF Promise!PromiseNext
  <2>4. QED
    BY <2>1, <2>2, <2>3 DEF Handle
<1>4. CASE ~ \E c \in Calls : Handle(c)
  <2>1. written' = written
    BY <1>4
    DEF WorkerStep, Ready, TakeRequest, Rest, TakeStop, LoopTurn, Advertise, LoopTop,
        ClosePipe, ProcessEnds, Terminated, WorkerDies
  <2>2. QED
    BY <1>2, <2>1
<1>5. QED
  BY <1>3, <1>4

\* A step of the Host is one too.
LEMMA HostPromise ==
  ASSUME HostInv, HostReacts \/ HostIsAsked
  PROVE  Promise!PromiseNext \/ UNCHANGED <<Promised, written>>
<1> USE DEF pipeVars, historyVars, bounds
<1>0. /\ calls \in [Calls -> CallRecords] /\ up \in Seq(Messages) /\ HostTypeOK
      /\ OneMessage /\ AnsweredIsWritten
  BY DEF HostInv, HostTypeOK
<1>1. ASSUME NEW c \in Calls, Call(c)
      PROVE  Promise!Ask(c)
  <2>1. calls'[c].pc = "enter" /\ calls[c].pc = "out" /\ \A d \in Calls \ {c} : calls'[d] = calls[d]
    BY <1>0, <1>1, MovedTyped DEF Call
  <2>2. Promised[c] = "none" /\ Promised' = [Promised EXCEPT ![c] = "open"]
    BY <2>1 DEF Promised
  <2>3. QED
    BY <1>1, <2>2 DEF Call, Promise!Ask
<1>2. ASSUME NEW c \in Calls,
             EnterEmpty(c) \/ EnterRunning(c) \/ EnterStopping(c) \/ TransitionOver(c)
      PROVE  UNCHANGED <<Promised, written>>
  <2>1. PICK pc \in {"starting", "sending", "waiting", "enter"} : Moved(c, pc)
    BY <1>2 DEF EnterEmpty, EnterRunning, Admit, EnterStopping, TransitionOver
  <2>2. calls[c].pc \in {"enter", "waiting"} /\ written' = written
    BY <1>2 DEF EnterEmpty, EnterRunning, EnterStopping, TransitionOver
  <2>3. calls'[c].pc = pc /\ \A d \in Calls \ {c} : calls'[d] = calls[d]
    BY <1>0, <2>1, MovedTyped DEF Unanswered
  <2>4. \A d \in Calls : Standing(calls'[d].pc) = Standing(calls[d].pc)
    BY <2>2, <2>3 DEF Standing
  <2>5. QED
    BY <2>2, <2>4, StandingKept
<1>3. ASSUME NEW c \in Calls, StartWorker(c)
      PROVE  UNCHANGED <<Promised, written>>
  <2>1. /\ calls[c].pc = "starting" /\ calls'[c].pc = "sending" /\ written' = written
        /\ \A d \in Calls \ {c} : calls'[d] = calls[d]
    BY <1>0, <1>3 DEF StartWorker
  <2>2. \A d \in Calls : Standing(calls'[d].pc) = Standing(calls[d].pc)
    BY <2>1 DEF Standing
  <2>3. QED
    BY <2>1, <2>2, StandingKept
<1>4. ASSUME NEW c \in Calls, Send(c)
      PROVE  Promise!PromiseNext \/ UNCHANGED <<Promised, written>>
  <2>1. written' = written /\ calls[c].pc = "sending" /\ (Moved(c, "asked") \/ Moved(c, "lost"))
    BY <1>4 DEF Send
  <2>2. CASE Moved(c, "asked")
    <3>1. calls'[c].pc = "asked" /\ \A d \in Calls \ {c} : calls'[d] = calls[d]
      BY <1>0, <2>2, MovedTyped DEF Unanswered
    <3>2. \A d \in Calls : Standing(calls'[d].pc) = Standing(calls[d].pc)
      BY <2>1, <3>1 DEF Standing
    <3>3. QED
      BY <2>1, <3>2, StandingKept
  <2>3. CASE Moved(c, "lost")
    BY <1>0, <2>1, <2>3, OneSettled DEF Standing
  <2>4. QED
    BY <2>1, <2>2, <2>3
<1>5. ASSUME NEW c \in Calls, Resume(c)
      PROVE  Promise!PromiseNext \/ UNCHANGED <<Promised, written>>
  <2>1. written' = written /\ calls[c].pc = "answered"
    BY <1>5 DEF Resume
  <2>2. CASE calls[c].first
    <3>1. calls'[c].pc = "sending" /\ \A d \in Calls \ {c} : calls'[d] = calls[d]
      BY <1>0, <1>5, <2>2 DEF Resume
    <3>2. \A d \in Calls : Standing(calls'[d].pc) = Standing(calls[d].pc)
      BY <2>1, <3>1 DEF Standing
    <3>3. QED
      BY <2>1, <3>2, StandingKept
  <2>3. CASE ~calls[c].first
    <3>1. Moved(c, "done") /\ c \in written
      BY <1>0, <1>5, <2>1, <2>3 DEF Resume, AnsweredIsWritten
    <3>2. QED
      BY <1>0, <2>1, <3>1, OneSettled DEF Standing
  <2>4. QED
    BY <2>2, <2>3
<1>6. ASSUME HostReads
      PROVE  UNCHANGED <<Promised, written>>
  <2>1. written' = written /\ Head(up) \in Messages
    BY <1>0, <1>6, PipesTyped DEF HostReads
  <2>2. CASE UNCHANGED calls
    BY <2>1, <2>2 DEF Promised
  <2>3. CASE /\ Head(up).kind = "response"
             /\ Moved(Head(up).value, "answered") /\ calls[Head(up).value].pc = "asked"
    <3>1. Head(up).value \in Calls
      BY <2>1, <2>3 DEF Messages
    <3>2. /\ calls'[Head(up).value].pc = "answered"
          /\ \A d \in Calls \ {Head(up).value} : calls'[d] = calls[d]
      BY <1>0, <2>3, <3>1, MovedTyped DEF Unanswered
    <3>3. \A d \in Calls : Standing(calls'[d].pc) = Standing(calls[d].pc)
      BY <2>3, <3>2 DEF Standing
    <3>4. QED
      BY <2>1, <3>3, StandingKept
  <2>4. QED
    BY <1>6, <2>2, <2>3 DEF HostReads, Answered
<1>7. ASSUME Exited
      PROVE  Promise!PromiseNext \/ UNCHANGED <<Promised, written>>
  <2>1. PICK verdict \in {"lost", "failed"} : calls' = [c \in Calls |->
          CASE calls[c].pc = "asked" -> [calls[c] EXCEPT !.pc = verdict]
            [] calls[c].pc = "sending" -> [calls[c] EXCEPT !.pc = "lost"]
            [] calls[c].pc = "answered" ->
                 [calls[c] EXCEPT !.pc = IF calls[c].first THEN "lost" ELSE "done"]
            [] OTHER -> calls[c]]
    BY <1>7 DEF Exited, FailPending, Verdicts
  <2> DEFINE confirmed == {c \in Calls : calls[c].pc = "answered" /\ ~calls[c].first}
             refused == {c \in Calls : \/ calls[c].pc \in {"asked", "sending"}
                                       \/ calls[c].pc = "answered" /\ calls[c].first}
  <2>2. /\ confirmed \in SUBSET Calls /\ refused \in SUBSET Calls
        /\ confirmed \subseteq Promise!Open \cap written
        /\ refused \subseteq Promise!Open \ confirmed
    BY <1>0 DEF Promise!Open, Promised, AnsweredIsWritten
  <2>3. \A c \in Calls : Promised'[c] = IF c \in confirmed THEN "confirmed"
                                        ELSE IF c \in refused THEN "refused" ELSE Promised[c]
    <3> TAKE c \in Calls
    <3>1. calls[c] \in CallRecords
      BY <1>0
    <3>2. \/ c \in confirmed /\ calls'[c].pc = "done"
          \/ c \in refused /\ calls'[c].pc \in {"lost", "failed"}
          \/ c \notin confirmed \cup refused /\ calls'[c] = calls[c]
      BY <2>1, <3>1 DEF CallRecords
    <3>3. c \in refused => c \notin confirmed
      OBVIOUS
    <3>4. QED
      BY <3>2, <3>3 DEF Promised
  <2>4. Promised' = [c \in Calls |-> IF c \in confirmed THEN "confirmed"
                                     ELSE IF c \in refused THEN "refused" ELSE Promised[c]]
    BY <2>3 DEF Promised
  <2>5. written' = written
    BY <1>7 DEF Exited
  <2>6. Promise!Settle(confirmed, refused)
    BY <2>2, <2>4, <2>5 DEF Promise!Settle
  <2>7. QED
    BY <2>2, <2>6 DEF Promise!PromiseNext
<1>8. ASSUME (\E c \in Calls : EnterSpins(c)) \/ EndOfPipe \/ Joined \/ ReclaimWrites \/ Switch \/ Reclaim
      PROVE  UNCHANGED <<Promised, written>>
  BY <1>8 DEF EnterSpins, EndOfPipe, Joined, ReclaimWrites, Switch, Reclaim, Promised
<1>9. QED
  BY <1>1, <1>2, <1>3, <1>4, <1>5, <1>6, <1>7, <1>8
  DEF HostReacts, HostIsAsked, Promise!PromiseNext

\* Through crashes, kills, restarts and the stop handshake, the callers of the Host see
\* steps of DeliveryPromise only: confirmed after it is written, once, and never written
\* after it was refused.
THEOREM HostKeepsPromise == HostSpec => KeepsPromise
<1>1. HostInit => Promise!PromiseInit
  BY DEF HostInit, Promise!PromiseInit, Promised
<1>2. HostInv /\ [HostNext]_hostVars => [Promise!PromiseNext]_<<Promised, written>>
  <2> SUFFICES ASSUME HostInv, [HostNext]_hostVars
               PROVE  [Promise!PromiseNext]_<<Promised, written>>
    OBVIOUS
  <2>1. CASE HostNext
    BY <2>1, WorkerPromise, HostPromise DEF HostNext
  <2>2. CASE UNCHANGED hostVars
    BY <2>2 DEF hostVars, Promised
  <2>3. QED
    BY <2>1, <2>2
<1>3. QED
  BY <1>1, <1>2, HostInvHolds, PTL DEF HostSpec, KeepsPromise, Promise!PromiseSpec

-------------------------------------------------------------------------------
\* The stop handshake

\* A pipe s has a message of this kind.
Carries(s, kind) == \E i \in 1..Len(s) : s[i].kind = kind

\* A stop is on its way to the Worker, or the Worker has agreed to one.
Leaving == proc.stop \/ (proc.open /\ Carries(down, "stop"))

\* Only a Worker that has agreed to stop closes and says so.
StopIsAgreed ==
  /\ proc.pc = "recovering" => ~proc.stop
  /\ proc.pc = "closing" => proc.stop
  /\ Carries(up, "stopping") => proc.stop

\* Unless signals have crossed, the Host admits nothing to a Worker that is to stop, and
\* whoever waits for the end of its transition can still be woken.
HostAwaitsStop ==
  /\ ~host.entry => Requests = {}
  /\ ~crossed /\ host.entry =>
       /\ Leaving => host.stopping /\ Requests = {}
       /\ host.stopping /\ host.watch # "closing" => ~host.transition

\* A Worker that did not die and was not killed has ended because it agreed to stop.
OnlyStopsEnd ==
  /\ faults \in Nat /\ reclaims \in Nat
  /\ reclaims = 0 => proc.end # "reclaimed"
  /\ faults = 0 /\ reclaims = 0 /\ host.entry /\ ~proc.open => proc.stop

SlipInv == StopIsAgreed /\ HostAwaitsStop /\ OnlyStopsEnd /\ OnlyKnownSlips

\* What kinds of messages a pipe has after one is added or taken.
LEMMA PipeKinds ==
  ASSUME NEW s \in Seq(Messages)
  PROVE  /\ \A m \in Messages : \A kind :
              Carries(Append(s, m), kind) <=> Carries(s, kind) \/ m.kind = kind
         /\ s # << >> => Carries(s, Head(s).kind)
         /\ s # << >> => \A kind : Carries(Tail(s), kind) => Carries(s, kind)
<1>1. ASSUME NEW m \in Messages, NEW kind
      PROVE  Carries(Append(s, m), kind) <=> Carries(s, kind) \/ m.kind = kind
  <2>1. /\ Len(Append(s, m)) = Len(s) + 1 /\ Len(s) \in Nat
        /\ \A i \in 1..Len(s) : Append(s, m)[i] = s[i]
        /\ Append(s, m)[Len(s) + 1] = m
    OBVIOUS
  <2>2. \A i \in 1..Len(Append(s, m)) : i \in 1..Len(s) \/ i = Len(s) + 1
    BY <2>1
  <2>3. Len(s) + 1 \in 1..Len(Append(s, m)) /\ \A i \in 1..Len(s) : i \in 1..Len(Append(s, m))
    BY <2>1
  <2> DEFINE t == Append(s, m)
  <2> HIDE DEF t
  <2>4. Carries(t, kind) <=> Carries(s, kind) \/ m.kind = kind
    BY <2>1, <2>2, <2>3 DEF Carries, t
  <2>5. QED
    BY <2>4 DEF t
<1>2. ASSUME s # << >>
      PROVE  Carries(s, Head(s).kind) /\ \A kind : Carries(Tail(s), kind) => Carries(s, kind)
  <2>1. /\ Len(Tail(s)) = Len(s) - 1 /\ Len(s) \in Nat \ {0}
        /\ \A i \in 1..Len(Tail(s)) : Tail(s)[i] = s[i + 1]
        /\ Head(s) = s[1]
    BY <1>2
  <2>2. 1 \in 1..Len(s) /\ \A i \in 1..Len(Tail(s)) : i + 1 \in 1..Len(s)
    BY <2>1
  <2> DEFINE t == Tail(s)
  <2> HIDE DEF t
  <2>3. \A kind : Carries(t, kind) => Carries(s, kind)
    BY <2>1, <2>2 DEF Carries, t
  <2>4. Carries(s, Head(s).kind)
    BY <2>1, <2>2 DEF Carries
  <2>5. QED
    BY <2>3, <2>4 DEF t
<1>3. QED
  BY <1>1, <1>2

\* An empty pipe has none.
LEMMA NoKinds == \A kind : ~Carries(<< >>, kind)
BY DEF Carries

\* A request that waits is a request to a Worker that the Host has not forgotten, and not to
\* one that is to stop unless signals have crossed.
LEMMA WaitersAreServed ==
  ASSUME HostAwaitsStop, NEW c \in Calls, calls[c].pc \in Unanswered
  PROVE  host.entry /\ (crossed \/ ~Leaving)
BY DEF HostAwaitsStop, Requests

\* Nobody loses an answer to a Worker that closed of its own accord.
LEMMA LossNeedsFault ==
  ASSUME HostAwaitsStop, OnlyStopsEnd, NEW c \in Calls, calls[c].pc \in Unanswered, ~proc.open
  PROVE  crossed \/ faults > 0 \/ reclaims > 0
BY WaitersAreServed DEF OnlyStopsEnd, Leaving

\* What a Worker's step does to what the handshake is about.
LEMMA WorkerSlips ==
  ASSUME HostInv, SlipInv, WorkerStep \/ WorkerDies
  PROVE  /\ StopIsAgreed' /\ StopsWithNothingToDo'
         /\ Leaving' => Leaving
         /\ UNCHANGED <<host, calls, crossed, frozen, reclaims>>
         /\ OnlyStopsEnd'
         /\ faults' >= faults
<1> USE DEF pipeVars, historyVars, bounds
<1>0. /\ proc \in Processes /\ up \in Seq(Messages) /\ down \in Seq(Messages)
      /\ faults \in Nat /\ reclaims \in Nat /\ proc.revision \in Nat
      /\ Lifetimes /\ OneMessage /\ HostTypeOK
      /\ StopIsAgreed /\ StopsWithNothingToDo /\ HostAwaitsStop /\ OnlyStopsEnd
  BY DEF HostInv, HostTypeOK, SlipInv, OnlyStopsEnd, OnlyKnownSlips, Processes
<1>1. UNCHANGED <<host, calls>>
  BY <1>0, WorkerTyped
<1>2. ASSUME Ready \/ Rest
      PROVE  /\ StopIsAgreed' /\ StopsWithNothingToDo'
             /\ Leaving' => Leaving
             /\ UNCHANGED <<crossed, frozen, reclaims, faults>>
             /\ OnlyStopsEnd'
  <2>1. UNCHANGED <<up, down, crossed, frozen, reclaims, faults>>
    BY <1>2 DEF Ready, Rest
  <2>2. /\ proc'.stop = proc.stop /\ proc'.open = proc.open /\ proc'.handling = proc.handling
        /\ proc'.end = proc.end /\ proc'.pc \notin {"recovering", "closing"}
        /\ proc'.busy => ~proc.stop
    <3>1. CASE Ready
      BY <1>0, <3>1 DEF Ready, Processes, StopIsAgreed
    <3>2. CASE Rest
      BY <1>0, <3>2 DEF Rest, Processes
    <3>3. QED
      BY <1>2, <3>1, <3>2
  <2>3. QED
    BY <1>0, <1>1, <2>1, <2>2
    DEF StopIsAgreed, StopsWithNothingToDo, Leaving, OnlyStopsEnd
<1>3. ASSUME ClosePipe \/ ProcessEnds \/ Terminated \/ WorkerDies
      PROVE  /\ StopIsAgreed' /\ StopsWithNothingToDo'
             /\ Leaving' => Leaving
             /\ UNCHANGED <<crossed, frozen, reclaims>>
             /\ OnlyStopsEnd'
             /\ faults' >= faults
  <2>1. UNCHANGED <<up, down, crossed, frozen, reclaims>> /\ (faults' = faults \/ faults' = faults + 1)
    BY <1>3 DEF ClosePipe, ProcessEnds, Terminated, WorkerDies
  <2>2. /\ proc'.stop = proc.stop /\ ~proc'.open /\ proc'.handling = {}
        /\ proc'.busy = proc.busy /\ proc'.pc \notin {"recovering", "closing"}
    <3>1. CASE ClosePipe
      BY <1>0, <3>1 DEF ClosePipe, Processes
    <3>2. CASE ProcessEnds
      BY <1>0, <3>2 DEF ProcessEnds, Processes, Lifetimes
    <3>3. CASE Terminated \/ WorkerDies
      BY <1>0, <3>3 DEF Terminated, WorkerDies, Killed, Processes
    <3>4. QED
      BY <1>3, <3>1, <3>2, <3>3
  <2>3. OnlyStopsEnd'
    <3>1. CASE ClosePipe
      <4>1. proc.stop /\ faults' = faults /\ proc'.end = proc.end
        BY <1>0, <3>1 DEF ClosePipe, StopIsAgreed, Processes
      <4>2. QED
        BY <1>0, <1>1, <2>1, <2>2, <4>1 DEF OnlyStopsEnd
    <3>2. CASE ProcessEnds
      <4>1. ~proc.open /\ faults' = faults /\ proc'.end = proc.end
        BY <1>0, <3>2 DEF ProcessEnds, Lifetimes, Processes
      <4>2. QED
        BY <1>0, <1>1, <2>1, <2>2, <4>1 DEF OnlyStopsEnd
    <3>3. CASE Terminated
      BY <1>0, <2>1, <3>3 DEF Terminated, OnlyStopsEnd
    <3>4. CASE WorkerDies
      <4>1. faults' = faults + 1 /\ proc'.end = "died"
        BY <1>0, <3>4 DEF WorkerDies, Killed, Processes
      <4>2. QED
        BY <1>0, <2>1, <4>1 DEF OnlyStopsEnd
    <3>5. QED
      BY <1>3, <3>1, <3>2, <3>3, <3>4
  <2>4. QED
    BY <1>0, <2>1, <2>2, <2>3 DEF StopIsAgreed, StopsWithNothingToDo, Leaving
<1>4. ASSUME LoopTurn \/ Advertise \/ LoopTop
      PROVE  /\ StopIsAgreed' /\ StopsWithNothingToDo'
             /\ Leaving' => Leaving
             /\ UNCHANGED <<crossed, frozen, reclaims, faults>>
             /\ OnlyStopsEnd'
  <2>1. UNCHANGED <<down, crossed, frozen, reclaims, faults>>
    BY <1>4 DEF LoopTurn, Advertise, LoopTop
  <2>2. /\ proc'.stop = proc.stop /\ proc'.open = proc.open /\ proc'.handling = proc.handling
        /\ proc'.busy = proc.busy /\ proc'.end = proc.end
        /\ proc'.pc # "recovering" /\ (proc'.pc = "closing" => proc.stop)
    <3>1. CASE LoopTurn
      BY <1>0, <3>1 DEF LoopTurn, Processes
    <3>2. CASE Advertise
      BY <1>0, <3>2 DEF Advertise, Processes
    <3>3. CASE LoopTop
      BY <1>0, <3>3 DEF LoopTop, Processes
    <3>4. QED
      BY <1>4, <3>1, <3>2, <3>3
  <2>3. Carries(up', "stopping") => proc.stop
    <3>1. \/ up' = up
          \/ \E m \in Messages : up' = Append(up, m) /\ (m.kind = "stopping" => proc.stop)
      <4>1. \/ up' = up \/ up' = Append(up, Message("busy", NoRevision))
            \/ up' = Append(up, Message("idle", proc.revision))
            \/ up' = Append(up, Message("stopping", NoRevision)) /\ proc.stop
        BY <1>4 DEF LoopTurn, Advertise, LoopTop, Told
      <4>2. /\ Message("busy", NoRevision) \in Messages /\ Message("idle", proc.revision) \in Messages
            /\ Message("stopping", NoRevision) \in Messages
        BY <1>0, MessageTyped
      <4>3. Message("busy", NoRevision).kind = "busy" /\ Message("idle", proc.revision).kind = "idle"
        BY DEF Message
      <4>4. QED
        BY <4>1, <4>2, <4>3
    <3>2. QED
      BY <1>0, <3>1, PipeKinds DEF StopIsAgreed
  <2>4. QED
    BY <1>0, <1>1, <2>1, <2>2, <2>3 DEF StopIsAgreed, StopsWithNothingToDo, Leaving, OnlyStopsEnd
<1>5. ASSUME TakeStop
      PROVE  /\ StopIsAgreed' /\ StopsWithNothingToDo'
             /\ Leaving' => Leaving
             /\ UNCHANGED <<crossed, frozen, reclaims, faults>>
             /\ OnlyStopsEnd'
  <2>1. UNCHANGED <<crossed, frozen, reclaims, faults>>
    BY <1>5 DEF TakeStop
  <2>2. proc.open /\ Carries(down, "stop")
    BY <1>0, <1>5, PipeKinds DEF TakeStop, Reading, Lifetimes
  <2>3. /\ proc'.pc = proc.pc /\ proc'.open = proc.open /\ proc'.handling = proc.handling
        /\ proc'.busy = proc.busy /\ proc'.end = proc.end
        /\ proc.pc \notin {"recovering", "closing"}
        /\ proc.stop => proc'.stop
        /\ proc'.stop => proc.stop \/ (proc.handling = {} /\ ~proc.busy)
    BY <1>0, <1>5 DEF TakeStop, Reading, AgreesToStop, Processes
  <2>4. Carries(up', "stopping") => Carries(up, "stopping")
    <3>1. up' = up \/ up' = Append(up, Message("busy", NoRevision))
      BY <1>5 DEF TakeStop, Told
    <3>2. Message("busy", NoRevision) \in Messages /\ Message("busy", NoRevision).kind = "busy"
      BY MessageTyped DEF Message
    <3>3. Carries(Append(up, Message("busy", NoRevision)), "stopping") => Carries(up, "stopping")
      BY <1>0, <3>2, PipeKinds
    <3>4. QED
      BY <3>1, <3>3
  <2>5. QED
    BY <1>0, <1>1, <2>1, <2>2, <2>3, <2>4
    DEF StopIsAgreed, StopsWithNothingToDo, Leaving, OnlyStopsEnd
<1>6. ASSUME TakeRequest
      PROVE  /\ StopIsAgreed' /\ StopsWithNothingToDo'
             /\ Leaving' => Leaving
             /\ UNCHANGED <<crossed, frozen, reclaims, faults>>
             /\ OnlyStopsEnd'
  <2>1. UNCHANGED <<up, crossed, frozen, reclaims, faults>> /\ down' = Tail(down)
    BY <1>6 DEF TakeRequest
  <2>2. proc.open /\ down # << >> /\ Head(down) \in Messages /\ Head(down).kind = "request"
    BY <1>0, <1>6, PipesTyped DEF TakeRequest, Reading, Lifetimes
  <2>3. /\ proc'.pc = proc.pc /\ proc'.open = proc.open /\ proc'.stop = proc.stop
        /\ proc'.end = proc.end
    BY <1>0, <1>6 DEF TakeRequest, Processes
  <2>4. crossed \/ ~proc.stop
    <3>1. Head(down).value \in Calls
      BY <2>2 DEF Messages
    <3>2. calls[Head(down).value].pc = "asked"
      BY <1>0, <2>2, <3>1, ReadPipe DEF OneMessage
    <3>3. QED
      BY <1>0, <3>1, <3>2, WaitersAreServed DEF Unanswered, Leaving
  <2>5. Carries(down', "stop") => Carries(down, "stop")
    BY <1>0, <2>1, <2>2, PipeKinds
  <2>6. QED
    BY <1>0, <1>1, <2>1, <2>3, <2>4, <2>5
    DEF StopIsAgreed, StopsWithNothingToDo, Leaving, OnlyStopsEnd
<1>7. ASSUME NEW c \in Calls, Handle(c)
      PROVE  /\ StopIsAgreed' /\ StopsWithNothingToDo'
             /\ Leaving' => Leaving
             /\ UNCHANGED <<crossed, frozen, reclaims, faults>>
             /\ OnlyStopsEnd'
  <2>1. UNCHANGED <<down, crossed, frozen, reclaims, faults>> /\ c \in proc.handling
    BY <1>7 DEF Handle
  <2>2. /\ proc'.pc = proc.pc /\ proc'.open = proc.open /\ proc'.stop = proc.stop
        /\ proc'.end = proc.end
    BY <1>0, <1>7 DEF Handle, Processes
  <2>3. crossed \/ ~proc.stop
    BY <1>0, <2>1 DEF StopsWithNothingToDo
  <2>4. Carries(up', "stopping") => Carries(up, "stopping")
    <3>1. up' = Append(up, Message("response", c))
      BY <1>7 DEF Handle, Told
    <3>2. Message("response", c) \in Messages /\ Message("response", c).kind = "response"
      BY MessageTyped DEF Message
    <3>3. QED
      BY <1>0, <3>1, <3>2, PipeKinds
  <2>5. QED
    BY <1>0, <1>1, <2>1, <2>2, <2>3, <2>4
    DEF StopIsAgreed, StopsWithNothingToDo, Leaving, OnlyStopsEnd
<1>8. QED
  BY <1>0, <1>1, <1>2, <1>3, <1>4, <1>5, <1>6, <1>7 DEF WorkerStep

\* A Worker's step keeps the handshake in order.
LEMMA WorkerKeepsSlipInv ==
  ASSUME HostInv, SlipInv, WorkerStep \/ WorkerDies
  PROVE  SlipInv'
<1>1. /\ StopIsAgreed' /\ StopsWithNothingToDo' /\ OnlyStopsEnd'
      /\ Leaving' => Leaving
      /\ UNCHANGED <<host, calls, crossed, frozen, reclaims>>
      /\ faults' >= faults
  BY WorkerSlips
<1>2. HostAwaitsStop'
  BY <1>1 DEF SlipInv, HostAwaitsStop, Requests
<1>3. OnlyKnownFreezes'
  BY <1>1 DEF SlipInv, OnlyKnownSlips, OnlyKnownFreezes
<1>4. OnlyKnownLosses'
  BY <1>1 DEF SlipInv, OnlyKnownSlips, OnlyKnownLosses, OnlyStopsEnd
<1>5. QED
  BY <1>1, <1>2, <1>3, <1>4 DEF SlipInv, OnlyKnownSlips

\* To ask the Worker to stop keeps the handshake in order.
LEMMA StopIdleSlips ==
  ASSUME HostTypeOK, HostAwaitsStop, host.entry,
         NEW h \in WorkerRecords, h = [host EXCEPT !.idle = h.idle],
         NEW sel, StopIdle(h, Requests', sel),
         Requests' \subseteq Requests, UNCHANGED proc, crossed => crossed'
  PROVE  HostAwaitsStop'
<1>1. /\ h.entry /\ h.stopping = host.stopping /\ h.transition = host.transition
      /\ h.watch = host.watch
  BY DEF HostTypeOK, WorkerRecords
<1>2. CASE Stoppable(h, Requests', sel)
  <2>1. host' = [h EXCEPT !.stopping = TRUE, !.transition = FALSE]
    BY <1>2 DEF StopIdle
  <2>2. host'.entry /\ host'.stopping /\ ~host'.transition
    BY <1>1, <2>1 DEF WorkerRecords
  <2>3. Requests' = {}
    BY <1>2 DEF Stoppable
  <2>4. QED
    BY <2>2, <2>3 DEF HostAwaitsStop
<1>3. CASE ~Stoppable(h, Requests', sel)
  <2>1. host' = h /\ down' = down
    BY <1>3 DEF StopIdle
  <2>2. Leaving' = Leaving
    BY <2>1 DEF Leaving
  <2>3. QED
    BY <1>1, <2>1, <2>2 DEF HostAwaitsStop
<1>4. QED
  BY <1>2, <1>3

\* A request that moves on without having been admitted, or with it
LEMMA RequestsMoved ==
  ASSUME HostTypeOK, NEW c \in Calls, NEW pc, Moved(c, pc),
         pc \in {"out", "enter", "starting", "waiting"} \cup Unanswered \cup Ended
  PROVE  /\ Requests' = IF pc \in Unanswered THEN Requests \cup {c} ELSE Requests \ {c}
         /\ \A d \in Calls : calls'[d].pc = "lost" => calls[d].pc = "lost" \/ (d = c /\ pc = "lost")
BY MovedTyped DEF Requests

\* The Host's steps on behalf of a caller keep the handshake in order.
LEMMA CallerKeepsSlipInv ==
  ASSUME HostInv, SlipInv, ~frozen, NEW c \in Calls,
         \/ Call(c) \/ EnterEmpty(c) \/ StartWorker(c) \/ EnterRunning(c) \/ EnterStopping(c)
         \/ EnterSpins(c) \/ TransitionOver(c) \/ Send(c) \/ Resume(c)
  PROVE  SlipInv'
<1> USE DEF pipeVars, historyVars, bounds
<1>0. /\ proc \in Processes /\ up \in Seq(Messages) /\ down \in Seq(Messages)
      /\ host \in WorkerRecords /\ calls \in [Calls -> CallRecords]
      /\ faults \in Nat /\ reclaims \in Nat
      /\ Lifetimes /\ OneMessage /\ HostTypeOK
      /\ StopIsAgreed /\ StopsWithNothingToDo /\ HostAwaitsStop /\ OnlyStopsEnd
      /\ OnlyKnownLosses
  BY DEF HostInv, HostTypeOK, SlipInv, OnlyStopsEnd, OnlyKnownSlips
<1>1. ASSUME NEW pc \in {"enter", "starting", "waiting"}, Moved(c, pc),
             calls[c].pc \in {"out", "enter", "waiting"},
             UNCHANGED <<host, pipeVars, proc, frozen, crossed, bounds>>
      PROVE  SlipInv'
  <2>1. Requests' = Requests /\ OnlyKnownLosses'
    BY <1>0, <1>1, RequestsMoved DEF Unanswered, Requests, OnlyKnownLosses
  <2>2. QED
    BY <1>0, <1>1, <2>1
    DEF SlipInv, StopIsAgreed, HostAwaitsStop, OnlyStopsEnd, Leaving, OnlyKnownSlips,
        StopsWithNothingToDo, OnlyKnownFreezes
<1>2. CASE Call(c) \/ EnterEmpty(c) \/ EnterStopping(c) \/ TransitionOver(c)
  BY <1>1, <1>2 DEF Call, EnterEmpty, EnterStopping, TransitionOver
<1>3. CASE StartWorker(c)
  <2>1. /\ host' = NewWorker /\ proc' = NewProcess /\ down' = << >> /\ up' = << >>
        /\ UNCHANGED <<frozen, crossed, faults, reclaims>>
    BY <1>3 DEF StartWorker
  <2>2. /\ ~proc'.stop /\ proc'.open /\ proc'.pc = "recovering" /\ proc'.end = "clean"
        /\ host'.entry /\ ~host'.stopping
    BY <2>1 DEF NewProcess, NewWorker
  <2>3. ~Leaving' /\ ~Carries(up', "stopping")
    BY <2>1, <2>2, NoKinds DEF Leaving
  <2>4. \A d \in Calls : calls'[d].pc = "lost" => calls[d].pc = "lost"
    BY <1>0, <1>3 DEF StartWorker
  <2>5. QED
    BY <1>0, <2>1, <2>2, <2>3, <2>4
    DEF SlipInv, StopIsAgreed, HostAwaitsStop, OnlyStopsEnd, OnlyKnownSlips,
        StopsWithNothingToDo, OnlyKnownFreezes, OnlyKnownLosses
<1>4. CASE EnterRunning(c)
  <2>1. /\ host' = [host EXCEPT !.idle = NoRevision] /\ Moved(c, "sending")
        /\ UNCHANGED <<pipeVars, proc, frozen, crossed, faults, reclaims>>
        /\ host.entry /\ ~host.stopping
    BY <1>4 DEF EnterRunning, Admit
  <2>2. host'.entry /\ ~host'.stopping
    BY <1>0, <2>1 DEF WorkerRecords
  <2>3. (crossed \/ ~Leaving) /\ Leaving' = Leaving
    BY <1>0, <2>1 DEF HostAwaitsStop, Leaving
  <2>4. OnlyKnownLosses'
    BY <1>0, <2>1, RequestsMoved DEF Unanswered, OnlyKnownLosses
  <2>5. QED
    BY <1>0, <2>1, <2>2, <2>3, <2>4
    DEF SlipInv, StopIsAgreed, HostAwaitsStop, OnlyStopsEnd, OnlyKnownSlips,
        StopsWithNothingToDo, OnlyKnownFreezes
<1>5. CASE EnterSpins(c)
  <2>1. UNCHANGED <<host, calls, pipeVars, proc, crossed, faults, reclaims>>
    BY <1>5 DEF EnterSpins
  <2>2. crossed \/ host.watch = "closing"
    BY <1>0, <1>5 DEF EnterSpins, HostAwaitsStop
  <2>3. QED
    BY <1>0, <2>1, <2>2
    DEF SlipInv, StopIsAgreed, HostAwaitsStop, OnlyStopsEnd, Leaving, OnlyKnownSlips,
        StopsWithNothingToDo, OnlyKnownLosses, OnlyKnownFreezes, Requests
<1>6. CASE Send(c)
  <2>1. /\ UNCHANGED <<host, up, proc, frozen, crossed, faults, reclaims>>
        /\ calls[c].pc = "sending"
    BY <1>6 DEF Send
  <2>2. host.entry /\ (crossed \/ ~Leaving) /\ c \in Requests
    BY <1>0, <2>1, WaitersAreServed DEF Unanswered, Requests
  <2>3. CASE proc.open /\ down' = Append(down, Message("request", c)) /\ Moved(c, "asked")
    <3>1. Message("request", c) \in Messages /\ Message("request", c).kind = "request"
      BY MessageTyped DEF Message
    <3>2. Carries(Append(down, Message("request", c)), "stop") => Carries(down, "stop")
      BY <1>0, <3>1, PipeKinds
    <3>3. Leaving' => Leaving
      BY <2>1, <2>3, <3>2 DEF Leaving
    <3>4. OnlyKnownLosses'
      BY <1>0, <2>1, <2>3, RequestsMoved DEF Unanswered, OnlyKnownLosses
    <3>5. QED
      BY <1>0, <2>1, <2>2, <3>3, <3>4
      DEF SlipInv, StopIsAgreed, HostAwaitsStop, OnlyStopsEnd, OnlyKnownSlips,
          StopsWithNothingToDo, OnlyKnownFreezes
  <2>4. CASE ~proc.open /\ Moved(c, "lost") /\ UNCHANGED down
    <3>1. crossed \/ faults > 0 \/ reclaims > 0
      BY <1>0, <2>1, <2>4, LossNeedsFault DEF Unanswered
    <3>2. OnlyKnownLosses' /\ Leaving' = Leaving
      BY <2>1, <2>4, <3>1 DEF OnlyKnownLosses, Leaving
    <3>3. QED
      BY <1>0, <2>1, <2>2, <3>2
      DEF SlipInv, StopIsAgreed, HostAwaitsStop, OnlyStopsEnd, OnlyKnownSlips,
          StopsWithNothingToDo, OnlyKnownFreezes
  <2>5. QED
    BY <1>6, <2>3, <2>4 DEF Send
<1>7. CASE Resume(c)
  <2>1. /\ UNCHANGED <<up, proc, frozen, crossed, faults, reclaims>>
        /\ calls[c].pc = "answered"
    BY <1>7 DEF Resume
  <2>2. host.entry /\ (crossed \/ ~Leaving) /\ c \in Requests
    BY <1>0, <2>1, WaitersAreServed DEF Unanswered, Requests
  <2>3. CASE calls[c].first
    <3>1. calls' = [calls EXCEPT ![c] = [pc |-> "sending", first |-> FALSE]] /\ UNCHANGED <<host, down>>
      BY <1>7, <2>3 DEF Resume
    <3>2. OnlyKnownLosses' /\ Leaving' = Leaving
      BY <1>0, <2>1, <3>1 DEF OnlyKnownLosses, Leaving
    <3>3. QED
      BY <1>0, <2>1, <2>2, <3>1, <3>2
      DEF SlipInv, StopIsAgreed, HostAwaitsStop, OnlyStopsEnd, OnlyKnownSlips,
          StopsWithNothingToDo, OnlyKnownFreezes
  <2>4. CASE ~calls[c].first
    <3>1. Moved(c, "done") /\ StopIdle(host, Requests \ {c}, selected)
      BY <1>7, <2>4 DEF Resume
    <3>2. Requests' = Requests \ {c} /\ OnlyKnownLosses'
      BY <1>0, <2>1, <3>1, RequestsMoved DEF Unanswered, Ended, OnlyKnownLosses
    <3>3. host = [host EXCEPT !.idle = host.idle]
      BY <1>0 DEF WorkerRecords
    <3>4. StopIdle(host, Requests', selected)
      BY <3>1, <3>2
    <3>5. HostAwaitsStop' /\ host'.entry
      BY <1>0, <2>1, <2>2, <3>2, <3>3, <3>4, StopIdleSlips, StopIdleTyped DEF HostTypeOK
    <3>6. QED
      BY <1>0, <2>1, <2>2, <3>2, <3>5
      DEF SlipInv, StopIsAgreed, OnlyStopsEnd, OnlyKnownSlips, StopsWithNothingToDo,
          OnlyKnownFreezes
  <2>5. QED
    BY <2>3, <2>4
<1>8. QED
  BY <1>2, <1>3, <1>4, <1>5, <1>6, <1>7

\* What the Host reads keeps the handshake in order.
LEMMA ReadKeepsSlipInv ==
  ASSUME HostInv, SlipInv, ~frozen, HostReads
  PROVE  SlipInv'
<1> USE DEF pipeVars, historyVars, bounds
<1>0. /\ proc \in Processes /\ up \in Seq(Messages) /\ down \in Seq(Messages)
      /\ host \in WorkerRecords /\ calls \in [Calls -> CallRecords]
      /\ faults \in Nat /\ reclaims \in Nat /\ HostTypeOK
      /\ StopIsAgreed /\ StopsWithNothingToDo /\ HostAwaitsStop /\ OnlyStopsEnd
      /\ OnlyKnownLosses
  BY DEF HostInv, HostTypeOK, SlipInv, OnlyStopsEnd, OnlyKnownSlips
<1>1. /\ UNCHANGED <<proc, frozen, faults, reclaims>>
      /\ host.watch = "reading" /\ host.entry
      /\ up # << >> /\ up' = Tail(up) /\ Head(up) \in Messages
      /\ crossed => crossed'
  <2>1. /\ UNCHANGED <<proc, frozen, faults, reclaims>> /\ host.watch = "reading"
        /\ up # << >> /\ up' = Tail(up)
    BY DEF HostReads
  <2>2. host.entry /\ Head(up) \in Messages
    BY <1>0, <2>1, PipesTyped DEF HostTypeOK
  <2>3. crossed => crossed'
    BY Zenon DEF HostReads
  <2>4. QED
    BY <2>1, <2>2, <2>3
<1>2. StopIsAgreed' /\ StopsWithNothingToDo' /\ OnlyKnownFreezes'
  <2>1. Carries(up', "stopping") => Carries(up, "stopping")
    BY <1>0, <1>1, PipeKinds
  <2>2. QED
    BY <1>0, <1>1, <2>1 DEF StopIsAgreed, StopsWithNothingToDo, OnlyKnownFreezes
<1>3. CASE Head(up).kind = "response" /\ Answered(Head(up).value) /\ UNCHANGED <<host, down>>
  <2>1. Head(up).value \in Calls
    BY <1>1, <1>3 DEF Messages
  <2>2. Requests' = Requests /\ OnlyKnownLosses'
    <3>1. CASE UNCHANGED calls
      BY <1>0, <1>1, <3>1 DEF Requests, OnlyKnownLosses
    <3>2. CASE Moved(Head(up).value, "answered") /\ calls[Head(up).value].pc = "asked"
      BY <1>0, <1>1, <2>1, <3>2, RequestsMoved DEF Unanswered, Requests, OnlyKnownLosses
    <3>3. QED
      BY <1>3, <3>1, <3>2 DEF Answered
  <2>3. QED
    BY <1>0, <1>1, <1>2, <1>3, <2>2
    DEF SlipInv, HostAwaitsStop, OnlyStopsEnd, Leaving, OnlyKnownSlips
<1>4. CASE Head(up).kind = "idle" /\ UNCHANGED calls
           /\ StopIdle([host EXCEPT !.idle = Head(up).value], Requests, selected)
  <2> DEFINE h == [host EXCEPT !.idle = Head(up).value]
  <2>1. Head(up).value \in Nat \cup {NoRevision}
    BY <1>1, <1>4 DEF Messages
  <2>2. h \in WorkerRecords /\ h = [host EXCEPT !.idle = h.idle] /\ h.entry /\ h.watch = host.watch
    BY <1>0, <1>1, <2>1 DEF WorkerRecords
  <2> HIDE DEF h
  <2>3. Requests' = Requests /\ StopIdle(h, Requests', selected)
    BY <1>4 DEF Requests, h
  <2>4. HostAwaitsStop' /\ host'.entry
    BY <1>0, <1>1, <2>2, <2>3, StopIdleSlips, StopIdleTyped
  <2>5. OnlyKnownLosses' /\ OnlyStopsEnd'
    BY <1>0, <1>1, <1>4 DEF OnlyKnownLosses, OnlyStopsEnd
  <2>6. QED
    BY <1>2, <2>4, <2>5 DEF SlipInv, OnlyKnownSlips
<1>5. CASE Head(up).kind = "busy" /\ host' = Unstopped /\ UNCHANGED <<calls, down>>
  <2>1. host'.entry /\ ~host'.stopping
    BY <1>0, <1>1, <1>5 DEF Unstopped, WorkerRecords
  <2>2. crossed' \/ ~Leaving'
    <3>1. crossed' \/ ~StopPending
      BY <1>5 DEF HostReads
    <3>2. DOMAIN down = 1..Len(down)
      BY <1>0
    <3>3. Leaving' => StopPending
      BY <1>1, <1>5, <3>2 DEF Leaving, Carries, StopPending
    <3>4. QED
      BY <3>1, <3>3
  <2>3. QED
    BY <1>0, <1>1, <1>2, <1>5, <2>1, <2>2
    DEF SlipInv, HostAwaitsStop, OnlyStopsEnd, OnlyKnownLosses, OnlyKnownSlips
<1>6. CASE Head(up).kind = "stopping" /\ host' = [host EXCEPT !.stopping = TRUE]
           /\ UNCHANGED <<calls, down>>
  <2>1. /\ host'.entry /\ host'.stopping /\ host'.transition = host.transition
        /\ host'.watch = host.watch
    BY <1>0, <1>1, <1>6 DEF WorkerRecords
  <2>2. proc.stop
    BY <1>0, <1>1, <1>6, PipeKinds DEF StopIsAgreed
  <2>3. crossed \/ (host.stopping /\ Requests = {} /\ ~host.transition)
    BY <1>0, <1>1, <2>2 DEF HostAwaitsStop, Leaving
  <2>4. Requests' = Requests /\ OnlyKnownLosses'
    BY <1>0, <1>1, <1>6 DEF Requests, OnlyKnownLosses
  <2>5. QED
    BY <1>0, <1>1, <1>2, <2>1, <2>2, <2>3, <2>4
    DEF SlipInv, HostAwaitsStop, OnlyStopsEnd, OnlyKnownSlips
<1>7. QED
  BY <1>3, <1>4, <1>5, <1>6 DEF HostReads

\* The watcher's steps, selections and kills keep the handshake in order.
LEMMA WatchKeepsSlipInv ==
  ASSUME HostInv, SlipInv, ~frozen,
         EndOfPipe \/ Joined \/ Exited \/ ReclaimWrites \/ Switch \/ Reclaim
  PROVE  SlipInv'
<1> USE DEF pipeVars, historyVars, bounds
<1>0. /\ proc \in Processes /\ up \in Seq(Messages) /\ down \in Seq(Messages)
      /\ host \in WorkerRecords /\ calls \in [Calls -> CallRecords]
      /\ faults \in Nat /\ reclaims \in Nat /\ HostTypeOK /\ Lifetimes
      /\ StopIsAgreed /\ StopsWithNothingToDo /\ HostAwaitsStop /\ OnlyStopsEnd
      /\ OnlyKnownLosses
  BY DEF HostInv, HostTypeOK, SlipInv, OnlyStopsEnd, OnlyKnownSlips
<1>1. ASSUME EndOfPipe \/ Joined
      PROVE  SlipInv'
  <2>1. UNCHANGED <<calls, up, down, proc, frozen, crossed, faults, reclaims>>
    BY <1>1 DEF EndOfPipe, Joined
  <2>2. /\ host'.entry = host.entry /\ host'.transition = host.transition
        /\ host.stopping => host'.stopping
        /\ host'.watch # "closing" => host.watch # "closing" /\ host'.stopping = host.stopping
    BY <1>0, <1>1 DEF EndOfPipe, Joined, WorkerRecords
  <2>3. QED
    BY <1>0, <2>1, <2>2
    DEF SlipInv, StopIsAgreed, HostAwaitsStop, OnlyStopsEnd, Leaving, Requests, OnlyKnownSlips,
        StopsWithNothingToDo, OnlyKnownLosses, OnlyKnownFreezes
<1>2. ASSUME Exited
      PROVE  SlipInv'
  <2>1. UNCHANGED <<up, down, proc, frozen, crossed, faults, reclaims>> /\ host.watch = "closing"
    BY <1>2 DEF Exited
  <2>2. host' = NoWorker
    BY <1>2 DEF Exited
  <2>3. ~host'.entry
    BY <2>2 DEF NoWorker, NewWorker
  <2>4. ~proc.open
    BY <1>0, <2>1 DEF Lifetimes
  <2>5. \A c \in Calls :
          /\ calls'[c].pc \notin Unanswered
          /\ calls'[c].pc = "lost" => calls[c].pc = "lost" \/ calls[c].pc \in Unanswered
    <3>1. PICK verdict \in {"lost", "failed"} : calls' = [c \in Calls |->
            CASE calls[c].pc = "asked" -> [calls[c] EXCEPT !.pc = verdict]
              [] calls[c].pc = "sending" -> [calls[c] EXCEPT !.pc = "lost"]
              [] calls[c].pc = "answered" ->
                   [calls[c] EXCEPT !.pc = IF calls[c].first THEN "lost" ELSE "done"]
              [] OTHER -> calls[c]]
      BY <1>2 DEF Exited, FailPending, Verdicts
    <3>2. TAKE c \in Calls
    <3>3. calls[c] \in CallRecords
      BY <1>0
    <3>4. QED
      BY <3>1, <3>3 DEF CallRecords, Unanswered
  <2>6. Requests' = {}
    BY <2>5 DEF Requests
  <2>7. OnlyKnownLosses'
    BY <1>0, <2>1, <2>4, <2>5, LossNeedsFault DEF OnlyKnownLosses
  <2>8. QED
    BY <1>0, <2>1, <2>3, <2>6, <2>7
    DEF SlipInv, StopIsAgreed, HostAwaitsStop, OnlyStopsEnd, OnlyKnownSlips,
        StopsWithNothingToDo, OnlyKnownFreezes
<1>3. ASSUME ReclaimWrites
      PROVE  SlipInv'
  BY <1>0, <1>3
  DEF ReclaimWrites, SlipInv, StopIsAgreed, HostAwaitsStop, OnlyStopsEnd, Leaving, Requests,
      OnlyKnownSlips, StopsWithNothingToDo, OnlyKnownLosses, OnlyKnownFreezes
<1>4. ASSUME Reclaim
      PROVE  SlipInv'
  <2>1. UNCHANGED <<host, calls, up, down, frozen, crossed, faults>> /\ reclaims' = reclaims + 1
    BY <1>4 DEF Reclaim
  <2>2. /\ proc'.pc = proc.pc /\ proc'.open = proc.open /\ proc'.stop = proc.stop
        /\ proc'.handling = proc.handling /\ proc'.busy = proc.busy
    BY <1>0, <1>4 DEF Reclaim, Processes
  <2>3. OnlyStopsEnd' /\ OnlyKnownLosses'
    BY <1>0, <2>1 DEF OnlyStopsEnd, OnlyKnownLosses
  <2>4. QED
    BY <1>0, <2>1, <2>2, <2>3
    DEF SlipInv, StopIsAgreed, HostAwaitsStop, Leaving, Requests, OnlyKnownSlips,
        StopsWithNothingToDo, OnlyKnownFreezes
<1>5. ASSUME Switch
      PROVE  SlipInv'
  <2>1. UNCHANGED <<calls, up, proc, frozen, crossed, faults, reclaims>>
    BY <1>5 DEF Switch
  <2>2. CASE host.entry
    <3>1. Requests' = Requests
      BY <2>1 DEF Requests
    <3>2. host = [host EXCEPT !.idle = host.idle]
      BY <1>0 DEF WorkerRecords
    <3>3. StopIdle(host, Requests', ~selected)
      BY <1>5, <2>2, <3>1 DEF Switch
    <3>4. HostAwaitsStop' /\ host'.entry
      BY <1>0, <2>1, <2>2, <3>1, <3>2, <3>3, StopIdleSlips, StopIdleTyped DEF HostTypeOK
    <3>5. QED
      BY <1>0, <2>1, <2>2, <3>4
      DEF SlipInv, StopIsAgreed, OnlyStopsEnd, OnlyKnownSlips, StopsWithNothingToDo,
          OnlyKnownFreezes, OnlyKnownLosses
  <2>3. CASE ~host.entry
    <3>1. UNCHANGED <<host, down>>
      BY <1>5, <2>3 DEF Switch
    <3>2. QED
      BY <1>0, <2>1, <3>1
      DEF SlipInv, StopIsAgreed, HostAwaitsStop, OnlyStopsEnd, Leaving, Requests,
          OnlyKnownSlips, StopsWithNothingToDo, OnlyKnownLosses, OnlyKnownFreezes
  <2>4. QED
    BY <2>2, <2>3
<1>6. QED
  BY <1>1, <1>2, <1>3, <1>4, <1>5

\* However requests, selections, deaths, kills and the two pipes interleave: unless a busy has
\* ended the Host's transition while a later stop was under way, a Worker stops with nothing in
\* hand, nobody is left without an answer by a Worker that was neither killed nor died, and
\* the Host's event loop spins while a watcher cleans up at most.
THEOREM SlipsAreKnown == HostSpec => []OnlyKnownSlips
<1>1. HostInit => SlipInv
  <2> SUFFICES ASSUME HostInit PROVE SlipInv
    OBVIOUS
  <2>1. /\ ~proc.stop /\ proc.pc = "dead" /\ proc.end = "clean" /\ ~proc.open
        /\ ~host.entry /\ up = << >> /\ ~crossed /\ ~frozen /\ faults = 0 /\ reclaims = 0
    BY DEF HostInit, Dead, NewProcess, NoWorker, NewWorker
  <2>2. \A c \in Calls : calls[c].pc = "out"
    BY DEF HostInit
  <2>3. QED
    BY <2>1, <2>2, NoKinds
    DEF SlipInv, StopIsAgreed, HostAwaitsStop, OnlyStopsEnd, Requests, Unanswered,
        OnlyKnownSlips, StopsWithNothingToDo, OnlyKnownLosses, OnlyKnownFreezes
<1>2. HostInv /\ SlipInv /\ [HostNext]_hostVars => SlipInv'
  <2> SUFFICES ASSUME HostInv, SlipInv, [HostNext]_hostVars PROVE SlipInv'
    OBVIOUS
  <2>1. CASE WorkerStep \/ WorkerDies
    BY <2>1, WorkerKeepsSlipInv
  <2>2. CASE HostReacts \/ HostIsAsked
    BY <2>2, CallerKeepsSlipInv, ReadKeepsSlipInv, WatchKeepsSlipInv DEF HostReacts, HostIsAsked
  <2>3. CASE UNCHANGED hostVars
    BY <2>3
    DEF hostVars, SlipInv, StopIsAgreed, HostAwaitsStop, OnlyStopsEnd, Leaving, Requests,
        OnlyKnownSlips, StopsWithNothingToDo, OnlyKnownLosses, OnlyKnownFreezes
  <2>4. QED
    BY <2>1, <2>2, <2>3 DEF HostNext
<1>3. SlipInv => OnlyKnownSlips
  BY DEF SlipInv
<1>4. QED
  BY <1>1, <1>2, <1>3, HostInvHolds, PTL DEF HostSpec

-------------------------------------------------------------------------------
\* OneShot.

\* An attempt that was made has a time at which it started.
AttemptsHaveStarted ==
  \A c \in ShotCommands : attempts[c].pc # "idle" => attempts[c].started \in Nat

\* A check is registered, fired and accepted in this order, and the clock holds
\* only registered checks; one it is about to confirm is in its Journal.
ChecksInOrder ==
  /\ \A s \in Schedules : Fired(s) => Registered(s)
  /\ \A s \in Schedules : Accepted(s) => Fired(s)
  /\ clock.check # None => Registered(clock.check)
  /\ clock.pc = "confirm" => Accepted(clock.check)

\* ALREADY_FIRED is said of nothing else.
VerdictsAreTrue ==
  \A c \in Cancels : codes[c] = "ALREADY_FIRED" => Fired(Target[c])

OneShotInv ==
  /\ OneShotTypeOK
  /\ AttemptsHaveStarted
  /\ ChecksInOrder
  /\ VerdictsAreTrue
  /\ OneVerdict
  /\ DeliveredIsAccepted

-------------------------------------------------------------------------------
\* The state, field by field, for leaves that need no set of records.
LEMMA StateTyped ==
  ASSUME OneShotTypeOK
  PROVE  /\ now \in Nat
         /\ \A s \in Schedules : rows[s] \in Rows /\ rows[s].due \in Times /\ rows[s].fired \in Times
         /\ clock.check \in Schedules \cup {None}
         /\ clock.pc \in {"fire", "deliver", "confirm"} => clock.check \in Schedules
<1>1. now \in Nat
  BY OneShotAssumption DEF OneShotTypeOK
<1>2. \A s \in Schedules : rows[s] \in Rows
  BY DEF OneShotTypeOK
<1>3. \A s \in Schedules : rows[s].due \in Times /\ rows[s].fired \in Times
  BY <1>2 DEF Rows
<1>4. /\ clock.check \in Schedules \cup {None}
      /\ clock.pc \in {"fire", "deliver", "confirm"} => clock.check \in Schedules
  BY DEF OneShotTypeOK, ClockTypeOK
<1>5. QED
  BY <1>1, <1>2, <1>3, <1>4

\* Only commands, Workers, the clock's place or its Event change: what the tables and the
\* Journals hold stays as it is.
LEMMA TablesKeep ==
  ASSUME OneShotInv, OneShotTypeOK', AttemptsHaveStarted', AnswersAreDurable',
         UNCHANGED <<rows, codes, accepted>>,
         clock'.check # None => Registered(clock'.check),
         clock'.pc = "confirm" => clock'.check = clock.check /\ clock.pc = "confirm"
  PROVE  OneShotInv'
<1>1. /\ \A s \in Schedules : Registered(s)' = Registered(s) /\ Fired(s)' = Fired(s)
      /\ \A s \in Schedules : Accepted(s)' = Accepted(s) /\ Cancelled(s)' = Cancelled(s)
      /\ \A s \in Schedules : FactOf(s)' = FactOf(s)
  BY DEF Registered, Fired, Accepted, Cancelled, FactOf
<1>2. ChecksInOrder'
  BY DEF OneShotInv, ChecksInOrder, Registered, Fired, Accepted
<1>3. VerdictsAreTrue' /\ DeliveredIsAccepted'
  BY DEF OneShotInv, VerdictsAreTrue, DeliveredIsAccepted, Fired, Accepted
<1>4. CancelledNeverFires' /\ RedeliveryAgrees'
  BY <1>1 DEF OneShotInv, OneVerdict, CancelledNeverFires, RedeliveryAgrees, Accepted
<1>5. QED
  BY <1>2, <1>3, <1>4 DEF OneShotInv, OneVerdict

-------------------------------------------------------------------------------
\* Type correctness

\* The invariant holds before any check is scheduled.
LEMMA InitTyped == OneShotInit => OneShotInv
<1> SUFFICES ASSUME OneShotInit PROVE OneShotInv
  OBVIOUS
<1> USE OneShotAssumption DEF OneShotInit
<1>1. OneShotTypeOK
  <2>1. NoRow \in Rows /\ NoFact \in TimeFacts
    BY DEF NoRow, NoFact, Rows, TimeFacts, Times
  <2>2. [pc |-> "idle", started |-> None, reply |-> None] \in Attempts
    BY DEF Attempts, Times
  <2>3. ClockTypeOK
    BY DEF ClockTypeOK, AtLook
  <2>4. now \in 0..LastTime /\ mishaps \in 0..MaxFaults
    OBVIOUS
  <2>5. QED
    BY <2>1, <2>2, <2>3, <2>4 DEF OneShotTypeOK
<1>2. AttemptsHaveStarted
  BY DEF AttemptsHaveStarted
<1>3. ChecksInOrder
  BY DEF ChecksInOrder, Fired, Accepted, NoRow, AtLook
<1>4. VerdictsAreTrue
  BY DEF VerdictsAreTrue, Codes
<1>5. OneVerdict
  BY DEF OneVerdict, CancelledNeverFires, AnswersAreDurable, RedeliveryAgrees, Cancelled,
         Fired, Accepted, NoRow, ShotCommands, Codes
<1>6. DeliveredIsAccepted
  BY DEF DeliveredIsAccepted, NoRow
<1>7. QED
  BY <1>1, <1>2, <1>3, <1>4, <1>5, <1>6 DEF OneShotInv

\* What is answered is one of the codes, and every due time a time.
LEMMA AnswersTyped ==
  ASSUME OneShotTypeOK, AttemptsHaveStarted
  PROVE  /\ \A c \in Cancels : CodeFor(c) \in Codes /\ Verdict(c) \in Codes
         /\ \A s \in Schedules : attempts[s].pc = "asked" => DueAt(s) \in Nat
<1>1. \A c \in Cancels : Verdict(c) \in Codes
  BY DEF Verdict, Codes
<1>2. \A c \in Cancels : CodeFor(c) \in Codes
  BY <1>1 DEF CodeFor, OneShotTypeOK
<1>3. \A s \in Schedules : attempts[s].pc = "asked" => DueAt(s) \in Nat
  <2> SUFFICES ASSUME NEW s \in Schedules, attempts[s].pc = "asked"
               PROVE  DueAt(s) \in Nat
    OBVIOUS
  <2>1. attempts[s].started \in Nat
    BY DEF AttemptsHaveStarted, ShotCommands
  <2>2. now \in Nat
    BY StateTyped
  <2>3. Delay[s] \in Nat
    BY OneShotAssumption
  <2>4. QED
    BY <2>1, <2>2, <2>3 DEF DueAt
<1>4. QED
  BY <1>1, <1>2, <1>3

\* An attempt that moves on keeps its start.
LEMMA AttemptMovedTyped ==
  ASSUME OneShotTypeOK, AttemptsHaveStarted,
         NEW c \in ShotCommands, attempts[c].pc # "idle",
         NEW new \in Attempts, new.started = attempts[c].started,
         attempts' = [attempts EXCEPT ![c] = new]
  PROVE  attempts' \in [ShotCommands -> Attempts] /\ AttemptsHaveStarted'
BY DEF OneShotTypeOK, AttemptsHaveStarted

\* An attempt that is answered keeps its type.
LEMMA AnswerTyped ==
  ASSUME OneShotTypeOK, AttemptsHaveStarted,
         NEW c \in ShotCommands, attempts[c].pc # "idle",
         NEW reply \in Codes \cup {"SCHEDULED"}, Answer(c, reply)
  PROVE  attempts' \in [ShotCommands -> Attempts] /\ AttemptsHaveStarted'
<1> DEFINE new == [attempts[c] EXCEPT !.pc = "answered", !.reply = reply]
<1>1. attempts[c] \in Attempts
  BY DEF OneShotTypeOK
<1>2. new \in Attempts /\ new.started = attempts[c].started
  BY <1>1 DEF Attempts
<1>3. attempts' = [attempts EXCEPT ![c] = new]
  BY DEF Answer, OneShotTypeOK
<1> HIDE DEF new
<1>4. QED
  BY <1>2, <1>3, AttemptMovedTyped

\* An attempt that moves to another place keeps its type.
LEMMA PlaceTyped ==
  ASSUME OneShotTypeOK, AttemptsHaveStarted,
         NEW c \in ShotCommands, attempts[c].pc # "idle",
         NEW pc \in {"asked", "ended"}, attempts' = [attempts EXCEPT ![c].pc = pc]
  PROVE  attempts' \in [ShotCommands -> Attempts] /\ AttemptsHaveStarted'
<1> DEFINE new == [attempts[c] EXCEPT !.pc = pc]
<1>1. attempts[c] \in Attempts
  BY DEF OneShotTypeOK
<1>2. new \in Attempts /\ new.started = attempts[c].started
  BY <1>1 DEF Attempts
<1>3. attempts' = [attempts EXCEPT ![c] = new]
  OBVIOUS
<1> HIDE DEF new
<1>4. QED
  BY <1>2, <1>3, AttemptMovedTyped

\* What a dying Worker forgets leaves attempts what they are.
LEMMA ForgottenTyped ==
  ASSUME OneShotTypeOK, AttemptsHaveStarted, NEW gone, attempts' = Forgotten(gone)
  PROVE  /\ attempts' \in [ShotCommands -> Attempts]
         /\ AttemptsHaveStarted'
         /\ \A c \in ShotCommands : attempts'[c].pc \in {"answered", "ended"}
                                      => attempts'[c] = attempts[c]
<1>1. \A c \in ShotCommands : attempts[c] \in Attempts
  BY DEF OneShotTypeOK
<1>2. \A c \in ShotCommands :
        \/ attempts'[c] = attempts[c]
        \/ /\ attempts'[c] = [attempts[c] EXCEPT !.pc = "unknown", !.reply = None]
           /\ attempts[c].pc # "idle"
  BY DEF Forgotten
<1>3. \A c \in ShotCommands : [attempts[c] EXCEPT !.pc = "unknown", !.reply = None] \in Attempts
  BY <1>1 DEF Attempts
<1>4. attempts' \in [ShotCommands -> Attempts]
  <2>1. attempts' = [c \in ShotCommands |-> attempts'[c]]
    BY DEF Forgotten
  <2>2. \A c \in ShotCommands : attempts'[c] \in Attempts
    BY <1>1, <1>2, <1>3
  <2>3. QED
    BY <2>1, <2>2
<1>5. AttemptsHaveStarted'
  BY <1>1, <1>2 DEF AttemptsHaveStarted, Attempts
<1>6. \A c \in ShotCommands : attempts'[c].pc \in {"answered", "ended"}
                                => attempts'[c] = attempts[c]
  BY <1>1, <1>2 DEF Attempts
<1>7. QED
  BY <1>4, <1>5, <1>6

\* What is left to show of a step of the commands and the Workers.
LEMMA CommandStepTyped ==
  ASSUME OneShotInv, UNCHANGED <<now, accepted>>,
         attempts' \in [ShotCommands -> Attempts], rows' \in [Schedules -> Rows],
         codes' \in [Cancels -> Codes \cup {None}], ClockTypeOK',
         workers' \in [Sessions -> {"down", "recovering", "up"}], broken' \in SUBSET MayBreak,
         mishaps' = mishaps \/ (mishaps < MaxFaults /\ mishaps' = mishaps + 1)
  PROVE  OneShotTypeOK'
BY OneShotAssumption DEF OneShotInv, OneShotTypeOK

\* What is left to show of a step of the clock or of time.
LEMMA ClockStepTyped ==
  ASSUME OneShotInv, UNCHANGED <<codes, attempts, workers, troubles>>, ClockTypeOK',
         now' = now \/ (now < LastTime /\ now' = now + 1),
         rows' \in [Schedules -> Rows], accepted' \in [Schedules -> TimeFacts]
  PROVE  OneShotTypeOK' /\ AttemptsHaveStarted'
BY OneShotAssumption DEF OneShotInv, OneShotTypeOK, AttemptsHaveStarted, troubles

\* Every step keeps the types of tables, attempts, Workers and clock.
LEMMA OneShotStepTyped ==
  ASSUME OneShotInv, OneShotNext
  PROVE  OneShotTypeOK' /\ AttemptsHaveStarted'
<1> USE OneShotAssumption
<1>0. OneShotTypeOK /\ AttemptsHaveStarted /\ ChecksInOrder
  BY DEF OneShotInv
<1>1. ASSUME NEW c \in ShotCommands, Begin(c)
      PROVE  OneShotTypeOK' /\ AttemptsHaveStarted'
  <2>1. now \in Nat
    BY <1>0, StateTyped
  <2>2. [pc |-> "asked", started |-> now, reply |-> None] \in Attempts
    BY <2>1 DEF Attempts, Times
  <2>3. attempts' \in [ShotCommands -> Attempts] /\ AttemptsHaveStarted'
    BY <1>0, <1>1, <2>1, <2>2 DEF Begin, OneShotTypeOK, AttemptsHaveStarted
  <2>4. ClockTypeOK'
    BY <1>0, <1>1 DEF Begin, clockVars, tables, OneShotTypeOK, ClockTypeOK, Fired
  <2>5. QED
    BY <1>0, <1>1, <2>3, <2>4, CommandStepTyped DEF Begin, tables, troubles, OneShotTypeOK
<1>2. ASSUME NEW s \in Schedules, RegisterSchedule(s)
      PROVE  OneShotTypeOK' /\ AttemptsHaveStarted'
  <2>1. s \in ShotCommands /\ attempts[s].pc # "idle"
    BY <1>2 DEF ShotCommands, RegisterSchedule
  <2>2. attempts' \in [ShotCommands -> Attempts] /\ AttemptsHaveStarted'
    BY <1>0, <1>2, <2>1, AnswerTyped DEF RegisterSchedule
  <2>3. DueAt(s) \in Nat
    BY <1>0, <1>2, AnswersTyped DEF RegisterSchedule
  <2>4. [NoRow EXCEPT !.due = DueAt(s)] \in Rows
    BY <2>3 DEF NoRow, Rows, Times
  <2>5. rows' \in [Schedules -> Rows]
    BY <1>0, <1>2, <2>4 DEF RegisterSchedule, InsertSchedule, OneShotTypeOK
  <2>6. \A r \in Schedules : Fired(r) => Fired(r)'
    BY <1>0, <1>2 DEF RegisterSchedule, InsertSchedule, ChecksInOrder, OneShotTypeOK, Fired
  <2>7. ClockTypeOK'
    BY <1>0, <1>2, <2>6, StateTyped DEF RegisterSchedule, OneShotTypeOK, ClockTypeOK
  <2>8. QED
    BY <1>0, <1>2, <2>2, <2>5, <2>7, CommandStepTyped DEF RegisterSchedule, troubles, OneShotTypeOK
<1>3. ASSUME NEW c \in Cancels, CancelSchedule(c)
      PROVE  OneShotTypeOK' /\ AttemptsHaveStarted'
  <2>1. CodeFor(c) \in Codes /\ Verdict(c) \in Codes
    BY <1>0, AnswersTyped
  <2>2. c \in ShotCommands /\ attempts[c].pc # "idle"
    BY <1>3 DEF ShotCommands, CancelSchedule
  <2>3. attempts' \in [ShotCommands -> Attempts] /\ AttemptsHaveStarted'
    BY <1>0, <1>3, <2>1, <2>2, AnswerTyped DEF CancelSchedule
  <2>4. codes' \in [Cancels -> Codes \cup {None}]
    BY <1>0, <1>3, <2>1 DEF CancelSchedule, OneShotTypeOK
  <2>5. ClockTypeOK'
    BY <1>0, <1>3 DEF CancelSchedule, OneShotTypeOK, ClockTypeOK, Fired
  <2>6. QED
    BY <1>0, <1>3, <2>3, <2>4, <2>5, CommandStepTyped DEF CancelSchedule, troubles, OneShotTypeOK
<1>4. ASSUME NEW c \in ShotCommands, RecordAnswer(c) \/ Recover(c)
      PROVE  OneShotTypeOK' /\ AttemptsHaveStarted'
  <2>1. \E pc \in {"asked", "ended"} : attempts' = [attempts EXCEPT ![c].pc = pc]
    BY <1>4 DEF RecordAnswer, Recover
  <2>2. attempts[c].pc # "idle"
    BY <1>4 DEF RecordAnswer, Recover
  <2>3. attempts' \in [ShotCommands -> Attempts] /\ AttemptsHaveStarted'
    BY <1>0, <2>1, <2>2, PlaceTyped
  <2>4. ClockTypeOK'
    BY <1>0, <1>4 DEF RecordAnswer, Recover, clockVars, tables, OneShotTypeOK, ClockTypeOK, Fired
  <2>5. QED
    BY <1>0, <1>4, <2>3, <2>4, CommandStepTyped
    DEF RecordAnswer, Recover, tables, troubles, OneShotTypeOK
<1>5. ASSUME NEW a \in Sessions, WorkerEnds(a)
      PROVE  OneShotTypeOK' /\ AttemptsHaveStarted'
  <2>1. attempts' \in [ShotCommands -> Attempts] /\ AttemptsHaveStarted'
    BY <1>0, <1>5, ForgottenTyped DEF WorkerEnds
  <2>2. ClockTypeOK'
    BY <1>0, <1>5 DEF WorkerEnds, DeliveryFails, tables, OneShotTypeOK, ClockTypeOK, Fired
  <2>3. QED
    BY <1>0, <1>5, <2>1, <2>2, CommandStepTyped DEF WorkerEnds, tables, OneShotTypeOK
<1>6. ASSUME NEW a \in Sessions, WorkerStarts(a) \/ WorkerReady(a) \/ Break(a)
      PROVE  OneShotTypeOK' /\ AttemptsHaveStarted'
  <2>1. ClockTypeOK'
    BY <1>0, <1>6 DEF WorkerStarts, WorkerReady, Break, clockVars, tables, OneShotTypeOK, ClockTypeOK, Fired
  <2>2. AttemptsHaveStarted'
    BY <1>0, <1>6 DEF WorkerStarts, WorkerReady, Break, AttemptsHaveStarted
  <2>3. QED
    BY <1>0, <1>6, <2>1, <2>2, CommandStepTyped
    DEF WorkerStarts, WorkerReady, Break, tables, troubles, OneShotTypeOK
<1>7. ASSUME HostCrashes
      PROVE  OneShotTypeOK' /\ AttemptsHaveStarted'
  <2>1. attempts' \in [ShotCommands -> Attempts] /\ AttemptsHaveStarted'
    BY <1>0, <1>7, ForgottenTyped DEF HostCrashes
  <2>2. ClockTypeOK'
    BY <1>7 DEF HostCrashes, ClockTypeOK, AtLook
  <2>3. QED
    BY <1>0, <1>7, <2>1, <2>2, CommandStepTyped DEF HostCrashes, tables, OneShotTypeOK
<1>8. ASSUME Look \/ Woken \/ TimeReached \/ Unavailable \/ SleepOver
      PROVE  OneShotTypeOK' /\ AttemptsHaveStarted'
  <2>1. ClockTypeOK'
    <3>1. ASSUME Look PROVE ClockTypeOK'
      <4>1. CASE clock' = [pc |-> "wait", check |-> None]
        BY <3>1, <4>1 DEF Look, ClockTypeOK
      <4>2. CASE \E s \in Earliest : clock' = [pc |-> IF rows[s].due > now THEN "wait" ELSE "fire",
                                             check |-> s]
        <5>1. PICK s \in Schedules, pc \in {"wait", "fire"} : clock' = [pc |-> pc, check |-> s]
          BY <4>2 DEF Earliest, Pending
        <5>2. s # None
          OBVIOUS
        <5>3. QED
          BY <3>1, <5>1, <5>2 DEF Look, ClockTypeOK
      <4>3. QED
        BY <3>1, <4>1, <4>2 DEF Look
    <3>2. ASSUME Woken \/ Unavailable \/ SleepOver PROVE ClockTypeOK'
      BY <1>0, <3>2 DEF Woken, Unavailable, SleepOver, AtLook, OneShotTypeOK, ClockTypeOK
    <3>3. ASSUME TimeReached PROVE ClockTypeOK'
      BY <1>0, <3>3 DEF TimeReached, OneShotTypeOK, ClockTypeOK
    <3>4. QED
      BY <1>8, <3>1, <3>2, <3>3
  <2>2. QED
    BY <1>0, <1>8, <2>1, ClockStepTyped
    DEF Look, Woken, TimeReached, Unavailable, SleepOver, tables, OneShotTypeOK
<1>9. ASSUME FiringTime
      PROVE  OneShotTypeOK' /\ AttemptsHaveStarted'
  <2>1. now \in Nat /\ clock.check \in Schedules
    BY <1>0, <1>9, StateTyped DEF FiringTime
  <2>2. [rows[clock.check] EXCEPT !.fired = now] \in Rows
    BY <1>0, <2>1, StateTyped DEF Rows, Times
  <2>3. rows' \in [Schedules -> Rows]
    BY <1>0, <1>9, <2>2 DEF FiringTime, OneShotTypeOK
  <2>4. ClockTypeOK'
    BY <1>0, <1>9 DEF FiringTime, AtLook, OneShotTypeOK, ClockTypeOK, Fired
  <2>5. QED
    BY <1>0, <1>9, <2>3, <2>4, ClockStepTyped DEF FiringTime, OneShotTypeOK
<1>10. ASSUME AcceptTime
       PROVE  OneShotTypeOK' /\ AttemptsHaveStarted'
  <2>1. clock.check \in Schedules
    BY <1>0, <1>10, StateTyped DEF AcceptTime
  <2>2. FactOf(clock.check) \in TimeFacts
    BY <1>0, <2>1, StateTyped DEF FactOf, TimeFacts
  <2>3. accepted' \in [Schedules -> TimeFacts]
    BY <1>0, <1>10, <2>2 DEF AcceptTime, OneShotTypeOK
  <2>4. ClockTypeOK'
    BY <1>0, <1>10 DEF AcceptTime, tables, OneShotTypeOK, ClockTypeOK, Fired
  <2>5. QED
    BY <1>0, <1>10, <2>3, <2>4, ClockStepTyped DEF AcceptTime, tables, OneShotTypeOK
<1>11. ASSUME Delivered
       PROVE  OneShotTypeOK' /\ AttemptsHaveStarted'
  <2>1. clock.check \in Schedules
    BY <1>0, <1>11, StateTyped DEF Delivered
  <2>2. [rows[clock.check] EXCEPT !.delivered = TRUE] \in Rows
    BY <1>0, <2>1, StateTyped DEF Rows
  <2>3. rows' \in [Schedules -> Rows]
    BY <1>0, <1>11, <2>2 DEF Delivered, OneShotTypeOK
  <2>4. ClockTypeOK'
    BY <1>0, <1>11 DEF Delivered, AtLook, OneShotTypeOK, ClockTypeOK
  <2>5. QED
    BY <1>0, <1>11, <2>3, <2>4, ClockStepTyped DEF Delivered, OneShotTypeOK
<1>12. ASSUME Tick
       PROVE  OneShotTypeOK' /\ AttemptsHaveStarted'
  <2>1. ClockTypeOK'
    BY <1>0, <1>12 DEF Tick, clockVars, tables, OneShotTypeOK, ClockTypeOK, Fired
  <2>2. QED
    BY <1>0, <1>12, <2>1, ClockStepTyped DEF Tick, tables, OneShotTypeOK
<1>13. QED
  BY <1>1, <1>2, <1>3, <1>4, <1>5, <1>6, <1>7, <1>8, <1>9, <1>10, <1>11, <1>12
  DEF OneShotNext, ClockStep, Serve, Recovery

-------------------------------------------------------------------------------
\* The verdict on a check

\* Answers stay true while the tables only grow.
LEMMA AnswersKept ==
  ASSUME OneShotInv, UNCHANGED codes,
         \A s \in Schedules : Registered(s) => Registered(s)',
         \A s \in Schedules : Fired(s) => Fired(s)',
         \A c \in ShotCommands :
           attempts'[c].pc \in {"answered", "ended"} =>
             /\ attempts[c].pc \in {"answered", "ended"}
             /\ attempts'[c].reply = attempts[c].reply
  PROVE  AnswersAreDurable'
BY OneShotAssumption DEF OneShotInv, OneVerdict, AnswersAreDurable, ShotCommands

\* Steps that leave the tables and the Journals alone
LEMMA QuietStepKeeps ==
  ASSUME OneShotInv, OneShotTypeOK', AttemptsHaveStarted',
         \/ \E c \in ShotCommands : Begin(c) \/ RecordAnswer(c) \/ Recover(c)
         \/ \E a \in Sessions : WorkerEnds(a) \/ WorkerStarts(a) \/ WorkerReady(a) \/ Break(a)
         \/ HostCrashes
         \/ Look \/ Woken \/ TimeReached \/ Unavailable \/ SleepOver
         \/ Tick
  PROVE  OneShotInv'
<1>1. OneShotTypeOK /\ AttemptsHaveStarted /\ ChecksInOrder
  BY DEF OneShotInv
<1>2. UNCHANGED <<rows, codes, accepted>>
  BY DEF Begin, RecordAnswer, Recover, WorkerEnds, WorkerStarts, WorkerReady, Break, HostCrashes,
         Look, Woken, TimeReached, Unavailable, SleepOver, Tick, tables
<1>3. \A c \in ShotCommands :
        attempts'[c].pc \in {"answered", "ended"} =>
          /\ attempts[c].pc \in {"answered", "ended"}
          /\ attempts'[c].reply = attempts[c].reply
  <2>1. CASE \E c \in ShotCommands : Begin(c)
    BY <1>1, <2>1 DEF Begin, OneShotTypeOK
  <2>2. CASE \E c \in ShotCommands : RecordAnswer(c) \/ Recover(c)
    <3>1. PICK c \in ShotCommands : RecordAnswer(c) \/ Recover(c)
      BY <2>2
    <3>2. attempts[c] \in Attempts
      BY <1>1 DEF OneShotTypeOK
    <3>3. \A d \in ShotCommands \ {c} : attempts'[d] = attempts[d]
      BY <1>1, <3>1 DEF RecordAnswer, Recover, OneShotTypeOK
    <3>4. CASE RecordAnswer(c)
      BY <1>1, <3>2, <3>3, <3>4 DEF RecordAnswer, OneShotTypeOK, Attempts
    <3>5. CASE Recover(c)
      <4>1. attempts'[c].pc = "asked"
        BY <1>1, <3>2, <3>5 DEF Recover, OneShotTypeOK, Attempts
      <4>2. QED
        BY <3>3, <4>1
    <3>6. QED
      BY <3>1, <3>4, <3>5
  <2>3. CASE (\E a \in Sessions : WorkerEnds(a)) \/ HostCrashes
    BY <1>1, <2>3, ForgottenTyped DEF WorkerEnds, HostCrashes
  <2>4. CASE attempts' = attempts
    BY <2>4
  <2>5. QED
    BY <2>1, <2>2, <2>3, <2>4
    DEF WorkerStarts, WorkerReady, Break, Look, Woken, TimeReached, Unavailable, SleepOver, Tick
<1>4. AnswersAreDurable'
  BY <1>2, <1>3, AnswersKept DEF Registered, Fired
<1>5. /\ clock'.check # None => Registered(clock'.check)
      /\ clock'.pc = "confirm" => clock'.check = clock.check /\ clock.pc = "confirm"
  <2>1. CASE UNCHANGED clock
    BY <1>1, <2>1 DEF ChecksInOrder
  <2>2. CASE clock' = AtLook \/ clock' = [pc |-> "sleep", check |-> None]
    BY <2>2 DEF AtLook
  <2>3. CASE Look
    BY <2>3 DEF Look, Earliest, Pending
  <2>4. CASE TimeReached
    BY <1>1, <2>4 DEF TimeReached, ChecksInOrder, OneShotTypeOK, ClockTypeOK
  <2>5. QED
    BY <2>1, <2>2, <2>3, <2>4
    DEF Begin, RecordAnswer, Recover, WorkerEnds, DeliveryFails, WorkerStarts, WorkerReady, Break,
        HostCrashes, Woken, Unavailable, SleepOver, Tick, clockVars
<1>6. QED
  BY <1>2, <1>4, <1>5, TablesKeep

\* A schedule that is registered is a row nothing was said of yet.
LEMMA RegisterKeeps ==
  ASSUME OneShotInv, OneShotTypeOK', AttemptsHaveStarted',
         NEW s \in Schedules, RegisterSchedule(s)
  PROVE  OneShotInv'
<1>1. OneShotTypeOK /\ ChecksInOrder /\ VerdictsAreTrue /\ OneVerdict /\ DeliveredIsAccepted
  BY DEF OneShotInv
<1>2. UNCHANGED <<codes, clock, accepted>> /\ s \in ShotCommands
  BY DEF RegisterSchedule, ShotCommands
<1>3. attempts[s] \in Attempts /\ DueAt(s) \in Nat
  BY <1>2, AnswersTyped DEF OneShotInv, OneShotTypeOK, RegisterSchedule
<1>4. \A r \in Schedules : rows'[r] = rows[r] \/ (r = s /\ ~Registered(r))
  BY <1>1 DEF RegisterSchedule, InsertSchedule, OneShotTypeOK
<1>5. rows'[s].fired = rows[s].fired /\ Registered(s)' /\ (rows'[s].delivered => rows[s].delivered)
  <2>1. CASE Registered(s)
    BY <2>1 DEF RegisterSchedule, InsertSchedule, Registered
  <2>2. CASE ~Registered(s)
    <3>1. rows'[s] = [NoRow EXCEPT !.due = DueAt(s)]
      BY <1>1, <2>2 DEF RegisterSchedule, InsertSchedule, OneShotTypeOK
    <3>2. rows[s].fired = None
      BY <1>1, <2>2 DEF ChecksInOrder, Fired
    <3>3. QED
      BY <1>3, <3>1, <3>2, OneShotAssumption DEF NoRow, Registered
  <2>3. QED
    BY <2>1, <2>2
<1>6. \A r \in Schedules : /\ Fired(r)' = Fired(r) /\ Cancelled(r)' = Cancelled(r)
                           /\ Registered(r) => Registered(r)'
  BY <1>2, <1>4, <1>5 DEF Fired, Registered, Cancelled
<1>7. \A r \in Schedules : Accepted(r) => FactOf(r)' = FactOf(r)
  BY <1>1, <1>4 DEF ChecksInOrder, FactOf
<1>8. ChecksInOrder' /\ VerdictsAreTrue' /\ DeliveredIsAccepted'
  <2>1. ChecksInOrder'
    BY <1>1, <1>2, <1>6, StateTyped DEF ChecksInOrder, Accepted
  <2>2. VerdictsAreTrue'
    BY <1>1, <1>2, <1>6, OneShotAssumption DEF VerdictsAreTrue
  <2>3. DeliveredIsAccepted'
    BY <1>1, <1>2, <1>4, <1>5 DEF DeliveredIsAccepted, Accepted
  <2>4. QED
    BY <2>1, <2>2, <2>3
<1>9. CancelledNeverFires' /\ RedeliveryAgrees'
  BY <1>1, <1>2, <1>6, <1>7
  DEF OneVerdict, CancelledNeverFires, RedeliveryAgrees, Accepted
<1>10. AnswersAreDurable'
  <2>1. \A c \in ShotCommands \ {s} : attempts'[c] = attempts[c]
    BY <1>1, <1>2 DEF RegisterSchedule, Answer, OneShotTypeOK
  <2>2. s \notin Cancels
    BY OneShotAssumption
  <2>3. QED
    BY <1>1, <1>2, <1>5, <1>6, <2>1, <2>2, OneShotAssumption
    DEF OneVerdict, AnswersAreDurable, ShotCommands
<1>11. QED
  BY <1>8, <1>9, <1>10 DEF OneShotInv, OneVerdict

\* A cancellation is answered by what it finds in its transaction, and only then.
LEMMA CancelKeeps ==
  ASSUME OneShotInv, OneShotTypeOK', AttemptsHaveStarted',
         NEW c \in Cancels, CancelSchedule(c)
  PROVE  OneShotInv'
<1>1. OneShotTypeOK /\ ChecksInOrder /\ VerdictsAreTrue /\ OneVerdict /\ DeliveredIsAccepted
  BY DEF OneShotInv
<1>2. UNCHANGED <<rows, clock, accepted>> /\ c \in ShotCommands /\ Target[c] \in Schedules
  BY OneShotAssumption DEF CancelSchedule, ShotCommands
<1>3. /\ codes'[c] = CodeFor(c)
      /\ \A d \in Cancels \ {c} : codes'[d] = codes[d]
      /\ codes[c] # None => codes'[c] = codes[c]
      /\ codes[c] = None => codes'[c] = Verdict(c)
  BY <1>1 DEF CancelSchedule, CodeFor, OneShotTypeOK
<1>4. VerdictsAreTrue'
  <2>1. codes'[c] = "ALREADY_FIRED" => Fired(Target[c])
    BY <1>1, <1>3 DEF VerdictsAreTrue, Verdict
  <2>2. QED
    BY <1>1, <1>2, <1>3, <2>1 DEF VerdictsAreTrue, Fired
<1>5. CancelledNeverFires'
  <2>1. \A s \in Schedules : Cancelled(s)' => Cancelled(s) \/ (s = Target[c] /\ Verdict(c) = "CANCELLED" /\ codes[c] = None)
    BY <1>3 DEF Cancelled
  <2>2. Verdict(c) = "CANCELLED" => ~Fired(Target[c])
    BY DEF Verdict
  <2>3. QED
    BY <1>1, <1>2, <2>1, <2>2
    DEF OneVerdict, CancelledNeverFires, ChecksInOrder, Fired, Accepted
<1>6. AnswersAreDurable'
  <2>1. attempts[c] \in Attempts
    BY <1>1, <1>2 DEF OneShotTypeOK
  <2>2. attempts'[c].reply = codes'[c]
    BY <1>1, <1>2, <1>3, <2>1 DEF CancelSchedule, Answer, OneShotTypeOK, Attempts
  <2>3. \A d \in ShotCommands \ {c} : attempts'[d] = attempts[d]
    BY <1>1, <1>2 DEF CancelSchedule, Answer, OneShotTypeOK
  <2>4. c \notin Schedules
    BY OneShotAssumption
  <2>5. QED
    BY <1>1, <1>2, <1>3, <1>4, <2>2, <2>3, <2>4
    DEF OneVerdict, AnswersAreDurable, ShotCommands, VerdictsAreTrue, Registered, Fired
<1>7. ChecksInOrder' /\ DeliveredIsAccepted' /\ RedeliveryAgrees'
  BY <1>1, <1>2
  DEF ChecksInOrder, DeliveredIsAccepted, OneVerdict, RedeliveryAgrees, Registered, Fired,
      Accepted, FactOf
<1>8. QED
  BY <1>4, <1>5, <1>6, <1>7 DEF OneShotInv, OneVerdict

\* A check fires at most once, and not when its cancellation was answered.
LEMMA FireKeeps ==
  ASSUME OneShotInv, OneShotTypeOK', AttemptsHaveStarted', FiringTime
  PROVE  OneShotInv'
<1> DEFINE s == clock.check
<1>1. OneShotTypeOK /\ ChecksInOrder /\ VerdictsAreTrue /\ OneVerdict /\ DeliveredIsAccepted
  BY DEF OneShotInv
<1>2. s \in Schedules /\ Registered(s) /\ now \in Nat /\ None \notin Nat
  BY <1>1, StateTyped, OneShotAssumption DEF FiringTime, ChecksInOrder
<1>3. UNCHANGED <<codes, attempts, accepted>>
  BY DEF FiringTime
<1>4. \A r \in Schedules \ {s} : rows'[r] = rows[r]
  BY <1>1 DEF FiringTime, OneShotTypeOK
<1>5. /\ rows'[s].due = rows[s].due /\ rows'[s].delivered = rows[s].delivered
      /\ Fired(s) => rows'[s].fired = rows[s].fired
      /\ Cancelled(s) => rows'[s].fired = rows[s].fired
  <2>1. CASE MayFire(s)
    <3>1. rows'[s] = [rows[s] EXCEPT !.fired = now] /\ rows[s] \in Rows
      BY <1>1, <1>2, <2>1 DEF FiringTime, OneShotTypeOK
    <3>2. QED
      BY <2>1, <3>1 DEF MayFire, Rows
  <2>2. CASE ~MayFire(s)
    BY <2>2 DEF FiringTime
  <2>3. QED
    BY <2>1, <2>2
<1>6. \A r \in Schedules :
        /\ Registered(r)' = Registered(r) /\ Cancelled(r)' = Cancelled(r)
        /\ Accepted(r)' = Accepted(r)
        /\ Fired(r) => Fired(r)' /\ FactOf(r)' = FactOf(r)
        /\ Cancelled(r) => Fired(r)' = Fired(r)
  BY <1>3, <1>4, <1>5 DEF Registered, Cancelled, Accepted, Fired, FactOf
<1>7. \A r \in Schedules : Fired(r)' => Registered(r)'
  BY <1>1, <1>2, <1>4, <1>6 DEF ChecksInOrder, Fired
<1>8. clock'.check \in {None, s} /\ clock'.pc # "confirm"
  BY <1>1 DEF FiringTime, AtLook, OneShotTypeOK, ClockTypeOK
<1>9. ChecksInOrder'
  BY <1>1, <1>2, <1>6, <1>7, <1>8 DEF ChecksInOrder
<1>10. VerdictsAreTrue' /\ DeliveredIsAccepted'
  <2>1. VerdictsAreTrue'
    BY <1>1, <1>3, <1>6, OneShotAssumption DEF VerdictsAreTrue
  <2>2. DeliveredIsAccepted'
    BY <1>1, <1>4, <1>5, <1>6 DEF DeliveredIsAccepted
  <2>3. QED
    BY <2>1, <2>2
<1>11. CancelledNeverFires' /\ RedeliveryAgrees'
  <2>1. CancelledNeverFires'
    BY <1>1, <1>6 DEF OneVerdict, CancelledNeverFires
  <2>2. RedeliveryAgrees'
    BY <1>1, <1>3, <1>6 DEF OneVerdict, RedeliveryAgrees, ChecksInOrder
  <2>3. QED
    BY <2>1, <2>2
<1>12. AnswersAreDurable'
  BY <1>3, <1>6, AnswersKept
<1>13. QED
  BY <1>9, <1>10, <1>11, <1>12 DEF OneShotInv, OneVerdict

\* The Journal of the Session takes what the row says.
LEMMA AcceptKeeps ==
  ASSUME OneShotInv, OneShotTypeOK', AttemptsHaveStarted', AcceptTime
  PROVE  OneShotInv'
<1> DEFINE s == clock.check
<1>1. OneShotTypeOK /\ ChecksInOrder /\ VerdictsAreTrue /\ OneVerdict /\ DeliveredIsAccepted
  BY DEF OneShotInv
<1>2. s \in Schedules /\ Registered(s) /\ Fired(s)
  BY <1>1, StateTyped, OneShotAssumption DEF AcceptTime, ChecksInOrder, OneShotTypeOK, ClockTypeOK
<1>3. UNCHANGED <<rows, codes, attempts>> /\ clock'.check = s
  BY <1>1 DEF AcceptTime, tables, OneShotTypeOK, ClockTypeOK
<1>4. FactOf(s) # NoFact
  BY <1>2 DEF FactOf, NoFact, Registered
<1>5. /\ Accepted(s)'
      /\ accepted'[s] = FactOf(s)
      /\ \A r \in Schedules \ {s} : accepted'[r] = accepted[r]
  BY <1>1, <1>2, <1>4
  DEF AcceptTime, Accepted, OneShotTypeOK, OneVerdict, RedeliveryAgrees
<1>6. \A r \in Schedules :
        /\ Registered(r)' = Registered(r) /\ Cancelled(r)' = Cancelled(r)
        /\ Fired(r)' = Fired(r) /\ FactOf(r)' = FactOf(r)
        /\ r # s => Accepted(r)' = Accepted(r)
  BY <1>3, <1>5 DEF Registered, Cancelled, Accepted, Fired, FactOf
<1>7. ChecksInOrder'
  BY <1>1, <1>2, <1>3, <1>5, <1>6 DEF ChecksInOrder
<1>8. VerdictsAreTrue' /\ DeliveredIsAccepted'
  <2>1. VerdictsAreTrue'
    BY <1>1, <1>3 DEF VerdictsAreTrue, Fired
  <2>2. DeliveredIsAccepted'
    BY <1>1, <1>3, <1>5, <1>6 DEF DeliveredIsAccepted
  <2>3. QED
    BY <2>1, <2>2
<1>9. CancelledNeverFires' /\ RedeliveryAgrees'
  <2>1. CancelledNeverFires'
    BY <1>1, <1>2, <1>6 DEF OneVerdict, CancelledNeverFires
  <2>2. RedeliveryAgrees'
    BY <1>1, <1>5, <1>6 DEF OneVerdict, RedeliveryAgrees
  <2>3. QED
    BY <2>1, <2>2
<1>10. AnswersAreDurable'
  BY <1>3, <1>6, AnswersKept
<1>11. QED
  BY <1>7, <1>8, <1>9, <1>10 DEF OneShotInv, OneVerdict

\* Marking a check as delivered keeps the invariant.
LEMMA DeliveredKeeps ==
  ASSUME OneShotInv, OneShotTypeOK', AttemptsHaveStarted', Delivered
  PROVE  OneShotInv'
<1> DEFINE s == clock.check
<1>1. OneShotTypeOK /\ ChecksInOrder /\ VerdictsAreTrue /\ OneVerdict /\ DeliveredIsAccepted
  BY DEF OneShotInv
<1>2. s \in Schedules /\ Accepted(s)
  BY <1>1, StateTyped DEF Delivered, ChecksInOrder
<1>3. UNCHANGED <<codes, attempts, accepted>> /\ clock' = AtLook
  BY DEF Delivered
<1>4. /\ \A r \in Schedules \ {s} : rows'[r] = rows[r]
      /\ rows'[s].due = rows[s].due /\ rows'[s].fired = rows[s].fired
  BY <1>1, <1>2, StateTyped DEF Delivered, OneShotTypeOK, Rows
<1>5. \A r \in Schedules :
        /\ Registered(r)' = Registered(r) /\ Cancelled(r)' = Cancelled(r)
        /\ Fired(r)' = Fired(r) /\ FactOf(r)' = FactOf(r) /\ Accepted(r)' = Accepted(r)
  BY <1>3, <1>4 DEF Registered, Cancelled, Accepted, Fired, FactOf
<1>6. ChecksInOrder'
  BY <1>1, <1>3, <1>5 DEF ChecksInOrder, AtLook
<1>7. VerdictsAreTrue' /\ DeliveredIsAccepted'
  <2>1. VerdictsAreTrue'
    BY <1>1, <1>3, <1>5, OneShotAssumption DEF VerdictsAreTrue
  <2>2. DeliveredIsAccepted'
    BY <1>1, <1>2, <1>4, <1>5 DEF DeliveredIsAccepted
  <2>3. QED
    BY <2>1, <2>2
<1>8. CancelledNeverFires' /\ RedeliveryAgrees'
  BY <1>1, <1>3, <1>5 DEF OneVerdict, CancelledNeverFires, RedeliveryAgrees
<1>9. AnswersAreDurable'
  BY <1>3, <1>5, AnswersKept
<1>10. QED
  BY <1>6, <1>7, <1>8, <1>9 DEF OneShotInv, OneVerdict

\* The invariant holds in every reachable state.
LEMMA OneShotInvHolds == OneShotSpec => []OneShotInv
<1>1. OneShotInv /\ [OneShotNext]_oneShotVars => OneShotInv'
  <2> SUFFICES ASSUME OneShotInv, [OneShotNext]_oneShotVars
               PROVE  OneShotInv'
    OBVIOUS
  <2>1. CASE OneShotNext
    <3>1. OneShotTypeOK' /\ AttemptsHaveStarted'
      BY <2>1, OneShotStepTyped
    <3>2. CASE \E s \in Schedules : RegisterSchedule(s)
      BY <3>1, <3>2, RegisterKeeps
    <3>3. CASE \E c \in Cancels : CancelSchedule(c)
      BY <3>1, <3>3, CancelKeeps
    <3>4. CASE FiringTime \/ AcceptTime \/ Delivered
      BY <3>1, <3>4, FireKeeps, AcceptKeeps, DeliveredKeeps
    <3>5. QED
      BY <2>1, <3>1, <3>2, <3>3, <3>4, QuietStepKeeps
      DEF OneShotNext, ClockStep, Serve, Recovery
  <2>2. CASE UNCHANGED oneShotVars
    <3>1. OneShotTypeOK' /\ AttemptsHaveStarted'
      BY <2>2
      DEF oneShotVars, OneShotInv, OneShotTypeOK, ClockTypeOK, AttemptsHaveStarted, Fired
    <3>2. AnswersAreDurable'
      BY <2>2, AnswersKept DEF oneShotVars, Registered, Fired
    <3>3. clock'.check # None => Registered(clock'.check)
      BY <2>2 DEF oneShotVars, OneShotInv, ChecksInOrder
    <3>4. QED
      BY <2>2, <3>1, <3>2, <3>3, TablesKeep DEF oneShotVars
  <2>3. QED
    BY <2>1, <2>2
<1>2. QED
  BY <1>1, InitTyped, PTL DEF OneShotSpec

-------------------------------------------------------------------------------
\* The tables, the attempts, the clock and the Journals are well-formed.
THEOREM OneShotTyped == OneShotSpec => []OneShotTypeOK
<1>1. OneShotInv => OneShotTypeOK
  BY DEF OneShotInv
<1>2. QED
  BY <1>1, OneShotInvHolds, PTL

\* However often Workers and the Host die: a check that is answered as cancelled never
\* fires and never reaches the Journal, answers say what was decided durably, and what is
\* delivered again is what the Journal holds.
THEOREM ChecksHaveOneVerdict == OneShotSpec => []OneVerdict
<1>1. OneShotInv => OneVerdict
  BY DEF OneShotInv
<1>2. QED
  BY <1>1, OneShotInvHolds, PTL

\* The mark that a check was delivered is never ahead of the Session's Journal.
THEOREM MarksFollowDelivery == OneShotSpec => []DeliveredIsAccepted
<1>1. OneShotInv => DeliveredIsAccepted
  BY DEF OneShotInv
<1>2. QED
  BY <1>1, OneShotInvHolds, PTL

===============================================================================
