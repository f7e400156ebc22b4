---------------------------- MODULE ModelContext ----------------------------
(***************************************************************************)
(* What one Session tells its model: redpanda/assistant/context/           *)
(* projection.py makes the messages of a model call from the frame of a    *)
(* decision.  They are a function of the log, so this module adds no state *)
(* to AgentRuntime: the context of a committed step is made again from the *)
(* basis the step was frozen with.                                         *)
(*                                                                         *)
(* A message is [kind, at, command, says, form]: the position of the fact  *)
(* or of the step it shows, the command whose result it is, what it says   *)
(* of the command, and how much of the text is there: "whole", a "preview" *)
(* with a reference, or "bare", the reference alone.                       *)
(***************************************************************************)
EXTENDS AgentRuntime

CONSTANTS
  UserMessages,  \* the facts that are messages of the user
  Succeeding,    \* the results whose tool answered ok
  LongResults,   \* commands whose result is over size_externalize_chars
  Pictured,      \* commands whose result brings one image
  MaxToolImages  \* max_tool_images

ASSUME ContextAssumption ==
  /\ UserMessages \subseteq Facts \ QuietFacts
  /\ Succeeding \subseteq Results
  /\ LongResults \subseteq Commands
  /\ Pictured \subseteq Commands
  /\ MaxToolImages \in Nat \ {0}

Message(kind, at) ==
  [kind |-> kind, at |-> at, command |-> NoCommand, says |-> "", form |-> "whole"]

-------------------------------------------------------------------------------
\* _translate_visible_events

\* The command states of a frame, from the list of events it could see.
ViewOf(basis) ==
  LET Apply(view, i) ==
        IF log[i].kind = "step" THEN ApplyStep(view, log, i) ELSE ApplyRegular(view, log, i)
  IN  FoldLeft(Apply, EmptyView, basis)

\* Says a command's result, or why there is none: _rejection_text,
\* outcome_text, _outstanding_text.
Says(state) ==
  CASE state.rejected # None -> "rejected"
    [] state.rejected = None /\ state.outcome # None ->
         IF log[state.outcome].result \in Succeeding THEN "succeeded" ELSE "failed"
    [] OTHER ->
         CASE state.attempt # None -> "no result yet"
           [] state.attempt = None /\ state.eligible = None -> "awaiting authorization"
           [] OTHER -> "not started"

Answered == {"succeeded", "failed", "rejected"}

\* externalize_payload: what a tool returns that is too long is stored before it is
\* recorded, and the Journal gets a preview.
RecordedForm(c, says) ==
  IF c \in LongResults /\ says = "succeeded" THEN "preview" ELSE "whole"

ToolMessage(view, s, c) ==
  LET says == Says(view.commands[c]) IN
  [Message("tool", s) EXCEPT !.command = c, !.says = says, !.form = RecordedForm(c, says)]

\* _hoist_tool_images: a tool message is text; the images follow the group.
HoistImages(tools) ==
  tools \o
  LET WithImages(message) == message.command \in Pictured /\ message.says = "succeeded"
      pictured == SelectSeq(tools, WithImages)
  IN  [n \in DOMAIN pictured |-> [pictured[n] EXCEPT !.kind = "tool_image", !.form = "whole"]]

\* _project_step: a step is an assistant message and, for each of its commands,
\* the result or what stands for it.
ProjectStep(view, s) ==
  LET cs == SetToSeq(log[s].commands) IN
  <<Message("assistant", s)>>
    \o HoistImages([n \in DOMAIN cs |-> ToolMessage(view, s, cs[n])])

\* The messages of the visible events, in log order, after the system prompt.
Translated(view, basis) ==
  LET MessagesOf(i) ==
        CASE ~Shown(view, i) -> <<>>
          [] Shown(view, i) /\ log[i].kind = "fact" ->
               <<Message(IF log[i].delivery \in UserMessages THEN "user" ELSE "fact", i)>>
          [] Shown(view, i) /\ log[i].kind = "step" -> ProjectStep(view, i)
          [] OTHER -> <<>>
  IN  <<Message("system", None)>> \o FlattenSeq([i \in DOMAIN log |-> MessagesOf(i)])

-------------------------------------------------------------------------------
\* prepare

\* _externalize_oversized: so is what is still too long, the failure of a tool.
ExternalizeOversized(messages) ==
  [n \in DOMAIN messages |->
    IF /\ messages[n].kind = "tool"
       /\ messages[n].command \in LongResults
       /\ messages[n].says = "failed"
    THEN [messages[n] EXCEPT !.form = "preview"]
    ELSE messages[n]]

\* _protection_start: the last message of the user, else the beginning.
ProtectionStart(messages) ==
  LET users == {n \in DOMAIN messages : messages[n].kind = "user"} IN
  IF users = {} THEN 1 ELSE CHOOSE n \in users : \A k \in users : k <= n

\* The end of the run of results that follows the assistant message n.
ResultEnd(messages, n) ==
  CHOOSE e \in n..Len(messages) :
    /\ \A k \in n + 1..e : messages[k].kind = "tool"
    /\ e < Len(messages) => messages[e + 1].kind # "tool"

\* The results right after n are those of its calls, all of them succeeded.
BatchComplete(messages, n) ==
  {messages[k].command : k \in n + 1..ResultEnd(messages, n)} = log[messages[n].at].commands

BatchSucceeded(messages, n) ==
  \A k \in n + 1..ResultEnd(messages, n) : messages[k].says = "succeeded"

\* Mutant: what is complete counts as consumed.
AlwaysConsumed(messages, n) == TRUE

\* An assistant message stands between the batch and the protected part.
Consumed(messages, n) ==
  \E k \in ResultEnd(messages, n) + 1..ProtectionStart(messages) - 1 :
    messages[k].kind = "assistant"

\* _dehydrate_eligible: of what is before the protected part, the results of
\* batches that are complete, consumed and succeeded keep their reference alone.
DehydrateEligible(messages) ==
  LET Eligible(n) ==
        /\ messages[n].kind = "assistant"
        /\ log[messages[n].at].commands # {}
        /\ ResultEnd(messages, n) < ProtectionStart(messages)
        /\ BatchComplete(messages, n)
        /\ Consumed(messages, n)
        /\ BatchSucceeded(messages, n)
  IN  [k \in DOMAIN messages |->
        IF /\ messages[k].kind = "tool"
           /\ \E n \in 1..k - 1 : Eligible(n) /\ k <= ResultEnd(messages, n)
        THEN [messages[k] EXCEPT !.form = "bare"]
        ELSE messages[k]]

\* _evict_images: the newest max_tool_images stay.
EvictImages(messages) ==
  LET Later(n) == {k \in n..Len(messages) : messages[k].kind = "tool_image"} IN
  [n \in DOMAIN messages |->
    IF messages[n].kind = "tool_image" /\ Cardinality(Later(n)) > MaxToolImages
    THEN [messages[n] EXCEPT !.form = "bare"]
    ELSE messages[n]]

\* The messages a decision with this basis sends to the model.
ContextOf(basis) ==
  EvictImages(DehydrateEligible(ExternalizeOversized(Translated(ViewOf(basis), basis))))

StepContext(s) == ContextOf(log[s].request.frame.basis)

-------------------------------------------------------------------------------
\* Properties.

\* A step has just been committed.
JustDecided(s) == s = Len(log)

\* The commands whose result is in messages with its text, or without it.
ResultsIn(messages) ==
  {messages[n] : n \in {n \in DOMAIN messages : messages[n].kind = "tool"}}

Readable(messages) ==
  {m.command : m \in {m \in ResultsIn(messages) : m.says \in Answered /\ m.form # "bare"}}

Shortened(messages) ==
  {m.command : m \in {m \in ResultsIn(messages) : m.form = "bare"}}

\* The results the context of step s has only a reference to, and that no earlier
\* step was given to read.
ShortenedUnread(s) ==
  LET shortened == Shortened(StepContext(s)) IN
  IF shortened = {}
  THEN {}
  ELSE shortened \ UNION {Readable(StepContext(t)) : t \in Steps \ {s}}

\* Decision t was asked for by a fact that was there when the command was decided, so
\* it did not wait for the command; to projection.py its message stands after the result.
DecidedBeside(c) ==
  \E o \in Of(log, "outcome"), issuer, t \in Steps :
    /\ log[o].command = c
    /\ c \in log[issuer].commands
    /\ issuer < t
    /\ log[t].request.trigger <= ObservedBy(log, issuer)
    /\ ObservedBy(log, t) < o

\* The command was attempted only after a later decision had been frozen, which could
\* not wait for it either.
AttemptedTooLate(c) ==
  \E a \in Of(log, "attempt"), issuer, t \in Steps :
    /\ log[a].command = c
    /\ c \in log[issuer].commands
    /\ issuer < t
    /\ ObservedBy(log, t) < a

\* No result is cut down to its reference before a step was given its text, whatever
\* arrives while commands run or are answered in a later turn, and over cancellations and
\* restarts: the later answer by which _dehydrate_eligible takes a result for read was
\* shown it, or was frozen in one of those two ways.
OnlyKnownUnread ==
  \A s \in Steps : JustDecided(s) =>
    \A c \in ShortenedUnread(s) : DecidedBeside(c) \/ AttemptedTooLate(c)

===============================================================================
