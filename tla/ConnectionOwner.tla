---------------------------- MODULE ConnectionOwner ----------------------------
(***************************************************************************)
(* The task that owns one MCP connection (_SdkConnectionOwner of           *)
(* mcp/client_manager.py).  The SDK wants its client used in the task that *)
(* opened it, so every caller puts its operation on a queue, and the owner *)
(* serves one at a time until it finds the None that close puts there, is  *)
(* cancelled, or dies of an error it did not expect.                       *)
(***************************************************************************)
EXTENDS Naturals, Sequences, SequencesExt, Faults

CONSTANTS
  Callers,  \* tasks that use the connection, one operation each
  Bounded   \* TRUE: HTTP, whose reads time out.  FALSE: stdio, whose reads do not.

ASSUME OwnerAssumption == Bounded \in BOOLEAN /\ None \notin Callers

VARIABLES
  owner,     \* "opening", "serving", "ending" or "ended"
  operations,\* _queue: callers, and None for the end
  serving,   \* the caller whose operation runs, or None
  issued,     \* what has become of each caller's operation
  closing,   \* _closing
  cancelled, \* the owner task has been cancelled
  broke,     \* the owner task has met an error it did not expect
  closer     \* who closes the connection: "none", "waiting" or "returned"

ownerVars == <<owner, operations, serving, issued, closing, cancelled, broke, closer>>

Waiting == {"queued", "running"}

OwnerInit ==
  /\ owner = "opening"
  /\ operations = <<>>
  /\ serving = None
  /\ issued = [c \in Callers |-> "none"]
  /\ closing = FALSE
  /\ cancelled = FALSE
  /\ broke = FALSE
  /\ closer = "none"

\* start returns the connection once the client's context is entered.
Opened ==
  /\ owner = "opening"
  /\ owner' = "serving"
  /\ UNCHANGED <<operations, serving, issued, closing, cancelled, broke, closer>>

\* The server refuses, or whoever started the connection is cancelled: start cancels the task
\* and waits for it.
NotOpened ==
  /\ owner = "opening"
  /\ owner' = "ending"
  /\ closing' = TRUE
  /\ \/ cancelled' = TRUE /\ UNCHANGED broke
     \/ broke' = TRUE /\ UNCHANGED cancelled
  /\ UNCHANGED <<operations, serving, issued, closer>>

\* call: refused at once when the owner is closing or has ended.
Call(c) ==
  /\ owner # "opening"
  /\ issued[c] = "none"
  /\ IF closing
     THEN /\ issued' = [issued EXCEPT ![c] = "refused"]
          /\ UNCHANGED operations
     ELSE /\ issued' = [issued EXCEPT ![c] = "queued"]
          /\ operations' = Append(operations, c)
  /\ UNCHANGED <<owner, serving, closing, cancelled, broke, closer>>

\* The caller is cancelled while it waits: it takes the owner task down.
CallCancelled(c) ==
  /\ issued[c] \in Waiting
  /\ issued' = [issued EXCEPT ![c] = "withdrawn"]
  /\ closing' = TRUE
  /\ cancelled' = TRUE
  /\ UNCHANGED <<owner, operations, serving, broke, closer>>

\* close: the end is queued behind what was asked before.
EndQueued == operations' = Append(operations, None) /\ UNCHANGED cancelled

Close ==
  /\ owner # "opening"
  /\ closer = "none"
  /\ closer' = "waiting"
  /\ IF closing \/ owner = "ended" THEN UNCHANGED <<closing, operations, cancelled>>
     ELSE closing' = TRUE /\ EndQueued
  /\ UNCHANGED <<owner, serving, issued, broke>>

CloseReturns ==
  /\ closer = "waiting"
  /\ owner = "ended"
  /\ closer' = "returned"
  /\ UNCHANGED <<owner, operations, serving, issued, closing, cancelled, broke>>

\* The owner takes the next operation; one whose caller has left runs all the same.
Take ==
  /\ owner = "serving" /\ serving = None /\ ~cancelled
  /\ operations # <<>>
  /\ operations' = Tail(operations)
  /\ IF Head(operations) = None
     THEN /\ owner' = "ending"
          /\ UNCHANGED <<serving, issued>>
     ELSE /\ serving' = Head(operations)
          /\ issued' = IF issued[Head(operations)] = "queued"
                      THEN [issued EXCEPT ![Head(operations)] = "running"] ELSE issued
          /\ UNCHANGED owner
  /\ UNCHANGED <<closing, cancelled, broke, closer>>

Resolved(c, outcome) ==
  IF issued[c] \in Waiting THEN [issued EXCEPT ![c] = outcome] ELSE issued

\* The server answers, or it fails in a way the SDK reports.
ServerAnswers ==
  /\ serving # None /\ owner = "serving" /\ ~cancelled
  /\ issued' = Resolved(serving, "answered")
  /\ serving' = None
  /\ UNCHANGED <<owner, operations, closing, cancelled, broke, closer>>

\* read_timeout_seconds, which only the HTTP transport sets
TimesOut == Bounded /\ ServerAnswers

\* An error nobody expected.  Bound: MaxFaults is enough for it to happen.
Breaks ==
  /\ MaxFaults > 0
  /\ serving # None /\ owner = "serving" /\ ~cancelled
  /\ broke' = TRUE
  /\ owner' = "ending"
  /\ issued' = Resolved(serving, "failed")
  /\ serving' = None
  /\ closing' = TRUE
  /\ UNCHANGED <<operations, cancelled, closer>>

\* The cancellation reaches the task where it waits.  The caller whose operation ran gets it
\* as its own.
Interrupted ==
  /\ owner = "serving" /\ cancelled
  /\ owner' = "ending"
  /\ issued' = IF serving = None THEN issued ELSE Resolved(serving, "failed")
  /\ serving' = None
  /\ closing' = TRUE
  /\ UNCHANGED <<operations, cancelled, broke, closer>>

\* Mutant: the queue is left as it is.
NobodyTold == issued

\* _fail_pending_operations
PendingFailed ==
  [c \in Callers |-> IF c \in ToSet(operations) /\ issued[c] = "queued" THEN "failed"
                     ELSE issued[c]]

\* The end of _run: it closes for new callers, fails those that wait, and leaves the context.
Cleanup ==
  /\ owner = "ending"
  /\ owner' = "ended"
  /\ closing' = TRUE
  /\ issued' = PendingFailed
  /\ operations' = <<>>
  /\ UNCHANGED <<serving, cancelled, broke, closer>>

OwnerRuns == Opened \/ Take \/ TimesOut \/ Interrupted \/ Cleanup

OwnerNext ==
  \/ OwnerRuns \/ NotOpened \/ ServerAnswers \/ Breaks
  \/ Close \/ CloseReturns
  \/ \E c \in Callers : Call(c) \/ CallCancelled(c)

OwnerSpec == OwnerInit /\ [][OwnerNext]_ownerVars

-------------------------------------------------------------------------------
\* Properties

\* Whoever has put an operation on the queue gets an answer or an error, also when another
\* caller takes the connection down, when it is closed, or when it breaks.  Without a timeout
\* this takes a server that answers.
EveryCallReturns == \A c \in Callers : issued[c] \in Waiting ~> issued[c] \notin Waiting

===============================================================================
