------------------------------ MODULE EventLog ------------------------------
(***************************************************************************)
(* What a Session's Journal promises, without its tables, claims and       *)
(* leases: an append-only log in which every event is justified by the     *)
(* events before it.  (docs, Runtime, Journal guarantees; the Journal      *)
(* protocol of redpanda/runtime/journal/api.py.)  SessionJournal           *)
(* implements it.                                                          *)
(***************************************************************************)
EXTENDS RuntimeEvents

VARIABLE log

Record(e) == Len(log) < MaxEvents /\ log' = Append(log, e)

\* Events that consume decision trigger t.
ConsumesTrigger(e, t) ==
  \/ e.kind = "step" /\ e.request.trigger = t
  \/ e.kind = "cancel" /\ e.trigger = t

IssuesCommand(e, c) == e.kind = "step" /\ c \in e.commands

IsVerdict(e, c) == e.kind \in {"grant", "reject"} /\ e.command = c

IsAttempt(e, c) == e.kind = "attempt" /\ e.command = c

\* Event i makes command c eligible.
MakesEligible(i, c) ==
  \/ IssuesCommand(log[i], c) /\ c \notin NeedsAuthorization
  \/ log[i].kind = "grant" /\ log[i].command = c

LogInit == log = <<>>

\* A delivery is accepted once.
Arrive(d) ==
  /\ \A i \in DOMAIN log : ~(log[i].kind = "fact" /\ log[i].delivery = d)
  /\ Record([kind |-> "fact", delivery |-> d])

\* A decision consumes a trigger nothing else has consumed and issues new commands.
Commit(r, cs) ==
  /\ r.trigger \in DOMAIN log
  /\ \A i \in DOMAIN log : ~ConsumesTrigger(log[i], r.trigger)
  /\ \A i \in DOMAIN log, c \in cs : ~IssuesCommand(log[i], c)
  /\ Record([kind |-> "step", request |-> r, commands |-> cs])

Cancel(t) ==
  /\ t \in DOMAIN log
  /\ \A i \in DOMAIN log : ~ConsumesTrigger(log[i], t)
  /\ Record([kind |-> "cancel", trigger |-> t])

\* The continuation of a step is stopped at most once.
Stop(s) ==
  /\ s \in DOMAIN log
  /\ log[s].kind = "step"
  /\ \A i \in DOMAIN log : ~(log[i].kind = "stop" /\ log[i].step = s)
  /\ Record([kind |-> "stop", step |-> s])

\* One verdict on a command that needs one, caused by the step that issued it.
Verdict(kind, s, c) ==
  /\ s \in DOMAIN log
  /\ IssuesCommand(log[s], c)
  /\ c \in NeedsAuthorization
  /\ \A i \in DOMAIN log : ~IsVerdict(log[i], c)
  /\ Record([kind |-> kind, command |-> c, cause |-> s])

\* One attempt of a command, caused by what made it eligible.
Attempt(i, c) ==
  /\ i \in DOMAIN log
  /\ MakesEligible(i, c)
  /\ \A j \in DOMAIN log : ~IsAttempt(log[j], c)
  /\ Record([kind |-> "attempt", command |-> c, number |-> 1, cause |-> i])

\* One outcome of an attempt.
End(a, result) ==
  /\ a \in DOMAIN log
  /\ log[a].kind = "attempt"
  /\ \A i \in DOMAIN log : ~(log[i].kind = "outcome" /\ log[i].attempt = a)
  /\ Record([kind |-> "outcome", command |-> log[a].command, attempt |-> a,
             result |-> result])

LogNext ==
  \/ \E d \in Facts : Arrive(d)
  \/ \E r \in Requests, cs \in SUBSET Commands : Commit(r, cs)
  \/ \E t \in Positions : Cancel(t)
  \/ \E s \in Positions : Stop(s)
  \/ \E kind \in {"grant", "reject"}, s \in Positions, c \in Commands : Verdict(kind, s, c)
  \/ \E i \in Positions, c \in Commands : Attempt(i, c)
  \/ \E a \in Positions, result \in Results : End(a, result)

LogSpec == LogInit /\ [][LogNext]_log

===============================================================================
