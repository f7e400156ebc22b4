---------------------------- MODULE ProjectorProofs ----------------------------
(***************************************************************************)
(* What StateProjector computes from a log, whatever the log: the views    *)
(* its folds go through, which events they show, what holds of the trigger *)
(* and of the frame of the next decision, what is left undecided, and,     *)
(* when the events of the log are justified by those before them and every *)
(* step was decided on the projection of a beginning of the log, which     *)
(* logs have a projection: all but those of two known kinds.               *)
(***************************************************************************)
EXTENDS StateProjector, FiniteSetTheorems, TLAPS

-------------------------------------------------------------------------------
\* The three folds as chains of views.

\* The operational view; p is the log.
OpsBase(p) == EmptyView
OpsStep(p, view, n) == ApplyEvent(view, p, n)
Ops == INSTANCE LogFolds WITH Base <- OpsBase, Step <- OpsStep

\* The operational view of the first n events.
OpsView(past, n) == Ops!Chain(past, Len(past))[n]

\* The follow-ups; p is <<view, past, t, operational, until>>.
WaitBase(p) == [view |-> p[1], complete |-> FALSE]
WaitStep(p, wait, n) == IncludeFollowUp(wait, p[2], n, p[3], p[4], p[5])
Waits == INSTANCE LogFolds WITH Base <- WaitBase, Step <- WaitStep

\* What has been included after n events.
WaitAt(view, past, t, operational, until, n) ==
  Waits!Chain(<<view, past, t, operational, until>>, Len(past))[n]

\* The walk over the decisions; p is <<past, operational>>.
WalkBase(p) == NewWalk
WalkStep(p, walk, n) == WalkOn(walk, p[1], n, p[2])
Walks == INSTANCE LogFolds WITH Base <- WalkBase, Step <- WalkStep

\* The walk after n events.
WalkAt(past, operational, n) == Walks!Chain(<<past, operational>>, Len(past))[n]

\* The operational view is built event by event.
LEMMA OperationalIsChain ==
  ASSUME NEW E, NEW past \in Seq(E)
  PROVE  /\ Operational(past) = OpsView(past, Len(past))
         /\ OpsView(past, 0) = EmptyView
         /\ \A n \in 1..Len(past) : OpsView(past, n) = ApplyEvent(OpsView(past, n - 1), past, n)
<1>1. Operational(past) = Ops!Fold(past, past)
  BY DEF Operational, OpsBase, OpsStep, FoldLeftDomain, FoldLeft, MapThenFoldSet, Max,
         Ops!Fold, Ops!FoldLeftDomain, Ops!FoldLeft, Ops!MapThenFoldSet, Ops!Max
<1>2. Ops!Fold(past, past) = Ops!Chain(past, Len(past))[Len(past)]
  BY Ops!FoldIsChain
<1>3. Len(past) \in Nat
  OBVIOUS
<1>4. /\ Ops!Chain(past, Len(past))[0] = OpsBase(past)
      /\ \A n \in 1..Len(past) :
           Ops!Chain(past, Len(past))[n] = OpsStep(past, Ops!Chain(past, Len(past))[n - 1], n)
  BY <1>3, Ops!ChainStep
<1> QED
  BY <1>1, <1>2, <1>4 DEF OpsView, OpsBase, OpsStep

\* The follow-ups of a decision are included event by event.
LEMMA FollowUpsAreChain ==
  ASSUME NEW E, NEW past \in Seq(E), NEW view, NEW t, NEW operational, NEW until
  PROVE  LET at(n) == WaitAt(view, past, t, operational, until, n) IN
         /\ WithWaitedFollowUps(view, past, t, operational, until) = at(Len(past)).view
         /\ at(0) = [view |-> view, complete |-> FALSE]
         /\ \A n \in 1..Len(past) :
              at(n) = IncludeFollowUp(at(n - 1), past, n, t, operational, until)
<1> DEFINE p == <<view, past, t, operational, until>>
<1>1. WithWaitedFollowUps(view, past, t, operational, until) = Waits!Fold(p, past).view
  BY DEF WithWaitedFollowUps, WaitBase, WaitStep, FoldLeftDomain, FoldLeft, MapThenFoldSet, Max,
         Waits!Fold, Waits!FoldLeftDomain, Waits!FoldLeft, Waits!MapThenFoldSet, Waits!Max
<1>2. p[1] = view /\ p[2] = past /\ p[3] = t /\ p[4] = operational /\ p[5] = until
  OBVIOUS
<1> HIDE DEF p
<1>3. Waits!Fold(p, past) = Waits!Chain(p, Len(past))[Len(past)]
  BY Waits!FoldIsChain
<1>4. Len(past) \in Nat
  OBVIOUS
<1>5. /\ Waits!Chain(p, Len(past))[0] = WaitBase(p)
      /\ \A n \in 1..Len(past) :
           Waits!Chain(p, Len(past))[n] = WaitStep(p, Waits!Chain(p, Len(past))[n - 1], n)
  BY <1>4, Waits!ChainStep
<1> QED
  BY <1>1, <1>2, <1>3, <1>5 DEF WaitAt, WaitBase, WaitStep, p

\* The walk over the decisions goes on event by event.
LEMMA WalkIsChain ==
  ASSUME NEW E, NEW past \in Seq(E), NEW operational
  PROVE  /\ DecisionWalk(past, operational) = WalkAt(past, operational, Len(past))
         /\ WalkAt(past, operational, 0) = NewWalk
         /\ \A n \in 1..Len(past) :
              WalkAt(past, operational, n) = WalkOn(WalkAt(past, operational, n - 1), past, n, operational)
<1> DEFINE p == <<past, operational>>
<1>1. DecisionWalk(past, operational) = Walks!Fold(p, past)
  BY DEF DecisionWalk, WalkBase, WalkStep, FoldLeftDomain, FoldLeft, MapThenFoldSet, Max,
         Walks!Fold, Walks!FoldLeftDomain, Walks!FoldLeft, Walks!MapThenFoldSet, Walks!Max
<1>2. p[1] = past /\ p[2] = operational
  OBVIOUS
<1> HIDE DEF p
<1>3. Walks!Fold(p, past) = Walks!Chain(p, Len(past))[Len(past)]
  BY Walks!FoldIsChain
<1>4. Len(past) \in Nat
  OBVIOUS
<1>5. /\ Walks!Chain(p, Len(past))[0] = WalkBase(p)
      /\ \A n \in 1..Len(past) :
           Walks!Chain(p, Len(past))[n] = WalkStep(p, Walks!Chain(p, Len(past))[n - 1], n)
  BY <1>4, Walks!ChainStep
<1> QED
  BY <1>1, <1>2, <1>3, <1>5 DEF WalkAt, WalkBase, WalkStep, p

\* One more event is one more step of the operational view.
LEMMA OperationalAppend ==
  ASSUME NEW E, NEW past \in Seq(E), NEW e \in E
  PROVE  Operational(Append(past, e)) =
           ApplyEvent(Operational(past), Append(past, e), Len(past) + 1)
<1> DEFINE longer == Append(past, e)
<1>1. longer \in Seq(E) /\ Len(longer) = Len(past) + 1 /\ Len(past) \in Nat
  OBVIOUS
<1>2. ASSUME NEW n \in 1..Len(past), NEW view
      PROVE  OpsStep(past, view, n) = OpsStep(longer, view, n)
  <2>1. past[n] = longer[n]
    OBVIOUS
  <2> HIDE DEF longer
  <2> QED
    BY <2>1 DEF OpsStep, ApplyEvent, ApplyStep, ApplyRegular
<1> HIDE DEF longer
<1>3. OpsBase(past) = OpsBase(longer)
  BY DEF OpsBase
<1>4. Len(past) \in Nat /\ Len(longer) \in Nat /\ Len(past) <= Len(longer)
      /\ Len(past) \in 0..Len(past)
  BY <1>1
<1>5. Ops!Chain(past, Len(past))[Len(past)] = Ops!Chain(longer, Len(longer))[Len(past)]
  BY <1>2, <1>3, <1>4, Ops!ChainsAgree
<1>6. Operational(past) = OpsView(longer, Len(past))
  BY <1>5, OperationalIsChain DEF OpsView
<1>7. Len(past) + 1 \in 1..Len(longer) /\ (Len(past) + 1) - 1 = Len(past)
  BY <1>1
<1>8. OpsView(longer, Len(past) + 1) = ApplyEvent(OpsView(longer, Len(past)), longer, Len(past) + 1)
  BY <1>1, <1>7, OperationalIsChain
<1>9. Operational(longer) = OpsView(longer, Len(past) + 1)
  BY <1>1, OperationalIsChain
<1> QED
  BY <1>6, <1>8, <1>9 DEF longer
-------------------------------------------------------------------------------
\* Views are well formed, and true to the events they show.

IsLog(past) ==
  /\ past \in Seq(Events)
  /\ Len(past) <= MaxEvents
  /\ \A s \in Of(past, "step") : ObservedBy(past, s) \in Nat

CommandStates ==
  [issued : Positions \cup {None}, eligible : Positions \cup {None},
   rejected : Positions \cup {None}, attempt : Positions \cup {None},
   outcome : Positions \cup {None}]

Views ==
  [commands : [Commands -> CommandStates], visible : Seq(Positions), raised : BOOLEAN]

\* What a view says of command c is what the events it shows say of c.
StateIsTrue(view, past, c) ==
  LET state == view.commands[c] IN
  /\ \A i \in Positions :
       /\ state.issued = i <=>
            Shown(view, i) /\ past[i].kind = "step" /\ c \in past[i].commands
       /\ state.attempt = i <=>
            Shown(view, i) /\ past[i].kind = "attempt" /\ past[i].command = c
       /\ state.outcome = i <=>
            Shown(view, i) /\ past[i].kind = "outcome" /\ past[i].command = c
  /\ state.attempt # None => Known(state)
  /\ Terminal(state) => state.attempt # None /\ past[state.outcome].attempt = state.attempt

ViewIsTrue(view, past) ==
  /\ view \in Views
  /\ \A i : Shown(view, i) => i \in DOMAIN past
  /\ \A c \in Commands : StateIsTrue(view, past, c)

\* An event of a log is one of Events, at a position.
LEMMA EventTyped ==
  ASSUME NEW past, IsLog(past), NEW i \in DOMAIN past
  PROVE  /\ i \in Positions /\ i # None
         /\ past[i] \in Events
         /\ DOMAIN past = 1..Len(past) /\ Len(past) \in Nat
BY BoundAssumption DEF IsLog, Positions, None

\* What the kind of an event says of its other fields.
LEMMA EventFields ==
  ASSUME NEW e \in Events
  PROVE  /\ e.kind = "step" => e.commands \in SUBSET Commands /\ e.request \in Requests
         /\ AboutCommand(e) => e.command \in Commands
         /\ e.kind = "outcome" => e.attempt \in Positions
         /\ e.kind = "cancel" => e.trigger \in Positions
         /\ e.kind = "stop" => e.step \in Positions
         /\ e.kind \in {"fact", "step", "grant", "reject", "attempt", "outcome", "cancel", "stop"}
BY DEF Events, FactEvents, StepEvents, GrantEvents, RejectEvents, AttemptEvents, OutcomeEvents,
       CancelEvents, StopEvents, AboutCommand

\* Show shows one event more, and changes nothing else.
LEMMA ShowShows ==
  ASSUME NEW view \in Views, NEW i \in Positions
  PROVE  /\ Show(view, i) \in Views
         /\ Show(view, i).commands = view.commands
         /\ Show(view, i).raised = view.raised
         /\ \A j : Shown(Show(view, i), j) <=> Shown(view, j) \/ j = i
<1> DEFINE seen == view.visible
<1>1. seen \in Seq(Positions)
  BY DEF Views
<1>2. Show(view, i).visible = Append(seen, i)
  BY DEF Show, Views
<1>3. Append(seen, i) \in Seq(Positions)
  BY <1>1
<1>4. /\ Show(view, i) \in Views
      /\ Show(view, i).commands = view.commands
      /\ Show(view, i).raised = view.raised
  BY <1>3 DEF Show, Views
<1>5. ASSUME NEW j
      PROVE  (\E n \in DOMAIN Append(seen, i) : Append(seen, i)[n] = j)
               <=> (\E n \in DOMAIN seen : seen[n] = j) \/ j = i
  <2>1. /\ DOMAIN seen = 1..Len(seen) /\ Len(seen) \in Nat
        /\ DOMAIN Append(seen, i) = 1..Len(seen) + 1
        /\ Append(seen, i)[Len(seen) + 1] = i
        /\ \A n \in 1..Len(seen) : Append(seen, i)[n] = seen[n]
    BY <1>1
  <2> HIDE DEF seen
  <2>2. Len(seen) + 1 \in 1..Len(seen) + 1
    BY <2>1
  <2>3. \A n \in 1..Len(seen) + 1 : n \in 1..Len(seen) \/ n = Len(seen) + 1
    BY <2>1
  <2>4. \A n \in 1..Len(seen) : n \in 1..Len(seen) + 1
    BY <2>1
  <2> QED
    BY <2>1, <2>2, <2>3, <2>4
<1> QED
  BY <1>2, <1>4, <1>5 DEF Shown

\* A view that raises shows what it showed.
LEMMA RaiseRaises ==
  ASSUME NEW past, NEW view, ViewIsTrue(view, past)
  PROVE  /\ ViewIsTrue(Raise(view), past)
         /\ Raise(view).raised
         /\ \A j : Shown(Raise(view), j) <=> Shown(view, j)
<1>1. /\ Raise(view) \in Views /\ Raise(view).raised
      /\ Raise(view).commands = view.commands /\ Raise(view).visible = view.visible
  BY DEF Raise, Views, ViewIsTrue
<1>2. \A j : Shown(Raise(view), j) <=> Shown(view, j)
  BY <1>1 DEF Shown
<1> QED
  BY <1>1, <1>2 DEF ViewIsTrue, StateIsTrue

\* The empty view shows nothing, and that is true of any log.
LEMMA EmptyViewIsTrue ==
  ASSUME NEW past
  PROVE  ViewIsTrue(EmptyView, past) /\ ~EmptyView.raised /\ \A j : ~Shown(EmptyView, j)
<1>1. EmptyView \in Views /\ ~EmptyView.raised
  BY DEF EmptyView, Views, CommandStates, UnissuedCommand
<1>2. \A j : ~Shown(EmptyView, j)
  BY DEF EmptyView, Shown
<1>3. \A c \in Commands : StateIsTrue(EmptyView, past, c)
  <2> TAKE c \in Commands
  <2>1. EmptyView.commands[c] = UnissuedCommand
    BY DEF EmptyView
  <2>2. None \notin Positions
    BY BoundAssumption DEF None, Positions
  <2> QED
    BY <1>2, <2>1, <2>2 DEF StateIsTrue, UnissuedCommand, Known, Terminal
<1> QED
  BY <1>1, <1>2, <1>3 DEF ViewIsTrue
\* An event that is not a step, applied: shown, or refused.
LEMMA ApplyRegularIsTrue ==
  ASSUME NEW past, IsLog(past), NEW view, ViewIsTrue(view, past),
         NEW i \in DOMAIN past, past[i].kind # "step", AboutCommand(past[i]) => ~Shown(view, i)
  PROVE  LET after == ApplyRegular(view, past, i) IN
         /\ ViewIsTrue(after, past)
         /\ ~after.raised =>
              /\ ~view.raised
              /\ \A j : Shown(after, j) <=> Shown(view, j) \/ j = i
         /\ after.raised => \A j : Shown(after, j) => Shown(view, j) \/ j = i
         /\ \A j : Shown(view, j) => Shown(after, j)
         /\ \A c \in Commands : after.commands[c].issued = view.commands[c].issued
<1> DEFINE e == past[i]
           after == ApplyRegular(view, past, i)
<1>1. /\ i \in Positions /\ i # None /\ e \in Events
      /\ e.kind = "outcome" => e.attempt \in Positions
      /\ AboutCommand(e) => e.command \in Commands
      /\ e.kind # "step"
  BY EventTyped, EventFields
<1>2. view \in Views
  BY DEF ViewIsTrue
<1>3. CASE ~AboutCommand(e)
  <2>1. after = Show(view, i)
    BY <1>3 DEF ApplyRegular
  <2>2. /\ after \in Views /\ after.commands = view.commands /\ after.raised = view.raised
        /\ \A j : Shown(after, j) <=> Shown(view, j) \/ j = i
    BY <1>1, <1>2, <2>1, ShowShows
  <2>3. e.kind \notin {"step", "attempt", "outcome"}
    BY <1>1, <1>3 DEF AboutCommand
  <2> HIDE DEF after
  <2>4. \A c \in Commands : StateIsTrue(after, past, c)
    BY <2>2, <2>3 DEF ViewIsTrue, StateIsTrue
  <2> QED
    BY <2>2, <2>4 DEF ViewIsTrue, after
<1>4. CASE AboutCommand(e) /\ ~Applicable(e, view.commands[e.command])
  <2>1. after = Raise(view)
    BY <1>4 DEF ApplyRegular
  <2>2. Raise(view).commands = view.commands
    BY <1>2 DEF Views, Raise
  <2> HIDE DEF after
  <2> QED
    BY <2>1, <2>2, RaiseRaises DEF after
<1>5. CASE AboutCommand(e) /\ Applicable(e, view.commands[e.command])
  <2> DEFINE c == e.command
             old == view.commands[c]
             new == Applied(e, i, old)
             mid == [view EXCEPT !.commands[c] = new]
  <2>1. after = Show(mid, i)
    BY <1>5 DEF ApplyRegular
  <2>2. c \in Commands /\ old \in CommandStates
    BY <1>1, <1>2, <1>5 DEF Views
  <2>3. e.kind \in {"grant", "reject", "attempt", "outcome"}
    BY <1>5 DEF AboutCommand
  <2>4. /\ new \in CommandStates /\ new.issued = old.issued
        /\ new.attempt = IF e.kind = "attempt" THEN i ELSE old.attempt
        /\ new.outcome = IF e.kind = "outcome" THEN i ELSE old.outcome
    BY <1>1, <2>2, <2>3 DEF Applied, CommandStates
  <2>5. /\ Known(old)
        /\ e.kind = "attempt" => old.attempt = None
        /\ e.kind = "outcome" => old.attempt = e.attempt /\ old.outcome = None
    BY <1>5, <2>3 DEF Applicable, Unverdicted, Pending, Terminal
  <2> HIDE DEF new, old
  <2>6. /\ mid \in Views /\ mid.raised = view.raised /\ mid.visible = view.visible
        /\ \A d \in Commands : mid.commands[d] = IF d = c THEN new ELSE view.commands[d]
    BY <1>2, <2>2, <2>4 DEF Views
  <2>7. \A j : Shown(mid, j) <=> Shown(view, j)
    BY <2>6 DEF Shown
  <2> HIDE DEF mid
  <2>8. /\ after \in Views /\ after.commands = mid.commands /\ after.raised = view.raised
        /\ \A j : Shown(after, j) <=> Shown(view, j) \/ j = i
    BY <1>1, <2>1, <2>6, <2>7, ShowShows
  <2> HIDE DEF after
  <2>9. \A d \in Commands : StateIsTrue(view, past, d)
    BY DEF ViewIsTrue
  <2>10. ASSUME NEW d \in Commands, d # c
         PROVE  StateIsTrue(after, past, d)
    <3>1. after.commands[d] = view.commands[d]
      BY <2>6, <2>8, <2>10
    <3> QED
      BY <1>1, <2>3, <2>8, <2>9, <2>10, <3>1 DEF StateIsTrue
  <2>11. StateIsTrue(after, past, c)
    <3>1. after.commands[c] = new
      BY <2>2, <2>6, <2>8
    <3>2. StateIsTrue(view, past, c)
      BY <2>2, <2>9
    <3>3. None \notin Positions /\ old.issued \in Positions
          /\ old.attempt \in Positions \cup {None} /\ old.outcome \in Positions \cup {None}
      BY <2>2, <2>5, BoundAssumption DEF Positions, None, CommandStates, Known
    <3>4. ASSUME NEW j \in Positions
          PROVE  /\ new.issued = j <=>
                      Shown(after, j) /\ past[j].kind = "step" /\ c \in past[j].commands
                 /\ new.attempt = j <=>
                      Shown(after, j) /\ past[j].kind = "attempt" /\ past[j].command = c
                 /\ new.outcome = j <=>
                      Shown(after, j) /\ past[j].kind = "outcome" /\ past[j].command = c
      BY <1>1, <2>3, <2>4, <2>5, <2>8, <3>2, <3>3 DEF StateIsTrue, old
    <3>5. Known(new) /\ (new.outcome # None => new.attempt # None)
      BY <1>1, <2>3, <2>4, <2>5, <3>2, <3>3 DEF StateIsTrue, Known, Terminal, old
    <3>6. new.outcome # None => past[new.outcome].attempt = new.attempt
      BY <1>1, <2>3, <2>4, <2>5, <3>2, <3>3 DEF StateIsTrue, Terminal, old
    <3> QED
      BY <3>1, <3>4, <3>5, <3>6 DEF StateIsTrue, Terminal
  <2>12. \A d \in Commands : after.commands[d].issued = view.commands[d].issued
    BY <2>4, <2>6, <2>8 DEF old
  <2> QED
    BY <2>8, <2>10, <2>11, <2>12 DEF ViewIsTrue, after
<1> QED
  BY <1>3, <1>4, <1>5

\* A step, applied: its commands are issued, or one of them already was.
LEMMA ApplyStepIsTrue ==
  ASSUME NEW past, IsLog(past), NEW view, ViewIsTrue(view, past),
         NEW s \in DOMAIN past, past[s].kind = "step"
  PROVE  LET after == ApplyStep(view, past, s) IN
         /\ ViewIsTrue(after, past)
         /\ ~after.raised =>
              /\ ~view.raised
              /\ \A j : Shown(after, j) <=> Shown(view, j) \/ j = s
              /\ \A c \in past[s].commands : ~Known(view.commands[c])
              /\ \A c \in Commands \ past[s].commands : after.commands[c] = view.commands[c]
         /\ after.raised => \A j : Shown(after, j) => Shown(view, j) \/ j = s
         /\ \A j : Shown(view, j) => Shown(after, j)
<1> DEFINE e == past[s]
           after == ApplyStep(view, past, s)
<1>1. s \in Positions /\ s # None /\ e \in Events /\ e.commands \in SUBSET Commands
  BY EventTyped, EventFields
<1>2. view \in Views
  BY DEF ViewIsTrue
<1>3. CASE \E c \in e.commands : Known(view.commands[c])
  <2>1. after = Raise(view)
    BY <1>3 DEF ApplyStep
  <2> QED
    BY <2>1, RaiseRaises
<1>4. CASE \A c \in e.commands : ~Known(view.commands[c])
  <2> DEFINE mid == [view EXCEPT !.commands =
                       [c \in Commands |->
                          IF c \in e.commands THEN Issued(c, s) ELSE view.commands[c]]]
  <2>1. after = Show(mid, s)
    BY <1>2, <1>4 DEF ApplyStep, Views
  <2>2. \A c \in Commands :
          /\ Issued(c, s) \in CommandStates
          /\ Issued(c, s).issued = s /\ Issued(c, s).attempt = None /\ Issued(c, s).outcome = None
    BY <1>1 DEF Issued, UnissuedCommand, CommandStates
  <2>3. /\ mid \in Views /\ mid.raised = view.raised /\ mid.visible = view.visible
        /\ \A c \in Commands :
             mid.commands[c] = IF c \in e.commands THEN Issued(c, s) ELSE view.commands[c]
    BY <1>2, <2>2 DEF Views
  <2>4. \A j : Shown(mid, j) <=> Shown(view, j)
    BY <2>3 DEF Shown
  <2> HIDE DEF mid
  <2>5. /\ after \in Views /\ after.commands = mid.commands /\ after.raised = view.raised
        /\ \A j : Shown(after, j) <=> Shown(view, j) \/ j = s
    BY <1>1, <2>1, <2>3, <2>4, ShowShows
  <2> HIDE DEF after
  <2>6. ASSUME NEW c \in Commands
        PROVE  StateIsTrue(after, past, c)
    <3>1. StateIsTrue(view, past, c)
      BY DEF ViewIsTrue
    <3>2. CASE c \in e.commands
      <4>1. /\ view.commands[c].issued = None
            /\ view.commands[c].attempt = None /\ view.commands[c].outcome = None
        BY <1>4, <3>1, <3>2 DEF StateIsTrue, Known, Terminal
      <4>2. after.commands[c] = Issued(c, s)
        BY <2>3, <2>5, <3>2
      <4>3. None \notin Positions
        BY BoundAssumption DEF Positions, None
      <4> QED
        BY <1>1, <2>2, <2>5, <3>1, <3>2, <4>1, <4>2, <4>3 DEF StateIsTrue, Known, Terminal
    <3>3. CASE c \notin e.commands
      <4>1. after.commands[c] = view.commands[c]
        BY <2>3, <2>5, <3>3
      <4> QED
        BY <2>5, <3>1, <3>3, <4>1 DEF StateIsTrue
    <3> QED
      BY <3>2, <3>3
  <2>7. \A c \in Commands \ e.commands : after.commands[c] = view.commands[c]
    BY <2>3, <2>5
  <2> QED
    BY <1>4, <2>5, <2>6, <2>7 DEF ViewIsTrue, after
<1> QED
  BY <1>3, <1>4
-------------------------------------------------------------------------------
\* The follow-ups of an external fact.

\* Event i is one a frame on fact t that looks as far as `until` may have to show.
IsFollowUp(view, past, t, until, i) ==
  /\ i \in t + 1..until
  /\ past[i].kind \in {"attempt", "outcome"}
  /\ Known(view.commands[past[i].command])

\* The view with follow-ups is true and has what it had, every follow-up it shows
\* comes with the follow-ups before it, and it shows them all, or enough of them
\* that no command it knows is out.
WaitIsDone(view, past, t, operational, until, n, wait) ==
  /\ ViewIsTrue(wait.view, past)
  /\ wait.complete \in BOOLEAN
  /\ \A j : Shown(view, j) => Shown(wait.view, j)
  /\ \A c \in Commands : wait.view.commands[c].issued = view.commands[c].issued
  /\ \A j : Shown(wait.view, j) =>
       \/ Shown(view, j)
       \/ /\ IsFollowUp(view, past, t, until, j)
          /\ \A i \in t + 1..j : IsFollowUp(view, past, t, until, i) => Shown(wait.view, i)
  /\ wait.complete => WaitedBatchComplete(wait.view, operational)
  /\ ~wait.complete /\ ~wait.view.raised =>
       \A i \in 1..n : IsFollowUp(view, past, t, until, i) => Shown(wait.view, i)

\* In particular those of a log.
LEMMA FollowUpsOfLog ==
  ASSUME NEW past, IsLog(past), NEW view, NEW t \in Nat, NEW operational, NEW until \in Nat
  PROVE  LET at(n) == WaitAt(view, past, t, operational, until, n) IN
         /\ WithWaitedFollowUps(view, past, t, operational, until) = at(Len(past)).view
         /\ at(0) = [view |-> view, complete |-> FALSE]
         /\ \A n \in 1..Len(past) :
              at(n) = IncludeFollowUp(at(n - 1), past, n, t, operational, until)
<1>1. past \in Seq(Events)
  BY DEF IsLog
<1> QED
  BY <1>1, FollowUpsAreChain

\* So does the walk.
LEMMA WalkOfLog ==
  ASSUME NEW past, IsLog(past), NEW operational
  PROVE  /\ DecisionWalk(past, operational) = WalkAt(past, operational, Len(past))
         /\ WalkAt(past, operational, 0) = NewWalk
         /\ \A n \in 1..Len(past) :
              WalkAt(past, operational, n) = WalkOn(WalkAt(past, operational, n - 1), past, n, operational)
<1>1. past \in Seq(Events)
  BY DEF IsLog
<1> QED
  BY <1>1, WalkIsChain

\* Once the follow-ups are included, the view shows every one that was waited for.
LEMMA FollowUpsAreShown ==
  ASSUME NEW past, IsLog(past), NEW view, ViewIsTrue(view, past),
         NEW t \in Nat, NEW operational, NEW until \in Nat
  PROVE  LET at(n) == WaitAt(view, past, t, operational, until, n) IN
         /\ WithWaitedFollowUps(view, past, t, operational, until) = at(Len(past)).view
         /\ WaitIsDone(view, past, t, operational, until, Len(past), at(Len(past)))
         /\ \A n \in 0..Len(past) : WaitIsDone(view, past, t, operational, until, n, at(n))
<1> DEFINE at(n) == WaitAt(view, past, t, operational, until, n)
<1>1. past \in Seq(Events) /\ Len(past) \in Nat /\ DOMAIN past = 1..Len(past)
  BY DEF IsLog
<1>2. /\ WithWaitedFollowUps(view, past, t, operational, until) = at(Len(past)).view
      /\ at(0) = [view |-> view, complete |-> FALSE]
      /\ \A n \in 1..Len(past) : at(n) = IncludeFollowUp(at(n - 1), past, n, t, operational, until)
  <2>1. past \in Seq(Events)
    BY <1>1
  <2> QED
    BY <2>1, FollowUpsAreChain
<1> HIDE DEF at
<1> DEFINE Done(n) == WaitIsDone(view, past, t, operational, until, n, at(n))
           S == {n \in 0..Len(past) : Done(n)}
<1>3. 0 \in S
  <2>1. PICK wait : wait = at(0)
    OBVIOUS
  <2>2. wait.view = view /\ wait.complete = FALSE
    BY <1>2, <2>1
  <2>3. \A i \in 1..0 : FALSE
    OBVIOUS
  <2>4. Done(0)
    BY <2>1, <2>2, <2>3 DEF WaitIsDone
  <2> QED
    BY <1>1, <2>4
<1>4. ASSUME NEW n \in 0..Len(past) - 1, n \in S
      PROVE  n + 1 \in S
  <2>0. PICK i : i = n + 1
    OBVIOUS
  <2>00. PICK wait, after : wait = at(n) /\ after = at(i)
    OBVIOUS
  <2> DEFINE new(j) == IsFollowUp(view, past, t, until, j)
  <2>1. i \in 1..Len(past) /\ i \in 0..Len(past) /\ i - 1 = n /\ i \in DOMAIN past /\ n \in Nat
    BY <1>1, <2>0
  <2>2. after = IncludeFollowUp(wait, past, i, t, operational, until)
    BY <1>2, <2>1, <2>00
  <2>3. /\ ViewIsTrue(wait.view, past)
        /\ wait.complete \in BOOLEAN
        /\ \A j : Shown(view, j) => Shown(wait.view, j)
        /\ \A c \in Commands : wait.view.commands[c].issued = view.commands[c].issued
        /\ \A j : Shown(wait.view, j) =>
             \/ Shown(view, j)
             \/ new(j) /\ \A k \in t + 1..j : new(k) => Shown(wait.view, k)
        /\ wait.complete => WaitedBatchComplete(wait.view, operational)
        /\ ~wait.complete /\ ~wait.view.raised =>
             \A k \in 1..n : new(k) => Shown(wait.view, k)
    BY <1>4, <2>00 DEF WaitIsDone
  <2>4. \A j \in 1..i : j \in 1..n \/ j = i
    BY <2>0, <2>1
  <2>5. /\ past[i] \in Events
        /\ AboutCommand(past[i]) => past[i].command \in Commands
    BY <2>1, EventTyped, EventFields
  <2>6. CASE \/ wait.complete \/ wait.view.raised
             \/ i \notin t + 1..until
             \/ Shown(wait.view, i)
             \/ ~IsWaitedFollowUp(wait.view, past[i])
    <3>1. after = wait
      BY <2>2, <2>6 DEF IncludeFollowUp
    <3>2. ASSUME ~wait.complete, ~wait.view.raised, new(i)
          PROVE  Shown(wait.view, i)
      <4>1. past[i].command \in Commands
        BY <2>5, <3>2 DEF IsFollowUp, AboutCommand
      <4>2. IsWaitedFollowUp(wait.view, past[i])
        BY <2>3, <3>2, <4>1 DEF IsFollowUp, IsWaitedFollowUp, Known
      <4> QED
        BY <2>6, <3>2, <4>2 DEF IsFollowUp
    <3> HIDE DEF new
    <3>3. ~wait.complete /\ ~wait.view.raised => \A k \in 1..i : new(k) => Shown(wait.view, k)
      BY <2>3, <2>4, <3>2
    <3>4. Done(i)
      BY <2>00, <2>3, <3>1, <3>3 DEF WaitIsDone, new
    <3> QED
      BY <2>0, <2>1, <3>4
  <2>7. CASE /\ ~wait.complete /\ ~wait.view.raised
             /\ i \in t + 1..until
             /\ ~Shown(wait.view, i)
             /\ IsWaitedFollowUp(wait.view, past[i])
    <3>0. PICK shown : shown = ApplyRegular(wait.view, past, i)
      OBVIOUS
    <3>1. after.view = shown /\ after.complete = WaitedBatchComplete(shown, operational)
      BY <2>2, <2>7, <3>0 DEF IncludeFollowUp
    <3>2. past[i].kind # "step" /\ AboutCommand(past[i])
      BY <2>7 DEF IsWaitedFollowUp, AboutCommand
    <3>3. /\ ViewIsTrue(shown, past)
          /\ ~shown.raised => \A j : Shown(shown, j) <=> Shown(wait.view, j) \/ j = i
          /\ shown.raised => \A j : Shown(shown, j) => Shown(wait.view, j) \/ j = i
          /\ \A j : Shown(wait.view, j) => Shown(shown, j)
          /\ \A c \in Commands : shown.commands[c].issued = wait.view.commands[c].issued
      BY <2>1, <2>3, <2>7, <3>0, <3>2, ApplyRegularIsTrue
    <3>4. shown.raised \in BOOLEAN /\ WaitedBatchComplete(shown, operational) \in BOOLEAN
      BY <3>3 DEF ViewIsTrue, Views, WaitedBatchComplete
    <3>5. new(i)
      BY <2>3, <2>5, <2>7, <3>2 DEF IsFollowUp, IsWaitedFollowUp, Known
    <3> HIDE DEF new
    <3>6. \A k \in t + 1..i : k \in 1..n \/ k = i
      BY <2>0, <2>1
    <3>7. \A j : Shown(shown, j) =>
            \/ Shown(view, j)
            \/ new(j) /\ \A k \in t + 1..j : new(k) => Shown(shown, k)
      BY <2>3, <2>7, <3>3, <3>4, <3>5, <3>6
    <3>8. ~after.complete /\ ~shown.raised => \A k \in 1..i : new(k) => Shown(shown, k)
      BY <2>3, <2>4, <2>7, <3>3
    <3>9. Done(i)
      BY <2>00, <2>3, <3>1, <3>3, <3>4, <3>7, <3>8 DEF WaitIsDone, new
    <3> QED
      BY <2>0, <2>1, <3>9
  <2> QED
    BY <2>3, <2>6, <2>7
<1> HIDE DEF S
<1>5. Len(past) \in 0..Len(past) /\ 0..Len(past) \subseteq S
  BY <1>1, <1>3, <1>4, Ops!UpTo
<1> QED
  BY <1>2, <1>5 DEF S, at
-------------------------------------------------------------------------------
\* The operational view is true, and unless it raised it shows every event.
LEMMA OperationalIsTrue ==
  ASSUME NEW past, IsLog(past)
  PROVE  /\ ViewIsTrue(Operational(past), past)
         /\ ~Operational(past).raised => \A i \in DOMAIN past : Shown(Operational(past), i)
<1> DEFINE at(n) == OpsView(past, n)
<1>1. past \in Seq(Events) /\ Len(past) \in Nat /\ DOMAIN past = 1..Len(past)
  BY DEF IsLog
<1>2. /\ Operational(past) = at(Len(past))
      /\ at(0) = EmptyView
      /\ \A n \in 1..Len(past) : at(n) = ApplyEvent(at(n - 1), past, n)
  <2>1. past \in Seq(Events)
    BY <1>1
  <2> QED
    BY <2>1, OperationalIsChain
<1> HIDE DEF at
<1> DEFINE Done(n) == /\ ViewIsTrue(at(n), past)
                      /\ \A j : Shown(at(n), j) => j \in 1..n
                      /\ ~at(n).raised => \A j \in 1..n : Shown(at(n), j)
           S == {n \in 0..Len(past) : Done(n)}
<1>3. 0 \in S
  <2>1. Done(0)
    BY <1>2, EmptyViewIsTrue
  <2> QED
    BY <1>1, <2>1
<1>4. ASSUME NEW n \in 0..Len(past) - 1, n \in S
      PROVE  n + 1 \in S
  <2>1. PICK i : i = n + 1
    OBVIOUS
  <2>2. PICK view, after : view = at(n) /\ after = at(i)
    OBVIOUS
  <2>3. i \in 1..Len(past) /\ i \in 0..Len(past) /\ i - 1 = n /\ i \in DOMAIN past /\ n \in Nat
    BY <1>1, <2>1
  <2>4. after = ApplyEvent(view, past, i)
    BY <1>2, <2>2, <2>3
  <2>5. /\ ViewIsTrue(view, past)
        /\ \A j : Shown(view, j) => j \in 1..n
        /\ ~view.raised => \A j \in 1..n : Shown(view, j)
    BY <1>4, <2>2
  <2>6. /\ \A j \in 1..n : j \in 1..i
        /\ i \in 1..i /\ i \notin 1..n
        /\ \A j \in 1..i : j \in 1..n \/ j = i
    BY <2>1, <2>3
  <2>7. view.raised \in BOOLEAN
    BY <2>5 DEF ViewIsTrue, Views
  <2>8. CASE view.raised
    <3>1. after = view
      BY <2>4, <2>8 DEF ApplyEvent
    <3>2. Done(i)
      BY <2>2, <2>5, <2>6, <2>8, <3>1
    <3> QED
      BY <2>1, <2>3, <3>2
  <2>9. CASE ~view.raised
    <3>1. /\ ViewIsTrue(after, past)
          /\ \A j : Shown(after, j) => Shown(view, j) \/ j = i
          /\ ~after.raised => \A j : Shown(after, j) <=> Shown(view, j) \/ j = i
      <4>1. CASE past[i].kind = "step"
        <5>1. after = ApplyStep(view, past, i)
          BY <2>4, <2>9, <4>1 DEF ApplyEvent
        <5>2. /\ ViewIsTrue(after, past)
              /\ ~after.raised => \A j : Shown(after, j) <=> Shown(view, j) \/ j = i
              /\ after.raised => \A j : Shown(after, j) => Shown(view, j) \/ j = i
          BY <2>3, <2>5, <4>1, <5>1, ApplyStepIsTrue
        <5>3. after.raised \in BOOLEAN
          BY <5>2 DEF ViewIsTrue, Views
        <5> QED
          BY <5>2, <5>3
      <4>2. CASE past[i].kind # "step"
        <5>1. after = ApplyRegular(view, past, i)
          BY <2>4, <2>9, <4>2 DEF ApplyEvent
        <5>2. /\ ViewIsTrue(after, past)
              /\ ~after.raised => \A j : Shown(after, j) <=> Shown(view, j) \/ j = i
              /\ after.raised => \A j : Shown(after, j) => Shown(view, j) \/ j = i
          BY <2>3, <2>5, <2>6, <4>2, <5>1, ApplyRegularIsTrue
        <5>3. after.raised \in BOOLEAN
          BY <5>2 DEF ViewIsTrue, Views
        <5> QED
          BY <5>2, <5>3
      <4> QED
        BY <4>1, <4>2
    <3>2. Done(i)
      BY <2>2, <2>5, <2>6, <2>9, <3>1
    <3> QED
      BY <2>1, <2>3, <3>2
  <2> QED
    BY <2>7, <2>8, <2>9
<1> HIDE DEF S
<1>5. Len(past) \in 0..Len(past) /\ 0..Len(past) \subseteq S
  BY <1>1, <1>3, <1>4, Ops!UpTo
<1> QED
  BY <1>1, <1>2, <1>5 DEF S

-------------------------------------------------------------------------------
\* The walk over the decisions.

\* An outcome shown ahead of the walk, which has come to event n, comes with the
\* earlier outcomes of its group.
GroupsInOrder(view, past, n) ==
  \A i, j \in DOMAIN past :
    /\ n < i /\ i < j
    /\ past[i].kind = "outcome" /\ past[j].kind = "outcome"
    /\ view.commands[past[i].command].issued = view.commands[past[j].command].issued
    /\ Shown(view, j)
    => Shown(view, i)

\* Every command whose outcome a true view shows is known, with that outcome.
LEMMA ShownOutcome ==
  ASSUME NEW past, IsLog(past), NEW view, ViewIsTrue(view, past),
         NEW j \in DOMAIN past, Shown(view, j), past[j].kind = "outcome"
  PROVE  /\ past[j].command \in Commands
         /\ view.commands[past[j].command].outcome = j
         /\ Known(view.commands[past[j].command])
<1>1. past[j].command \in Commands /\ j \in Positions /\ j # None
  BY EventTyped, EventFields DEF AboutCommand
<1>2. StateIsTrue(view, past, past[j].command)
  BY <1>1 DEF ViewIsTrue
<1>3. view.commands[past[j].command].outcome = j
  BY <1>1, <1>2 DEF StateIsTrue
<1> QED
  BY <1>1, <1>2, <1>3 DEF StateIsTrue, Terminal

\* The view of a decision on t: what was seen on the way to t, and follow-ups.
FollowedUp(view, past, t, until, after) ==
  /\ ViewIsTrue(after, past)
  /\ \A j : Shown(view, j) => Shown(after, j)
  /\ \A c \in Commands : after.commands[c].issued = view.commands[c].issued
  /\ \A j : Shown(after, j) =>
       \/ Shown(view, j)
       \/ /\ IsFollowUp(view, past, t, until, j)
          /\ \A i \in t + 1..j : IsFollowUp(view, past, t, until, i) => Shown(after, i)

\* The view a decision is made on is true of the log, its follow-ups included.
LEMMA DecisionViewIsTrue ==
  ASSUME NEW past, IsLog(past), NEW view, ViewIsTrue(view, past),
         NEW t \in DOMAIN past, NEW operational, NEW until \in Nat
  PROVE  FollowedUp(view, past, t, until, DecisionView(view, past, t, operational, until))
<1>1. t \in Nat
  BY EventTyped
<1>2. CASE IsExternalDecisionFact(past, t)
  <2>1. DecisionView(view, past, t, operational, until)
          = WithWaitedFollowUps(view, past, t, operational, until)
    BY <1>2 DEF DecisionView
  <2>2. PICK wait : wait = WaitAt(view, past, t, operational, until, Len(past))
    OBVIOUS
  <2>3. /\ WithWaitedFollowUps(view, past, t, operational, until) = wait.view
        /\ WaitIsDone(view, past, t, operational, until, Len(past), wait)
    BY <1>1, <2>2, FollowUpsAreShown
  <2> QED
    BY <2>1, <2>3 DEF WaitIsDone, FollowedUp
<1>3. CASE ~IsExternalDecisionFact(past, t)
  <2>1. DecisionView(view, past, t, operational, until) = view
    BY <1>3 DEF DecisionView
  <2> QED
    BY <2>1 DEF FollowedUp
<1> QED
  BY <1>2, <1>3

\* Including follow-ups leaves the outcomes of a parallel group in order.
LEMMA FollowUpsKeepOrder ==
  ASSUME NEW past, IsLog(past), NEW view, ViewIsTrue(view, past), NEW t \in DOMAIN past,
         GroupsInOrder(view, past, t),
         NEW until \in Nat, NEW after, FollowedUp(view, past, t, until, after)
  PROVE  GroupsInOrder(after, past, t)
<1> SUFFICES ASSUME NEW i \in DOMAIN past, NEW j \in DOMAIN past, t < i, i < j,
                    past[i].kind = "outcome", past[j].kind = "outcome",
                    after.commands[past[i].command].issued = after.commands[past[j].command].issued,
                    Shown(after, j)
             PROVE  Shown(after, i)
  BY DEF GroupsInOrder
<1>1. past[i].command \in Commands /\ past[j].command \in Commands
  BY EventTyped, EventFields DEF AboutCommand
<1>2. view.commands[past[i].command].issued = view.commands[past[j].command].issued
  BY <1>1 DEF FollowedUp
<1>3. CASE Shown(view, j)
  BY <1>2, <1>3 DEF GroupsInOrder, FollowedUp
<1>4. CASE ~Shown(view, j)
  <2>1. /\ IsFollowUp(view, past, t, until, j)
        /\ \A k \in t + 1..j : IsFollowUp(view, past, t, until, k) => Shown(after, k)
    BY <1>4 DEF FollowedUp
  <2>2. t \in Nat /\ i \in Nat /\ j \in Nat
    BY EventTyped
  <2>3. i \in t + 1..j /\ i \in t + 1..until
    BY <2>1, <2>2 DEF IsFollowUp
  <2>4. IsFollowUp(view, past, t, until, i)
    BY <1>2, <2>1, <2>3 DEF IsFollowUp, Known
  <2> QED
    BY <2>1, <2>3, <2>4
<1> QED
  BY <1>3, <1>4

\* So does a Step.
LEMMA StepKeepsOrder ==
  ASSUME NEW past, IsLog(past), NEW view, ViewIsTrue(view, past), NEW t \in DOMAIN past,
         GroupsInOrder(view, past, t),
         NEW s \in DOMAIN past, past[s].kind = "step", ~ApplyStep(view, past, s).raised
  PROVE  GroupsInOrder(ApplyStep(view, past, s), past, t)
<1>1. PICK after : after = ApplyStep(view, past, s)
  OBVIOUS
<1>2. /\ ViewIsTrue(after, past)
      /\ \A j : Shown(after, j) <=> Shown(view, j) \/ j = s
      /\ \A c \in past[s].commands : ~Known(view.commands[c])
      /\ \A c \in Commands \ past[s].commands : after.commands[c] = view.commands[c]
  BY <1>1, ApplyStepIsTrue
<1> SUFFICES ASSUME NEW i \in DOMAIN past, NEW j \in DOMAIN past, t < i, i < j,
                    past[i].kind = "outcome", past[j].kind = "outcome",
                    after.commands[past[i].command].issued = after.commands[past[j].command].issued,
                    Shown(after, j)
             PROVE  Shown(after, i)
  BY <1>1 DEF GroupsInOrder
<1> DEFINE c == past[i].command
           d == past[j].command
<1>3. Shown(view, j)
  BY <1>2
<1>4. /\ c \in Commands /\ d \in Commands
      /\ Known(view.commands[d])
  BY <1>3, ShownOutcome, EventTyped, EventFields DEF AboutCommand
<1>5. after.commands[d] = view.commands[d]
  BY <1>2, <1>4
<1>6. c \notin past[s].commands
  <2> SUFFICES ASSUME c \in past[s].commands PROVE FALSE
    OBVIOUS
  <2>1. s \in Positions
    BY EventTyped
  <2>2. StateIsTrue(after, past, c) /\ StateIsTrue(view, past, d)
    BY <1>2, <1>4 DEF ViewIsTrue
  <2>3. after.commands[c].issued = s
    BY <1>2, <2>1, <2>2 DEF StateIsTrue
  <2>4. view.commands[d].issued = s
    BY <1>5, <2>3
  <2>5. d \in past[s].commands
    BY <2>1, <2>2, <2>4 DEF StateIsTrue
  <2> QED
    BY <1>2, <1>4, <2>5
<1>7. view.commands[c].issued = view.commands[d].issued
  BY <1>2, <1>4, <1>5, <1>6
<1>8. Shown(view, i)
  BY <1>3, <1>7 DEF GroupsInOrder
<1> QED
  BY <1>2, <1>8

\* So does a regular event, when its outcome was in the log by the trigger.
LEMMA RegularKeepsOrder ==
  ASSUME NEW past, IsLog(past), NEW view, ViewIsTrue(view, past), NEW n \in Nat, NEW t \in Nat,
         n <= t, GroupsInOrder(view, past, n),
         NEW i \in DOMAIN past, past[i].kind # "step", AboutCommand(past[i]) => ~Shown(view, i),
         past[i].kind = "outcome" => i <= t
  PROVE  GroupsInOrder(ApplyRegular(view, past, i), past, t)
<1>1. PICK after : after = ApplyRegular(view, past, i)
  OBVIOUS
<1>2. /\ ViewIsTrue(after, past)
      /\ \A j : Shown(after, j) => Shown(view, j) \/ j = i
      /\ \A j : Shown(view, j) => Shown(after, j)
      /\ \A c \in Commands : after.commands[c].issued = view.commands[c].issued
  <2>1. /\ ViewIsTrue(after, past)
        /\ ~after.raised => \A j : Shown(after, j) <=> Shown(view, j) \/ j = i
        /\ after.raised => \A j : Shown(after, j) => Shown(view, j) \/ j = i
        /\ \A j : Shown(view, j) => Shown(after, j)
        /\ \A c \in Commands : after.commands[c].issued = view.commands[c].issued
    BY <1>1, ApplyRegularIsTrue
  <2>2. after.raised \in BOOLEAN
    BY <2>1 DEF ViewIsTrue, Views
  <2> QED
    BY <2>1, <2>2
<1> SUFFICES ASSUME NEW k \in DOMAIN past, NEW j \in DOMAIN past, t < k, k < j,
                    past[k].kind = "outcome", past[j].kind = "outcome",
                    after.commands[past[k].command].issued = after.commands[past[j].command].issued,
                    Shown(after, j)
             PROVE  Shown(after, k)
  BY <1>1 DEF GroupsInOrder
<1>3. k \in Nat /\ j \in Nat /\ i \in Nat
  BY EventTyped
<1>4. Shown(view, j) /\ n < k
  BY <1>2, <1>3
<1>5. past[k].command \in Commands /\ past[j].command \in Commands
  BY EventTyped, EventFields DEF AboutCommand
<1>6. view.commands[past[k].command].issued = view.commands[past[j].command].issued
  BY <1>2, <1>5
<1> QED
  BY <1>2, <1>4, <1>6 DEF GroupsInOrder
WalkStates ==
  [view : Views, cursor : Nat, applied : SUBSET Positions, next : Positions \cup {None},
   halted : BOOLEAN]

\* After n events, a walk that goes on has shown every event but the steps, and
\* the steps it applied.
WalkIsSound(walk, past, n) ==
  /\ walk \in WalkStates
  /\ ViewIsTrue(walk.view, past)
  /\ ~walk.halted => walk.next = None
  /\ ~walk.halted /\ ~walk.view.raised =>
       /\ \A i \in 1..n : past[i].kind # "step" => Shown(walk.view, i)
       /\ \A s \in walk.applied : Shown(walk.view, s)
       /\ GroupsInOrder(walk.view, past, n)

\* The walk `prior` stops at t, the next trigger, and leaves the walk `after`.
DecidesAt(prior, past, t, operational, after) ==
  LET view == ApplyRegular(prior.view, past, t) IN
  /\ ~prior.halted /\ ~prior.view.raised /\ ~Shown(prior.view, t)
  /\ past[t].kind # "step"
  /\ ~view.raised
  /\ StepsFor(past, t) = {} /\ CancelsFor(past, t) = {}
  /\ RequiresDecision(view, past, t)
  /\ IsExternalDecisionFact(past, t) => ~BlockedByInFlight(operational, past, t)
  /\ after.view = DecisionView(view, past, t, operational, Len(past))
  /\ after.applied = prior.applied /\ after.cursor = prior.cursor
  /\ after.next = t

\* The steps and cancellations of an arrival are events of their kind.
LEMMA ConsumersTyped ==
  ASSUME NEW past, IsLog(past), NEW t
  PROVE  /\ \A s \in StepsFor(past, t) :
              s \in DOMAIN past /\ past[s].kind = "step" /\ s \in Positions
         /\ \A k \in CancelsFor(past, t) :
              k \in DOMAIN past /\ past[k].kind = "cancel" /\ k \in Positions
BY EventTyped DEF StepsFor, CancelsFor, Of

\* Arriving at event t, just applied, keeps the walk sound, whatever consumed t.
LEMMA ArriveIsSound ==
  ASSUME NEW past, IsLog(past), NEW t \in DOMAIN past, past[t].kind # "step",
         NEW here, WalkIsSound(here, past, t), ~here.halted, NEW operational
  PROVE  LET after == Arrive(here, past, t, operational) IN
         /\ WalkIsSound(after, past, t)
         /\ after.next # None =>
              /\ ~here.view.raised
              /\ StepsFor(past, t) = {} /\ CancelsFor(past, t) = {}
              /\ RequiresDecision(here.view, past, t)
              /\ IsExternalDecisionFact(past, t) => ~BlockedByInFlight(operational, past, t)
              /\ after.view = DecisionView(here.view, past, t, operational, Len(past))
              /\ after.applied = here.applied /\ after.cursor = here.cursor
              /\ after.next = t
<1>1. PICK after : after = Arrive(here, past, t, operational)
  OBVIOUS
<1>2. /\ here \in WalkStates /\ ViewIsTrue(here.view, past) /\ here.next = None
      /\ here.view.raised \in BOOLEAN /\ here.halted = FALSE
  BY DEF WalkIsSound, WalkStates, ViewIsTrue, Views
<1>3. t \in Positions /\ t \in Nat /\ Len(past) \in Nat
  BY EventTyped
<1>4. CASE here.view.raised
  <2>1. after = here
    BY <1>1, <1>4 DEF Arrive
  <2> QED
    BY <1>1, <1>2, <2>1
<1>5. CASE ~here.view.raised /\ CancelsFor(past, t) # {}
  <2>1. PICK k \in CancelsFor(past, t) : after = ApplyCancellation(here, past, k)
    BY <1>1, <1>5 DEF Arrive
  <2>2. k \in DOMAIN past /\ past[k].kind = "cancel" /\ k \in Positions
    BY ConsumersTyped
  <2>3. PICK view : view = ApplyRegular(here.view, past, k)
    OBVIOUS
  <2>4. /\ ViewIsTrue(view, past)
        /\ \A j : Shown(here.view, j) => Shown(view, j)
        /\ ~view.raised => Shown(view, k)
    BY <1>2, <2>2, <2>3, ApplyRegularIsTrue DEF AboutCommand
  <2>5. /\ after.view = view
        /\ after.applied = here.applied \cup {k}
        /\ after.halted = FALSE /\ after.next = None
        /\ after \in WalkStates
    <3>1. after = [here EXCEPT !.view = view, !.cursor = @ + 1, !.applied = @ \cup {k}]
      BY <1>2, <2>1, <2>3 DEF ApplyCancellation, WalkStates
    <3>2. view \in Views
      BY <2>4 DEF ViewIsTrue
    <3>3. here.cursor \in Nat /\ here.applied \in SUBSET Positions
      BY <1>2 DEF WalkStates
    <3>4. here.cursor + 1 \in Nat /\ here.applied \cup {k} \in SUBSET Positions
      BY <2>2, <3>3
    <3> QED
      BY <1>2, <3>1, <3>2, <3>4 DEF WalkStates
  <2>6. GroupsInOrder(view, past, t)
    BY <1>2, <1>3, <1>5, <2>2, <2>3, RegularKeepsOrder DEF WalkIsSound, AboutCommand
  <2>7. WalkIsSound(after, past, t)
    BY <1>2, <1>5, <2>4, <2>5, <2>6 DEF WalkIsSound
  <2> QED
    BY <1>1, <2>5, <2>7
<1>6. CASE ~here.view.raised /\ CancelsFor(past, t) = {} /\ StepsFor(past, t) # {}
  <2>1. PICK s \in StepsFor(past, t) : after = ApplyDecision(here, past, t, s, operational)
    BY <1>1, <1>6 DEF Arrive
  <2>2. s \in DOMAIN past /\ past[s].kind = "step" /\ s \in Positions
    BY ConsumersTyped
  <2>3. PICK frame, until : frame = past[s].request.frame /\ until = ShownUntil(past, frame)
    OBVIOUS
  <2>4. until \in Nat
    BY <2>2, <2>3 DEF IsLog, Of, ObservedBy, ShownUntil
  <2>5. PICK view : view = DecisionView(here.view, past, t, operational, until)
    OBVIOUS
  <2>6. FollowedUp(here.view, past, t, until, view)
    BY <1>2, <2>4, <2>5, DecisionViewIsTrue
  <2>7. ViewIsTrue(view, past) /\ \A j : Shown(here.view, j) => Shown(view, j)
    BY <2>6 DEF FollowedUp
  <2>8. GroupsInOrder(view, past, t)
    BY <1>2, <1>6, <2>4, <2>6, FollowUpsKeepOrder DEF WalkIsSound
  <2>9. PICK stepped : stepped = IF SameFrame(here, view, frame, s)
                                 THEN ApplyStep(view, past, s)
                                 ELSE Raise(view)
    OBVIOUS
  <2>10. after = [here EXCEPT !.view = stepped, !.cursor = @ + 1, !.applied = @ \cup {s}]
    BY <2>1, <2>3, <2>5, <2>9 DEF ApplyDecision, Decided
  <2>11. /\ ViewIsTrue(stepped, past)
         /\ ~stepped.raised => /\ \A j : Shown(view, j) => Shown(stepped, j)
                               /\ Shown(stepped, s)
                               /\ GroupsInOrder(stepped, past, t)
    <3>1. CASE SameFrame(here, view, frame, s)
      <4>1. stepped = ApplyStep(view, past, s)
        BY <2>9, <3>1
      <4> QED
        BY <2>2, <2>7, <2>8, <4>1, ApplyStepIsTrue, StepKeepsOrder
    <3>2. CASE ~SameFrame(here, view, frame, s)
      <4>1. stepped = Raise(view)
        BY <2>9, <3>2
      <4> QED
        BY <2>7, <4>1, RaiseRaises
    <3> QED
      BY <3>1, <3>2
  <2>12. /\ after.view = stepped
         /\ after.applied = here.applied \cup {s}
         /\ after.halted = FALSE /\ after.next = None
         /\ after \in WalkStates
    <3>1. stepped \in Views
      BY <2>11 DEF ViewIsTrue
    <3>2. here.cursor \in Nat /\ here.applied \in SUBSET Positions
      BY <1>2 DEF WalkStates
    <3>3. here.cursor + 1 \in Nat /\ here.applied \cup {s} \in SUBSET Positions
      BY <2>2, <3>2
    <3> QED
      BY <1>2, <2>10, <3>1, <3>3 DEF WalkStates
  <2>13. WalkIsSound(after, past, t)
    BY <1>2, <1>6, <2>7, <2>11, <2>12 DEF WalkIsSound
  <2> QED
    BY <1>1, <2>12, <2>13
<1>7. CASE ~here.view.raised /\ CancelsFor(past, t) = {} /\ StepsFor(past, t) = {}
  <2>1. after = ConsiderTrigger(here, past, t, operational)
    BY <1>1, <1>7 DEF Arrive
  <2>2. CASE ~RequiresDecision(here.view, past, t)
    BY <1>1, <1>2, <2>1, <2>2 DEF ConsiderTrigger
  <2>3. CASE /\ RequiresDecision(here.view, past, t)
             /\ IsExternalDecisionFact(past, t)
             /\ BlockedByInFlight(operational, past, t)
    <3>1. after = [here EXCEPT !.halted = TRUE]
      BY <2>1, <2>3 DEF ConsiderTrigger
    <3>2. /\ after.halted = TRUE /\ after.next = None /\ after.view = here.view
          /\ after \in WalkStates
      BY <1>2, <3>1 DEF WalkStates
    <3> QED
      BY <1>1, <1>2, <3>2 DEF WalkIsSound
  <2>4. CASE /\ RequiresDecision(here.view, past, t)
             /\ IsExternalDecisionFact(past, t) => ~BlockedByInFlight(operational, past, t)
    <3>1. PICK view : view = DecisionView(here.view, past, t, operational, Len(past))
      OBVIOUS
    <3>2. after = [here EXCEPT !.halted = TRUE, !.next = t, !.view = view]
      BY <2>1, <2>4, <3>1 DEF ConsiderTrigger
    <3>3. ViewIsTrue(view, past)
      BY <1>2, <1>3, <3>1, DecisionViewIsTrue DEF FollowedUp
    <3>4. /\ after.halted = TRUE /\ after.next = t /\ after.view = view
          /\ after.applied = here.applied /\ after.cursor = here.cursor
          /\ after \in WalkStates
      BY <1>2, <1>3, <3>2, <3>3 DEF WalkStates, ViewIsTrue
    <3>5. WalkIsSound(after, past, t)
      BY <3>3, <3>4 DEF WalkIsSound
    <3> QED
      BY <1>1, <1>7, <2>4, <3>1, <3>4, <3>5
  <2> QED
    BY <2>2, <2>3, <2>4
<1> QED
  BY <1>2, <1>4, <1>5, <1>6, <1>7
\* One more event, walked.
LEMMA WalkOnIsSound ==
  ASSUME NEW past, IsLog(past), NEW n \in Nat, n + 1 \in DOMAIN past,
         NEW walk, WalkIsSound(walk, past, n), NEW operational
  PROVE  LET after == WalkOn(walk, past, n + 1, operational) IN
         /\ WalkIsSound(after, past, n + 1)
         /\ after.next # None => \/ after = walk
                                 \/ DecidesAt(walk, past, n + 1, operational, after)
<1>1. PICK i : i = n + 1
  OBVIOUS
<1>2. PICK after : after = WalkOn(walk, past, i, operational)
  OBVIOUS
<1>3. /\ i \in DOMAIN past /\ i \in Nat /\ n < i /\ n <= i
      /\ \A j \in 1..i : j \in 1..n \/ j = i
  BY <1>1
<1>4. /\ walk \in WalkStates /\ ViewIsTrue(walk.view, past)
      /\ walk.halted \in BOOLEAN /\ walk.view.raised \in BOOLEAN
      /\ walk.next \in Positions \cup {None}
  BY DEF WalkIsSound, WalkStates, ViewIsTrue, Views
<1>5. CASE walk.halted \/ walk.view.raised \/ past[i].kind = "step" \/ Shown(walk.view, i)
  <2>1. after = walk
    BY <1>2, <1>5 DEF WalkOn
  <2>2. GroupsInOrder(walk.view, past, n) => GroupsInOrder(walk.view, past, i)
    <3>1. \A j \in DOMAIN past : i < j => n < j
      BY <1>3, EventTyped
    <3> QED
      BY <3>1 DEF GroupsInOrder
  <2>3. WalkIsSound(walk, past, i)
    BY <1>3, <1>5, <2>2 DEF WalkIsSound
  <2> QED
    BY <1>1, <1>2, <2>1, <2>3
<1>6. CASE ~walk.halted /\ ~walk.view.raised /\ past[i].kind # "step" /\ ~Shown(walk.view, i)
  <2>1. PICK view : view = ApplyRegular(walk.view, past, i)
    OBVIOUS
  <2>2. PICK here : here = [walk EXCEPT !.view = view]
    OBVIOUS
  <2>3. after = Arrive(here, past, i, operational)
    BY <1>2, <1>4, <1>6, <2>1, <2>2 DEF WalkOn, WalkStates
  <2>4. /\ ViewIsTrue(view, past)
        /\ ~view.raised => Shown(view, i)
        /\ \A j : Shown(walk.view, j) => Shown(view, j)
    BY <1>3, <1>4, <1>6, <2>1, ApplyRegularIsTrue
  <2>5. GroupsInOrder(view, past, i)
    BY <1>3, <1>4, <1>6, <2>1, RegularKeepsOrder DEF WalkIsSound
  <2>6. /\ here \in WalkStates /\ here.view = view /\ here.applied = walk.applied
        /\ here.next = None /\ here.halted = FALSE /\ here.cursor = walk.cursor
    BY <1>4, <1>6, <2>2, <2>4 DEF WalkIsSound, WalkStates, ViewIsTrue
  <2>7. WalkIsSound(here, past, i)
    BY <1>3, <1>6, <2>4, <2>5, <2>6 DEF WalkIsSound
  <2>8. /\ WalkIsSound(after, past, i)
        /\ after.next # None =>
              /\ ~here.view.raised
              /\ StepsFor(past, i) = {} /\ CancelsFor(past, i) = {}
              /\ RequiresDecision(here.view, past, i)
              /\ IsExternalDecisionFact(past, i) => ~BlockedByInFlight(operational, past, i)
              /\ after.view = DecisionView(here.view, past, i, operational, Len(past))
              /\ after.applied = here.applied /\ after.cursor = here.cursor
              /\ after.next = i
    BY <1>3, <1>6, <2>3, <2>6, <2>7, ArriveIsSound
  <2>9. after.next # None => DecidesAt(walk, past, i, operational, after)
    BY <1>6, <2>1, <2>6, <2>8 DEF DecidesAt
  <2> QED
    BY <1>1, <1>2, <2>8, <2>9
<1> QED
  BY <1>4, <1>5, <1>6

\* The walk over the whole log is sound, and stops at a trigger as DecidesAt says.
LEMMA WalkIsSoundAtLast ==
  ASSUME NEW past, IsLog(past), NEW operational
  PROVE  LET final == DecisionWalk(past, operational) IN
         /\ final \in WalkStates
         /\ final.next # None =>
              /\ final.next \in DOMAIN past
              /\ \E prior : /\ WalkIsSound(prior, past, final.next - 1)
                            /\ DecidesAt(prior, past, final.next, operational, final)
<1> DEFINE at(n) == WalkAt(past, operational, n)
<1>1. past \in Seq(Events) /\ Len(past) \in Nat /\ DOMAIN past = 1..Len(past)
  BY DEF IsLog
<1>2. /\ DecisionWalk(past, operational) = at(Len(past))
      /\ at(0) = NewWalk
      /\ \A n \in 1..Len(past) : at(n) = WalkOn(at(n - 1), past, n, operational)
  <2>1. past \in Seq(Events)
    BY <1>1
  <2> QED
    BY <2>1, WalkIsChain
<1> HIDE DEF at
<1> DEFINE Stopped(walk) ==
             walk.next # None =>
               /\ walk.next \in DOMAIN past
               /\ \E prior : /\ WalkIsSound(prior, past, walk.next - 1)
                             /\ DecidesAt(prior, past, walk.next, operational, walk)
           S == {n \in 0..Len(past) : WalkIsSound(at(n), past, n) /\ Stopped(at(n))}
<1>3. 0 \in S
  <2>1. NewWalk \in WalkStates
    BY EmptyViewIsTrue DEF NewWalk, WalkStates, ViewIsTrue
  <2>2. /\ NewWalk.view = EmptyView /\ NewWalk.next = None
        /\ NewWalk.halted = FALSE /\ NewWalk.applied = {}
    BY DEF NewWalk
  <2>3. \A i \in 1..0 : FALSE
    OBVIOUS
  <2>4. GroupsInOrder(EmptyView, past, 0)
    BY EmptyViewIsTrue DEF GroupsInOrder
  <2>5. WalkIsSound(NewWalk, past, 0)
    BY <2>1, <2>2, <2>3, <2>4, EmptyViewIsTrue DEF WalkIsSound
  <2> QED
    BY <1>1, <1>2, <2>2, <2>5
<1>4. ASSUME NEW n \in 0..Len(past) - 1, n \in S
      PROVE  n + 1 \in S
  <2>1. PICK walk, after : walk = at(n) /\ after = at(n + 1)
    OBVIOUS
  <2>2. /\ n \in Nat /\ n + 1 \in 1..Len(past) /\ n + 1 \in 0..Len(past)
        /\ (n + 1) - 1 = n /\ n + 1 \in DOMAIN past
    BY <1>1
  <2>3. after = WalkOn(walk, past, n + 1, operational)
    BY <1>2, <2>1, <2>2
  <2>4. WalkIsSound(walk, past, n) /\ Stopped(walk)
    BY <1>4, <2>1
  <2>5. /\ WalkIsSound(after, past, n + 1)
        /\ after.next # None => \/ after = walk
                                \/ DecidesAt(walk, past, n + 1, operational, after)
    BY <2>2, <2>3, <2>4, WalkOnIsSound
  <2>6. DecidesAt(walk, past, n + 1, operational, after) => after.next = n + 1
    BY DEF DecidesAt
  <2>7. Stopped(after)
    <3>1. CASE after.next = None
      BY <3>1
    <3>2. CASE after = walk
      BY <2>4, <3>2
    <3>3. CASE DecidesAt(walk, past, n + 1, operational, after)
      BY <2>2, <2>4, <2>6, <3>3
    <3> QED
      BY <2>5, <3>1, <3>2, <3>3
  <2> HIDE DEF Stopped
  <2> QED
    BY <2>1, <2>2, <2>5, <2>7
<1> HIDE DEF S
<1>5. Len(past) \in 0..Len(past) /\ 0..Len(past) \subseteq S
  BY <1>1, <1>3, <1>4, Ops!UpTo
<1>6. WalkIsSound(at(Len(past)), past, Len(past)) /\ Stopped(at(Len(past)))
  BY <1>5 DEF S
<1> QED
  BY <1>2, <1>6 DEF WalkIsSound

-------------------------------------------------------------------------------
\* The next decision.

\* `view` is what the decision on trigger t is taken in, before follow-ups.
IsDecidedIn(view, past, t) ==
  /\ t \in DOMAIN past /\ t \in Positions
  /\ ViewIsTrue(view, past)
  /\ \A s \in Of(past, "step") : Shown(view, s)
  /\ \A i \in 1..t : past[i].kind # "step" => Shown(view, i)
  /\ past[t].kind = "outcome" =>
       \A j \in DOMAIN past :
         /\ t < j /\ past[j].kind = "outcome"
         /\ view.commands[past[t].command].issued = view.commands[past[j].command].issued
         => ~Shown(view, j)
  /\ RequiresDecision(view, past, t)
  /\ IsExternalDecisionFact(past, t) => ~BlockedByInFlight(Operational(past), past, t)

\* A next decision is one its view requires, and its frame shows that view and
\* the follow-ups.
LEMMA NextIsDecided ==
  ASSUME NEW past, IsLog(past), ~Projection(past).raised, Projection(past).next # None
  PROVE  /\ \A t \in DOMAIN past : StepsFor(past, t) # {} => t # Projection(past).next
         /\ \E view :
              /\ IsDecidedIn(view, past, Projection(past).next)
              /\ Projection(past).frame.basis =
                   DecisionView(view, past, Projection(past).next,
                                Operational(past), Len(past)).visible
              /\ ~DecisionView(view, past, Projection(past).next,
                               Operational(past), Len(past)).raised
<1>1. PICK operational, final : /\ operational = Operational(past)
                                /\ final = DecisionWalk(past, operational)
  OBVIOUS
<1>2. /\ ~final.view.raised
      /\ Of(past, "step") \subseteq final.applied
      /\ Projection(past).next = final.next
      /\ Projection(past).frame.basis = final.view.visible
  BY <1>1 DEF Projection, Project, ProjectionOf
<1>3. PICK t : t = final.next
  OBVIOUS
<1>4. /\ t \in DOMAIN past
      /\ \E prior : /\ WalkIsSound(prior, past, t - 1)
                    /\ DecidesAt(prior, past, t, operational, final)
  BY <1>1, <1>2, <1>3, WalkIsSoundAtLast
<1>5. PICK prior : /\ WalkIsSound(prior, past, t - 1)
                   /\ DecidesAt(prior, past, t, operational, final)
  BY <1>4
<1>6. PICK view : view = ApplyRegular(prior.view, past, t)
  OBVIOUS
<1>7. /\ ~prior.halted /\ ~prior.view.raised /\ ~Shown(prior.view, t)
      /\ past[t].kind # "step"
      /\ ~view.raised
      /\ StepsFor(past, t) = {}
      /\ RequiresDecision(view, past, t)
      /\ IsExternalDecisionFact(past, t) => ~BlockedByInFlight(operational, past, t)
      /\ final.view = DecisionView(view, past, t, operational, Len(past))
      /\ final.applied = prior.applied
  BY <1>5, <1>6 DEF DecidesAt
<1>8. /\ ViewIsTrue(prior.view, past)
      /\ \A i \in 1..t - 1 : past[i].kind # "step" => Shown(prior.view, i)
      /\ \A s \in prior.applied : Shown(prior.view, s)
      /\ GroupsInOrder(prior.view, past, t - 1)
  BY <1>5, <1>7 DEF WalkIsSound
<1>9. /\ ViewIsTrue(view, past)
      /\ \A j : Shown(view, j) <=> Shown(prior.view, j) \/ j = t
      /\ \A c \in Commands : view.commands[c].issued = prior.view.commands[c].issued
  BY <1>4, <1>6, <1>7, <1>8, ApplyRegularIsTrue
<1>10. \A s \in Of(past, "step") : Shown(view, s)
  BY <1>2, <1>7, <1>8, <1>9
<1>11. t \in Positions /\ t \in Nat
  BY <1>4, EventTyped
<1>12. \A i \in 1..t : past[i].kind # "step" => Shown(view, i)
  <2>1. \A i \in 1..t : i \in 1..t - 1 \/ i = t
    BY <1>11
  <2> QED
    BY <1>8, <1>9, <2>1
<1>13. ASSUME NEW j \in DOMAIN past, past[t].kind = "outcome", past[j].kind = "outcome", t < j,
              view.commands[past[t].command].issued = view.commands[past[j].command].issued
       PROVE  ~Shown(view, j)
  <2>1. past[t].command \in Commands /\ past[j].command \in Commands
    BY <1>4, <1>13, EventTyped, EventFields DEF AboutCommand
  <2>2. prior.view.commands[past[t].command].issued = prior.view.commands[past[j].command].issued
    BY <1>9, <1>13, <2>1
  <2>3. t - 1 < t /\ j # t
    BY <1>11, <1>13
  <2> QED
    BY <1>4, <1>7, <1>8, <1>9, <1>13, <2>2, <2>3 DEF GroupsInOrder
<1>14. IsDecidedIn(view, past, t)
  BY <1>1, <1>4, <1>7, <1>9, <1>10, <1>11, <1>12, <1>13 DEF IsDecidedIn
<1> QED
  BY <1>1, <1>2, <1>3, <1>7, <1>14
-------------------------------------------------------------------------------
\* What a frame on a result, and a frame on an external fact, has been taken in.

FrameShows(past, i) ==
  \E n \in DOMAIN Projection(past).frame.basis : Projection(past).frame.basis[n] = i

\* The next decision is on a result of step s: the step's continuation is open, no
\* external fact has come since s had looked, the frame shows the outcome of every
\* command of s that is to be decided on, and none of these is later.
LEMMA ResultFrame ==
  ASSUME NEW past, IsLog(past), ~Projection(past).raised, Projection(past).next # None,
         past[Projection(past).next].kind = "outcome",
         NEW s \in Of(past, "step"), past[Projection(past).next].command \in past[s].commands
  PROVE  /\ past[Projection(past).next].command \notin NoDecision
         /\ StopsFor(past, s) = {}
         /\ \A i \in DOMAIN past : i > ObservedBy(past, s) => ~IsExternalDecisionFact(past, i)
         /\ \A d \in past[s].commands \ NoDecision :
              \E o \in DOMAIN past :
                /\ past[o].kind = "outcome" /\ past[o].command = d
                /\ FrameShows(past, o)
         /\ \A o \in DOMAIN past :
              /\ past[o].kind = "outcome"
              /\ past[o].command \in past[s].commands \ NoDecision
              => o <= Projection(past).next
<1>1. PICK t : t = Projection(past).next
  OBVIOUS
<1>2. PICK view :
        /\ IsDecidedIn(view, past, t)
        /\ Projection(past).frame.basis =
             DecisionView(view, past, t, Operational(past), Len(past)).visible
  BY <1>1, NextIsDecided
<1>3. ~IsExternalDecisionFact(past, t)
  BY <1>1 DEF IsExternalDecisionFact
<1>4. Projection(past).frame.basis = view.visible
  BY <1>2, <1>3 DEF DecisionView
<1>5. /\ t \in DOMAIN past /\ t \in Positions /\ t # None
      /\ ViewIsTrue(view, past)
      /\ past[t].kind = "outcome"
      /\ s \in DOMAIN past /\ s \in Positions /\ s # None /\ past[s].kind = "step" /\ Shown(view, s)
      /\ past[s].commands \in SUBSET Commands
  BY <1>1, <1>2, EventTyped, EventFields DEF IsDecidedIn, Of
<1>6. PICK c : c = past[t].command
  OBVIOUS
<1>7. c \in past[s].commands /\ c \in Commands
  BY <1>1, <1>5, <1>6
<1>8. \A d \in past[s].commands : view.commands[d].issued = s
  BY <1>5 DEF ViewIsTrue, StateIsTrue
<1>9. /\ c \notin NoDecision
      /\ ContinuationOpen(past, s)
      /\ GroupClosed(view, c)
      /\ ~Superseded(past, ObservedBy(past, s))
  BY <1>2, <1>3, <1>5, <1>6, <1>7, <1>8 DEF IsDecidedIn, RequiresDecision
<1>10. ASSUME NEW d \in past[s].commands \ NoDecision
       PROVE  /\ view.commands[d].outcome \in DOMAIN past
              /\ past[view.commands[d].outcome].kind = "outcome"
              /\ past[view.commands[d].outcome].command = d
              /\ Shown(view, view.commands[d].outcome)
  <2>1. d \in Commands /\ Terminal(view.commands[d])
    BY <1>5, <1>7, <1>8, <1>9 DEF GroupClosed
  <2>2. view.commands[d].outcome \in Positions
    BY <1>5, <2>1 DEF ViewIsTrue, Views, CommandStates, Terminal
  <2> QED
    BY <1>5, <2>1, <2>2 DEF ViewIsTrue, StateIsTrue
<1>11. ASSUME NEW o \in DOMAIN past, past[o].kind = "outcome",
              past[o].command \in past[s].commands \ NoDecision
       PROVE  o <= t
  <2>1. PICK d : d = past[o].command
    OBVIOUS
  <2>2. PICK r : r = view.commands[d].outcome
    OBVIOUS
  <2>3. /\ r \in DOMAIN past /\ past[r].kind = "outcome" /\ past[r].command = d
        /\ Shown(view, r)
    BY <1>10, <1>11, <2>1, <2>2
  <2>4. PICK all : all = Operational(past)
    OBVIOUS
  <2>5. ViewIsTrue(all, past) /\ \A i \in DOMAIN past : Shown(all, i)
    BY <2>4, OperationalIsTrue DEF Projection, Project, ProjectionOf
  <2>6. all.commands[d].outcome = o /\ all.commands[d].outcome = r
    BY <1>11, <2>1, <2>3, <2>5, ShownOutcome
  <2>7. Shown(view, o)
    BY <2>3, <2>6
  <2>8. view.commands[c].issued = view.commands[past[o].command].issued
    BY <1>7, <1>8, <1>11
  <2>9. ~(t < o)
    BY <1>2, <1>5, <1>6, <1>11, <2>7, <2>8 DEF IsDecidedIn
  <2> QED
    BY <1>5, <2>9, EventTyped
<1> QED
  BY <1>1, <1>4, <1>6, <1>9, <1>10, <1>11 DEF ContinuationOpen, Superseded, FrameShows, Shown

\* The next decision is on an external fact: the frame shows the outcome of every
\* attempt in the log that belongs to a step decided before the fact arrived.
LEMMA FactFrame ==
  ASSUME NEW past, IsLog(past), ~Projection(past).raised, Projection(past).next # None,
         IsExternalDecisionFact(past, Projection(past).next),
         NEW s \in Of(past, "step"), ObservedBy(past, s) < Projection(past).next,
         NEW a \in Of(past, "attempt"), past[a].command \in past[s].commands
  PROVE  \E o \in DOMAIN past :
           /\ past[o].kind = "outcome" /\ past[o].attempt = a
           /\ FrameShows(past, o)
<1>1. PICK t, operational : t = Projection(past).next /\ operational = Operational(past)
  OBVIOUS
<1>2. PICK view :
        /\ IsDecidedIn(view, past, t)
        /\ Projection(past).frame.basis =
             DecisionView(view, past, t, operational, Len(past)).visible
        /\ ~DecisionView(view, past, t, operational, Len(past)).raised
  BY <1>1, NextIsDecided
<1>3. PICK wait : wait = WaitAt(view, past, t, operational, Len(past), Len(past))
  OBVIOUS
<1>4. /\ t \in DOMAIN past /\ t \in Nat /\ Len(past) \in Nat
      /\ past[t].kind = "fact"
      /\ ViewIsTrue(view, past) /\ Shown(view, s)
      /\ s \in DOMAIN past /\ s \in Positions /\ s # None /\ past[s].kind = "step"
      /\ a \in DOMAIN past /\ a \in Positions /\ a # None /\ past[a].kind = "attempt"
  BY <1>1, <1>2, EventTyped DEF IsDecidedIn, Of, IsExternalDecisionFact
<1>5. DecisionView(view, past, t, operational, Len(past)) = wait.view
  BY <1>1, <1>3, <1>4, FollowUpsAreShown DEF DecisionView
<1>6. WaitIsDone(view, past, t, operational, Len(past), Len(past), wait)
  BY <1>3, <1>4, FollowUpsAreShown
<1>7. PICK c : c = past[a].command
  OBVIOUS
<1>8. c \in Commands /\ c \in past[s].commands
  BY <1>4, <1>7, EventTyped, EventFields DEF AboutCommand
<1>9. ViewIsTrue(operational, past) /\ \A i \in DOMAIN past : Shown(operational, i)
  BY <1>1, OperationalIsTrue DEF Projection, Project, ProjectionOf
<1>10. PICK state : state = operational.commands[c]
  OBVIOUS
<1>11. state.attempt = a /\ state.issued = s
  BY <1>4, <1>7, <1>8, <1>9, <1>10 DEF ViewIsTrue, StateIsTrue
<1>12. Terminal(state)
  BY <1>1, <1>2, <1>4, <1>8, <1>10, <1>11 DEF IsDecidedIn, BlockedByInFlight
<1>13. PICK o : o = state.outcome
  OBVIOUS
<1>14. /\ o \in Positions
       /\ Shown(operational, o) /\ past[o].kind = "outcome" /\ past[o].command = c
       /\ past[o].attempt = a
  <2>1. o \in Positions
    BY <1>8, <1>9, <1>10, <1>12, <1>13 DEF ViewIsTrue, Views, CommandStates, Terminal
  <2> QED
    BY <1>8, <1>9, <1>10, <1>11, <1>12, <1>13, <2>1 DEF ViewIsTrue, StateIsTrue
<1>15. o \in DOMAIN past
  BY <1>9, <1>14 DEF ViewIsTrue
<1>16. view.commands[c].issued = s /\ wait.view.commands[c].issued = s
  BY <1>4, <1>6, <1>8 DEF ViewIsTrue, StateIsTrue, WaitIsDone
<1>17. /\ ViewIsTrue(wait.view, past) /\ ~wait.view.raised /\ wait.complete \in BOOLEAN
  BY <1>2, <1>5, <1>6 DEF WaitIsDone
<1>18. Shown(wait.view, o)
  <2>1. CASE wait.complete
    <3>1. WaitedBatchComplete(wait.view, operational)
      BY <1>6, <2>1 DEF WaitIsDone
    <3>2. Terminal(wait.view.commands[c])
      BY <1>4, <1>8, <1>10, <1>11, <1>16, <3>1 DEF WaitedBatchComplete, Known
    <3>3. PICK r : r = wait.view.commands[c].outcome
      OBVIOUS
    <3>4. r \in Positions
      BY <1>8, <1>17, <3>2, <3>3 DEF ViewIsTrue, Views, CommandStates, Terminal
    <3>5. Shown(wait.view, r) /\ past[r].kind = "outcome" /\ past[r].command = c
      BY <1>8, <1>17, <3>3, <3>4 DEF ViewIsTrue, StateIsTrue
    <3>6. r \in DOMAIN past
      BY <1>17, <3>5 DEF ViewIsTrue
    <3>7. operational.commands[c].outcome = r
      BY <1>9, <3>5, <3>6, ShownOutcome
    <3> QED
      BY <1>10, <1>13, <3>5, <3>7
  <2>2. CASE ~wait.complete /\ o <= t
    <3>1. o \in 1..t
      BY <1>4, <1>14, <1>15, <2>2, EventTyped
    <3>2. Shown(view, o)
      BY <1>2, <1>14, <3>1 DEF IsDecidedIn
    <3> QED
      BY <1>6, <3>2 DEF WaitIsDone
  <2>3. CASE ~wait.complete /\ ~(o <= t)
    <3>1. o \in 1..Len(past) /\ o \in t + 1..Len(past)
      BY <1>4, <1>15, <2>3, EventTyped
    <3>2. IsFollowUp(view, past, t, Len(past), o)
      BY <1>4, <1>14, <1>16, <3>1 DEF IsFollowUp, Known
    <3> QED
      BY <1>6, <1>17, <2>3, <3>1, <3>2 DEF WaitIsDone
  <2> QED
    BY <1>17, <2>1, <2>2, <2>3
<1> QED
  BY <1>2, <1>5, <1>14, <1>15, <1>18 DEF FrameShows, Shown

\* The frame of the next decision, if there is a projection, is one of Frames.
LEMMA FrameTyped ==
  ASSUME NEW past, IsLog(past)
  PROVE  /\ Projection(past).frame \in Frames
         /\ Projection(past).next \in Positions \cup {None}
         /\ Projection(past).next # None => Projection(past).next \in DOMAIN past
         /\ Projection(past).frame.observed = Len(past)
<1>1. PICK final : final = DecisionWalk(past, Operational(past))
  OBVIOUS
<1>2. /\ final \in WalkStates
      /\ final.next # None => final.next \in DOMAIN past
  BY <1>1, WalkIsSoundAtLast
<1>3. final.cursor + 1 \in Nat /\ final.view.visible \in Seq(Positions)
      /\ final.next \in Positions \cup {None}
  <2>1. final.cursor \in Nat /\ final.view \in Views
    BY <1>2 DEF WalkStates
  <2> QED
    BY <1>2, <2>1 DEF WalkStates, Views
<1>4. Len(past) \in 0..MaxEvents
  BY BoundAssumption DEF IsLog
<1> QED
  BY <1>1, <1>2, <1>3, <1>4 DEF Projection, Project, ProjectionOf, Frames

\* What was attempted in a log with a projection was issued in it.
LEMMA IssuerIsInLog ==
  ASSUME NEW events, IsLog(events), ~Projection(events).raised,
         NEW a \in DOMAIN events, events[a].kind \in {"attempt", "outcome"}
  PROVE  \E s \in Of(events, "step") : events[a].command \in events[s].commands
<1>1. PICK view : view = Operational(events)
  OBVIOUS
<1>2. ~view.raised
  BY <1>1 DEF Projection, Project, ProjectionOf
<1>3. ViewIsTrue(view, events) /\ Shown(view, a)
  BY <1>1, <1>2, OperationalIsTrue
<1>4. PICK c : c = events[a].command
  OBVIOUS
<1>5. c \in Commands /\ a \in Positions /\ a # None
  BY <1>4, EventTyped, EventFields DEF AboutCommand
<1>6. StateIsTrue(view, events, c) /\ view.commands[c] \in CommandStates
  BY <1>3, <1>5 DEF ViewIsTrue, Views
<1>7. Known(view.commands[c])
  <2>1. CASE events[a].kind = "attempt"
    <3>1. view.commands[c].attempt = a
      BY <1>3, <1>4, <1>5, <1>6, <2>1 DEF StateIsTrue
    <3> QED
      BY <1>5, <1>6, <3>1 DEF StateIsTrue
  <2>2. CASE events[a].kind = "outcome"
    <3>1. view.commands[c].outcome = a
      BY <1>3, <1>4, <1>5, <1>6, <2>2 DEF StateIsTrue
    <3>2. view.commands[c].attempt # None
      BY <1>5, <1>6, <3>1 DEF StateIsTrue, Terminal
    <3> QED
      BY <1>6, <3>2 DEF StateIsTrue
  <2> QED
    BY <2>1, <2>2
<1>8. PICK s : s = view.commands[c].issued
  OBVIOUS
<1>9. s \in Positions
  BY <1>6, <1>7, <1>8 DEF CommandStates, Known
<1>10. Shown(view, s) /\ events[s].kind = "step" /\ c \in events[s].commands
  BY <1>6, <1>8, <1>9 DEF StateIsTrue
<1>11. s \in DOMAIN events
  BY <1>3, <1>10 DEF ViewIsTrue
<1> QED
  BY <1>4, <1>10, <1>11 DEF Of

-------------------------------------------------------------------------------
\* What project leaves undecided.  By the log alone: which events ask for a decision,
\* and which of those have had one.  It leaves out none of these, and its next
\* trigger is one of them.

\* Of the commands of step s that matter to the model, each has an outcome by event i.
GroupEndsBy(past, s, i) ==
  \A d \in past[s].commands \ NoDecision :
    \E o \in DOMAIN past : o <= i /\ past[o].kind = "outcome" /\ past[o].command = d

\* Event i is the outcome that a continuation of step s waits for.
ContinuesStep(past, s, i) ==
  /\ past[i].command \in past[s].commands \ NoDecision
  /\ StopsFor(past, s) = {}
  /\ ~Superseded(past, ObservedBy(past, s))
  /\ GroupEndsBy(past, s, i)

Wants(past, i) ==
  \/ IsExternalDecisionFact(past, i)
  \/ past[i].kind = "reject"
  \/ past[i].kind = "outcome" /\ \E s \in Of(past, "step") : ContinuesStep(past, s, i)

\* Event i is in the frame of step s.
ShownTo(past, s, i) ==
  \E n \in DOMAIN past[s].request.frame.basis : past[s].request.frame.basis[n] = i

\* The commands of events i and j were issued by one step.
SameGroup(past, i, j) ==
  \E g \in Of(past, "step") : {past[i].command, past[j].command} \subseteq past[g].commands

\* Step s was shown event i, and if it is an outcome the earlier ones of its group.
ShownWithGroup(past, s, i) ==
  /\ past[i].kind \in {"attempt", "outcome"}
  /\ ShownTo(past, s, i)
  /\ past[i].kind = "outcome" =>
       \A j \in DOMAIN past :
         j < i /\ past[j].kind = "outcome" /\ SameGroup(past, i, j) => ShownTo(past, s, j)

\* A step on an external fact up to n was shown event i.
ShownAhead(past, n, i) ==
  \E s \in Of(past, "step") :
    /\ past[s].request.trigger <= n
    /\ IsExternalDecisionFact(past, past[s].request.trigger)
    /\ ShownWithGroup(past, s, i)

\* Event i was decided on, or shown to the decision on an event before it.
Answered(past, i) ==
  \/ StepsFor(past, i) # {}
  \/ CancelsFor(past, i) # {}
  \/ ShownAhead(past, i - 1, i)

IssuedOnce(past) ==
  \A s, t \in Of(past, "step") : s = t \/ past[s].commands \cap past[t].commands = {}

\* A walk that goes on, after n events.
WalkLeavesNothing(walk, past, n) ==
  /\ \A i \in 1..n : Wants(past, i) => Answered(past, i)
  /\ \A i \in DOMAIN past :
       n < i /\ Shown(walk.view, i) /\ past[i].kind \notin {"step", "cancel"} => ShownAhead(past, n, i)
  /\ \A s \in walk.applied, i \in Positions :
       past[s].kind = "step" /\ ShownTo(past, s, i) => Shown(walk.view, i)

\* The trigger the walk stopped at has had no decision and was shown to none.
NextIsNew(walk, past) ==
  walk.next # None =>
    /\ StepsFor(past, walk.next) = {} /\ CancelsFor(past, walk.next) = {}
    /\ \A s \in walk.applied : past[s].kind = "step" => ~ShownTo(past, s, walk.next)

WalkIsThorough(walk, past, operational, n) ==
  /\ ~walk.halted /\ ~walk.view.raised => WalkLeavesNothing(walk, past, n)
  /\ walk.halted /\ walk.next = None =>
       \E m \in DOMAIN past : BlockedByInFlight(operational, past, m)
  /\ NextIsNew(walk, past)

\* A true view that shows what is in the log up to i requires the decision.
LEMMA WantedIsRequired ==
  ASSUME NEW past, IsLog(past), IssuedOnce(past), NEW view, ViewIsTrue(view, past),
         NEW i \in DOMAIN past, \A j \in 1..i : past[j].kind # "step" => Shown(view, j),
         Wants(past, i)
  PROVE  RequiresDecision(view, past, i)
<1>1. i \in Positions /\ i # None /\ i \in 1..i
  BY EventTyped DEF Positions
<1>2. CASE past[i].kind # "outcome"
  BY <1>2 DEF Wants, RequiresDecision
<1>3. CASE past[i].kind = "outcome"
  <2>1. PICK s \in Of(past, "step") : ContinuesStep(past, s, i)
    BY <1>3 DEF Wants, IsExternalDecisionFact
  <2>2. PICK c : c = past[i].command
    OBVIOUS
  <2>3. Shown(view, i)
    BY <1>1, <1>3
  <2>4. c \in Commands /\ view.commands[c].outcome = i /\ Known(view.commands[c])
    BY <1>3, <2>2, <2>3, ShownOutcome
  <2>5. view.commands[c].issued = s
    <3>1. PICK t : t = view.commands[c].issued
      OBVIOUS
    <3>2. t \in Positions
      BY <2>4, <3>1 DEF ViewIsTrue, Views, CommandStates, Known
    <3>3. Shown(view, t) /\ past[t].kind = "step" /\ c \in past[t].commands
      BY <2>4, <3>1, <3>2 DEF ViewIsTrue, StateIsTrue
    <3>4. t \in Of(past, "step")
      BY <3>3 DEF ViewIsTrue, Of
    <3> QED
      BY <2>1, <2>2, <3>1, <3>3, <3>4 DEF IssuedOnce, ContinuesStep
  <2>6. GroupClosed(view, c)
    <3>1. SUFFICES ASSUME NEW d \in Commands \ NoDecision,
                          view.commands[d].issued = view.commands[c].issued
                   PROVE  Terminal(view.commands[d])
      BY DEF GroupClosed
    <3>2. s \in Positions
      BY EventTyped DEF Of
    <3>3. d \in past[s].commands
      BY <2>5, <3>1, <3>2 DEF ViewIsTrue, StateIsTrue
    <3>4. PICK o \in DOMAIN past : o <= i /\ past[o].kind = "outcome" /\ past[o].command = d
      BY <2>1, <3>1, <3>3 DEF ContinuesStep, GroupEndsBy
    <3>5. o \in 1..i /\ o # None
      BY <1>1, <3>4, EventTyped
    <3>6. view.commands[d].outcome = o
      BY <3>4, <3>5, ShownOutcome
    <3> QED
      BY <3>5, <3>6 DEF Terminal
  <2> QED
    BY <1>3, <2>1, <2>2, <2>4, <2>5, <2>6 DEF RequiresDecision, ContinuesStep, ContinuationOpen
<1> QED
  BY <1>2, <1>3

\* The frame of the step that decides on t shows what comes after t with its group.
LEMMA FrameIsShownWithGroup ==
  ASSUME NEW past, IsLog(past), IssuedOnce(past), NEW t \in DOMAIN past,
         NEW here, ViewIsTrue(here, past), NEW until, NEW view,
         FollowedUp(here, past, t, until, view), GroupsInOrder(view, past, t),
         \A j \in 1..t : past[j].kind # "step" => Shown(view, j),
         NEW s \in Of(past, "step"), past[s].request.frame.basis = view.visible,
         NEW i \in DOMAIN past, t < i, Shown(view, i), ~Shown(here, i)
  PROVE  ShownWithGroup(past, s, i)
<1>1. \A j : ShownTo(past, s, j) <=> Shown(view, j)
  BY DEF ShownTo, Shown
<1>2. past[i].kind \in {"attempt", "outcome"}
  BY DEF FollowedUp, IsFollowUp
<1>3. ASSUME past[i].kind = "outcome", NEW j \in DOMAIN past, j < i, past[j].kind = "outcome",
             SameGroup(past, i, j)
      PROVE  Shown(view, j)
  <2>1. t \in Nat /\ i \in Nat /\ j \in Nat /\ j \in 1..j
    BY EventTyped
  <2>2. CASE j <= t
    BY <1>3, <2>1, <2>2, EventTyped
  <2>3. CASE t < j
    <3>1. PICK c, d : c = past[i].command /\ d = past[j].command
      OBVIOUS
    <3>2. PICK g \in Of(past, "step") : c \in past[g].commands /\ d \in past[g].commands
      BY <1>3, <3>1 DEF SameGroup
    <3>3. ViewIsTrue(view, past)
      BY DEF FollowedUp
    <3>4. c \in Commands /\ Known(view.commands[c]) /\ d \in Commands
      BY <1>3, <3>1, <3>3, ShownOutcome, EventTyped, EventFields DEF AboutCommand
    <3>5. PICK x : x = view.commands[c].issued
      OBVIOUS
    <3>6. x \in Positions
      BY <3>3, <3>4, <3>5 DEF ViewIsTrue, Views, CommandStates, Known
    <3>7. Shown(view, x) /\ past[x].kind = "step" /\ c \in past[x].commands
      BY <3>3, <3>4, <3>5, <3>6 DEF ViewIsTrue, StateIsTrue
    <3>8. x \in Of(past, "step")
      BY <3>3, <3>7 DEF ViewIsTrue, Of
    <3>9. x = g
      BY <3>2, <3>7, <3>8 DEF IssuedOnce
    <3>10. view.commands[d].issued = x
      BY <3>2, <3>3, <3>4, <3>6, <3>7, <3>9 DEF ViewIsTrue, StateIsTrue
    <3> QED
      BY <1>3, <2>3, <3>1, <3>5, <3>10 DEF GroupsInOrder
  <2> QED
    BY <2>1, <2>2, <2>3
<1> QED
  BY <1>1, <1>2, <1>3 DEF ShownWithGroup

\* Arriving at event t, just applied, leaves nothing out.
LEMMA ArriveIsThorough ==
  ASSUME NEW past, IsLog(past), IssuedOnce(past), NEW t \in DOMAIN past, past[t].kind # "step",
         NEW here, WalkIsSound(here, past, t), ~here.halted, NEW operational,
         ~here.view.raised => /\ \A i \in 1..t - 1 : Wants(past, i) => Answered(past, i)
                              /\ \A i \in DOMAIN past :
                                   t < i /\ Shown(here.view, i) /\ past[i].kind \notin {"step", "cancel"}
                                     => ShownAhead(past, t, i)
                              /\ \A s \in here.applied, i \in Positions :
                                   past[s].kind = "step" /\ ShownTo(past, s, i) => Shown(here.view, i)
  PROVE  LET after == Arrive(here, past, t, operational) IN
         /\ ~after.halted /\ ~after.view.raised => WalkLeavesNothing(after, past, t)
         /\ after.halted /\ after.next = None =>
              \E m \in DOMAIN past : BlockedByInFlight(operational, past, m)
<1>1. PICK after : after = Arrive(here, past, t, operational)
  OBVIOUS
<1>2. /\ here \in WalkStates /\ ViewIsTrue(here.view, past) /\ here.next = None
      /\ here.view.raised \in BOOLEAN /\ here.halted = FALSE
  BY DEF WalkIsSound, WalkStates, ViewIsTrue, Views
<1>3. t \in Positions /\ t \in Nat /\ t # None /\ \A i \in 1..t : i \in 1..t - 1 \/ i = t
  BY EventTyped
<1>4. CASE here.view.raised
  <2>1. after = here
    BY <1>1, <1>4 DEF Arrive
  <2> QED
    BY <1>1, <1>2, <1>4, <2>1
<1>5. CASE ~here.view.raised /\ CancelsFor(past, t) # {}
  <2>1. PICK k \in CancelsFor(past, t) : after = ApplyCancellation(here, past, k)
    BY <1>1, <1>5 DEF Arrive
  <2>2. k \in DOMAIN past /\ past[k].kind = "cancel" /\ k \in Positions
    BY ConsumersTyped
  <2>3. PICK view : view = ApplyRegular(here.view, past, k)
    OBVIOUS
  <2>4. /\ after.view = view /\ after.applied = here.applied \cup {k} /\ after.halted = FALSE
    BY <1>2, <2>1, <2>3 DEF ApplyCancellation, WalkStates
  <2>5. ~view.raised => \A j : Shown(view, j) <=> Shown(here.view, j) \/ j = k
    BY <1>2, <2>2, <2>3, ApplyRegularIsTrue DEF AboutCommand
  <2>6. Answered(past, t)
    BY <1>5 DEF Answered
  <2>7. ~after.view.raised => WalkLeavesNothing(after, past, t)
    BY <1>3, <1>5, <2>2, <2>4, <2>5, <2>6 DEF WalkLeavesNothing
  <2> QED
    BY <1>1, <2>4, <2>7
<1>6. CASE ~here.view.raised /\ CancelsFor(past, t) = {} /\ StepsFor(past, t) # {}
  <2>1. PICK s \in StepsFor(past, t) : after = ApplyDecision(here, past, t, s, operational)
    BY <1>1, <1>6 DEF Arrive
  <2>2. s \in DOMAIN past /\ past[s].kind = "step" /\ s \in Positions
        /\ s \in Of(past, "step") /\ past[s].request.trigger = t
    BY ConsumersTyped DEF StepsFor
  <2>3. PICK frame, until : frame = past[s].request.frame /\ until = ShownUntil(past, frame)
    OBVIOUS
  <2>4. until \in Nat
    BY <2>2, <2>3 DEF IsLog, ObservedBy, ShownUntil
  <2>5. PICK view : view = DecisionView(here.view, past, t, operational, until)
    OBVIOUS
  <2>6. FollowedUp(here.view, past, t, until, view)
    BY <1>2, <2>4, <2>5, DecisionViewIsTrue
  <2>7. ViewIsTrue(view, past) /\ \A j : Shown(here.view, j) => Shown(view, j)
    BY <2>6 DEF FollowedUp
  <2>8. GroupsInOrder(view, past, t)
    BY <1>2, <1>6, <2>4, <2>6, FollowUpsKeepOrder DEF WalkIsSound
  <2>9. PICK stepped : stepped = IF SameFrame(here, view, frame, s)
                                 THEN ApplyStep(view, past, s)
                                 ELSE Raise(view)
    OBVIOUS
  <2>10. after = [here EXCEPT !.view = stepped, !.cursor = @ + 1, !.applied = @ \cup {s}]
    BY <2>1, <2>3, <2>5, <2>9 DEF ApplyDecision, Decided
  <2>11. after.view = stepped /\ after.applied = here.applied \cup {s} /\ after.halted = FALSE
    BY <1>2, <2>10 DEF WalkStates
  <2>12. ASSUME ~stepped.raised
         PROVE  WalkLeavesNothing(after, past, t)
    <3>1. SameFrame(here, view, frame, s)
      BY <2>7, <2>9, <2>12, RaiseRaises
    <3>2. stepped = ApplyStep(view, past, s) /\ frame.basis = view.visible
      BY <2>9, <3>1 DEF SameFrame
    <3>3. \A j : Shown(stepped, j) <=> Shown(view, j) \/ j = s
      BY <2>2, <2>7, <2>12, <3>2, ApplyStepIsTrue
    <3>4. \A j : ShownTo(past, s, j) <=> Shown(view, j)
      BY <2>3, <3>2 DEF ShownTo, Shown
    <3>5. Answered(past, t)
      BY <1>6 DEF Answered
    <3>6. ASSUME NEW i \in DOMAIN past, t < i, Shown(stepped, i),
                 past[i].kind \notin {"step", "cancel"}
          PROVE  ShownAhead(past, t, i)
      <4>1. CASE Shown(here.view, i)
        BY <1>6, <3>6, <4>1
      <4>2. CASE ~Shown(here.view, i)
        <5>1. Shown(view, i)
          BY <2>2, <3>3, <3>6
        <5>2. \A j \in 1..t : past[j].kind # "step" => Shown(view, j)
          BY <1>2, <1>6, <2>7 DEF WalkIsSound
        <5>3. ShownWithGroup(past, s, i)
          BY <1>2, <2>2, <2>3, <2>6, <2>8, <3>2, <3>6, <4>2, <5>1, <5>2, FrameIsShownWithGroup
        <5>4. IsExternalDecisionFact(past, t)
          BY <2>5, <4>2, <5>1 DEF DecisionView
        <5> QED
          BY <1>3, <2>2, <5>3, <5>4 DEF ShownAhead
      <4> QED
        BY <4>1, <4>2
    <3>7. ASSUME NEW u \in after.applied, NEW i \in Positions, past[u].kind = "step",
                 ShownTo(past, u, i)
          PROVE  Shown(stepped, i)
      <4>1. CASE u = s
        BY <3>3, <3>4, <3>7, <4>1
      <4>2. CASE u \in here.applied
        BY <1>6, <2>7, <3>3, <3>7, <4>2
      <4> QED
        BY <2>11, <4>1, <4>2
    <3>8. \A i \in 1..t : Wants(past, i) => Answered(past, i)
      BY <1>3, <1>6, <3>5
    <3> QED
      BY <2>11, <3>6, <3>7, <3>8 DEF WalkLeavesNothing
  <2> QED
    BY <1>1, <2>11, <2>12
<1>7. CASE ~here.view.raised /\ CancelsFor(past, t) = {} /\ StepsFor(past, t) = {}
  <2>1. after = ConsiderTrigger(here, past, t, operational)
    BY <1>1, <1>7 DEF Arrive
  <2>2. CASE ~RequiresDecision(here.view, past, t)
    <3>1. after = here
      BY <2>1, <2>2 DEF ConsiderTrigger
    <3>2. \A j \in 1..t : past[j].kind # "step" => Shown(here.view, j)
      BY <1>2, <1>7 DEF WalkIsSound
    <3>3. ~Wants(past, t)
      BY <1>2, <2>2, <3>2, WantedIsRequired
    <3>4. WalkLeavesNothing(here, past, t)
      BY <1>3, <1>7, <3>3 DEF WalkLeavesNothing
    <3> QED
      BY <1>1, <1>2, <3>1, <3>4
  <2>3. CASE /\ RequiresDecision(here.view, past, t)
             /\ IsExternalDecisionFact(past, t)
             /\ BlockedByInFlight(operational, past, t)
    <3>1. after = [here EXCEPT !.halted = TRUE]
      BY <2>1, <2>3 DEF ConsiderTrigger
    <3>2. after.halted = TRUE
      BY <1>2, <3>1 DEF WalkStates
    <3> QED
      BY <1>1, <2>3, <3>2
  <2>4. CASE /\ RequiresDecision(here.view, past, t)
             /\ IsExternalDecisionFact(past, t) => ~BlockedByInFlight(operational, past, t)
    <3>1. PICK view : view = DecisionView(here.view, past, t, operational, Len(past))
      OBVIOUS
    <3>2. after = [here EXCEPT !.halted = TRUE, !.next = t, !.view = view]
      BY <2>1, <2>4, <3>1 DEF ConsiderTrigger
    <3>3. after.halted = TRUE /\ after.next = t
      BY <1>2, <3>2 DEF WalkStates
    <3> QED
      BY <1>1, <1>3, <3>3
  <2> QED
    BY <2>2, <2>3, <2>4
<1> QED
  BY <1>2, <1>4, <1>5, <1>6, <1>7

\* One more event leaves nothing out either.
LEMMA WalkOnIsThorough ==
  ASSUME NEW past, IsLog(past), IssuedOnce(past), NEW n \in Nat, n + 1 \in DOMAIN past,
         NEW operational, NEW walk, WalkIsSound(walk, past, n),
         WalkIsThorough(walk, past, operational, n)
  PROVE  WalkIsThorough(WalkOn(walk, past, n + 1, operational), past, operational, n + 1)
<1>1. PICK i : i = n + 1
  OBVIOUS
<1>2. PICK after : after = WalkOn(walk, past, i, operational)
  OBVIOUS
<1>3. /\ i \in DOMAIN past /\ i \in Nat /\ n < i /\ n <= i /\ i - 1 = n /\ i \in Positions
      /\ \A j \in 1..i : j \in 1..n \/ j = i
      /\ \A j \in DOMAIN past : i < j => n < j
  BY <1>1, EventTyped
<1>4. /\ walk \in WalkStates /\ ViewIsTrue(walk.view, past)
      /\ walk.halted \in BOOLEAN /\ walk.view.raised \in BOOLEAN
  BY DEF WalkIsSound, WalkStates, ViewIsTrue, Views
<1>5. ASSUME NEW j, ShownAhead(past, n, j)
      PROVE  ShownAhead(past, i, j)
  <2>1. PICK s \in Of(past, "step") :
          /\ past[s].request.trigger <= n
          /\ IsExternalDecisionFact(past, past[s].request.trigger)
          /\ ShownWithGroup(past, s, j)
    BY <1>5 DEF ShownAhead
  <2>2. past[s].request.trigger \in Nat
    BY EventTyped, EventFields DEF Of, Requests, Positions
  <2>3. past[s].request.trigger <= i
    BY <1>3, <2>1, <2>2
  <2> QED
    BY <2>1, <2>3 DEF ShownAhead
<1>6. CASE walk.halted \/ walk.view.raised \/ past[i].kind = "step" \/ Shown(walk.view, i)
  <2>1. after = walk
    BY <1>2, <1>6 DEF WalkOn
  <2>2. ASSUME ~walk.halted, ~walk.view.raised
        PROVE  WalkLeavesNothing(walk, past, i)
    <3>1. WalkLeavesNothing(walk, past, n)
      BY <2>2 DEF WalkIsThorough
    <3>2. Wants(past, i) => Answered(past, i)
      <4>1. CASE past[i].kind \in {"step", "cancel"}
        BY <4>1 DEF Wants, IsExternalDecisionFact
      <4>2. CASE past[i].kind \notin {"step", "cancel"}
        BY <1>3, <1>6, <2>2, <3>1, <4>2 DEF WalkLeavesNothing, Answered
      <4> QED
        BY <4>1, <4>2
    <3> QED
      BY <1>3, <1>5, <3>1, <3>2 DEF WalkLeavesNothing
  <2>3. WalkIsThorough(walk, past, operational, i)
    BY <2>2 DEF WalkIsThorough
  <2> QED
    BY <1>1, <1>2, <2>1, <2>3
<1>7. CASE ~walk.halted /\ ~walk.view.raised /\ past[i].kind # "step" /\ ~Shown(walk.view, i)
  <2>1. PICK view : view = ApplyRegular(walk.view, past, i)
    OBVIOUS
  <2>2. PICK here : here = [walk EXCEPT !.view = view]
    OBVIOUS
  <2>3. after = Arrive(here, past, i, operational)
    BY <1>2, <1>4, <1>7, <2>1, <2>2 DEF WalkOn, WalkStates
  <2>4. /\ ViewIsTrue(view, past)
        /\ ~view.raised => \A j : Shown(view, j) <=> Shown(walk.view, j) \/ j = i
        /\ ~view.raised => Shown(view, i)
        /\ \A j : Shown(walk.view, j) => Shown(view, j)
    BY <1>3, <1>4, <1>7, <2>1, ApplyRegularIsTrue
  <2>5. GroupsInOrder(view, past, i)
    BY <1>3, <1>4, <1>7, <2>1, RegularKeepsOrder DEF WalkIsSound
  <2>6. /\ here \in WalkStates /\ here.view = view /\ here.applied = walk.applied
        /\ here.next = None /\ here.halted = FALSE
    BY <1>4, <1>7, <2>2, <2>4 DEF WalkIsSound, WalkStates, ViewIsTrue
  <2>7. WalkIsSound(here, past, i)
    BY <1>3, <1>7, <2>4, <2>5, <2>6 DEF WalkIsSound
  <2>8. WalkLeavesNothing(walk, past, n)
    BY <1>7 DEF WalkIsThorough
  <2>9. ~here.view.raised =>
          /\ \A j \in 1..i - 1 : Wants(past, j) => Answered(past, j)
          /\ \A j \in DOMAIN past :
               i < j /\ Shown(here.view, j) /\ past[j].kind \notin {"step", "cancel"}
                 => ShownAhead(past, i, j)
          /\ \A s \in here.applied, j \in Positions :
               past[s].kind = "step" /\ ShownTo(past, s, j) => Shown(here.view, j)
    <3>1. \A j \in DOMAIN past : i < j => j # i
      BY <1>3, EventTyped
    <3> QED
      BY <1>3, <1>5, <2>4, <2>6, <2>8, <3>1 DEF WalkLeavesNothing
  <2>10. /\ ~after.halted /\ ~after.view.raised => WalkLeavesNothing(after, past, i)
         /\ after.halted /\ after.next = None =>
              \E m \in DOMAIN past : BlockedByInFlight(operational, past, m)
    BY <1>3, <1>7, <2>3, <2>6, <2>7, <2>9, ArriveIsThorough
  <2>11. after.next # None => after = walk \/ DecidesAt(walk, past, i, operational, after)
    BY <1>1, <1>2, WalkOnIsSound
  <2>12. DecidesAt(walk, past, i, operational, after) => NextIsNew(after, past)
    BY <1>3, <2>8 DEF DecidesAt, NextIsNew, WalkLeavesNothing
  <2>13. NextIsNew(after, past)
    BY <2>11, <2>12 DEF NextIsNew, WalkIsThorough
  <2>14. WalkIsThorough(after, past, operational, i)
    BY <2>10, <2>13 DEF WalkIsThorough
  <2> QED
    BY <1>1, <1>2, <2>14
<1> QED
  BY <1>4, <1>6, <1>7

\* So the walk leaves nothing out at any length, and stops as DecidesAt says.
LEMMA WalkIsThoroughAtEach ==
  ASSUME NEW past, IsLog(past), IssuedOnce(past), NEW operational
  PROVE  LET at(n) == WalkAt(past, operational, n) IN
         \A n \in 0..Len(past) :
           /\ WalkIsSound(at(n), past, n)
           /\ WalkIsThorough(at(n), past, operational, n)
           /\ at(n).next # None =>
                /\ at(n).next \in 1..n
                /\ DecidesAt(at(at(n).next - 1), past, at(n).next, operational, at(n))
<1> DEFINE at(n) == WalkAt(past, operational, n)
<1>1. past \in Seq(Events) /\ Len(past) \in Nat /\ DOMAIN past = 1..Len(past)
  BY DEF IsLog
<1>2. /\ DecisionWalk(past, operational) = at(Len(past))
      /\ at(0) = NewWalk
      /\ \A n \in 1..Len(past) : at(n) = WalkOn(at(n - 1), past, n, operational)
  <2>1. past \in Seq(Events)
    BY <1>1
  <2> QED
    BY <2>1, WalkIsChain
<1> HIDE DEF at
<1> DEFINE Stopped(walk, n) ==
             walk.next # None =>
               /\ walk.next \in 1..n
               /\ DecidesAt(at(walk.next - 1), past, walk.next, operational, walk)
           S == {n \in 0..Len(past) : /\ WalkIsSound(at(n), past, n)
                                      /\ WalkIsThorough(at(n), past, operational, n)
                                      /\ Stopped(at(n), n)}
<1>3. 0 \in S
  <2>1. NewWalk \in WalkStates
    BY EmptyViewIsTrue DEF NewWalk, WalkStates, ViewIsTrue
  <2>2. /\ NewWalk.view = EmptyView /\ NewWalk.next = None
        /\ NewWalk.halted = FALSE /\ NewWalk.applied = {}
    BY DEF NewWalk
  <2>3. \A i \in 1..0 : FALSE
    OBVIOUS
  <2>4. \A i : ~Shown(EmptyView, i)
    BY EmptyViewIsTrue
  <2>5. GroupsInOrder(EmptyView, past, 0)
    BY <2>4 DEF GroupsInOrder
  <2>6. WalkIsSound(NewWalk, past, 0)
    BY <2>1, <2>2, <2>3, <2>5, EmptyViewIsTrue DEF WalkIsSound
  <2>7. WalkIsThorough(NewWalk, past, operational, 0)
    BY <2>2, <2>3, <2>4 DEF WalkIsThorough, WalkLeavesNothing, NextIsNew
  <2> QED
    BY <1>1, <1>2, <2>2, <2>6, <2>7
<1>4. ASSUME NEW n \in 0..Len(past) - 1, n \in S
      PROVE  n + 1 \in S
  <2>1. PICK walk, after : walk = at(n) /\ after = at(n + 1)
    OBVIOUS
  <2>2. /\ n \in Nat /\ n + 1 \in 1..Len(past) /\ n + 1 \in 0..Len(past)
        /\ (n + 1) - 1 = n /\ n + 1 \in DOMAIN past
    BY <1>1
  <2>3. after = WalkOn(walk, past, n + 1, operational)
    BY <1>2, <2>1, <2>2
  <2>4. WalkIsSound(walk, past, n) /\ WalkIsThorough(walk, past, operational, n) /\ Stopped(walk, n)
    BY <1>4, <2>1
  <2>5. WalkIsSound(after, past, n + 1)
    BY <2>2, <2>3, <2>4, WalkOnIsSound
  <2>6. WalkIsThorough(after, past, operational, n + 1)
    BY <2>2, <2>3, <2>4, WalkOnIsThorough
  <2>7. Stopped(after, n + 1)
    <3>1. after.next # None => \/ after = walk
                               \/ DecidesAt(walk, past, n + 1, operational, after)
      BY <2>2, <2>3, <2>4, WalkOnIsSound
    <3>2. \A i \in 1..n : i \in 1..n + 1
      BY <2>2
    <3>3. CASE after = walk
      BY <2>4, <3>2, <3>3
    <3>4. CASE DecidesAt(walk, past, n + 1, operational, after)
      <4>1. after.next = n + 1 /\ n + 1 \in 1..n + 1
        BY <2>2, <3>4 DEF DecidesAt
      <4>2. at(after.next - 1) = walk
        BY <2>1, <2>2, <4>1
      <4> QED
        BY <3>4, <4>1, <4>2
    <3> QED
      BY <3>1, <3>3, <3>4
  <2> HIDE DEF Stopped
  <2> QED
    BY <2>1, <2>2, <2>5, <2>6, <2>7
<1> HIDE DEF S
<1>5. 0..Len(past) \subseteq S
  BY <1>1, <1>3, <1>4, Ops!UpTo
<1>6. ASSUME NEW n \in 0..Len(past)
      PROVE  WalkIsSound(at(n), past, n) /\ WalkIsThorough(at(n), past, operational, n) /\ Stopped(at(n), n)
  BY <1>5 DEF S
<1> QED
  BY <1>6 DEF at

\* In particular the walk over the whole log.
LEMMA WalkIsThoroughAtLast ==
  ASSUME NEW past, IsLog(past), IssuedOnce(past), NEW operational
  PROVE  /\ WalkIsSound(DecisionWalk(past, operational), past, Len(past))
         /\ WalkIsThorough(DecisionWalk(past, operational), past, operational, Len(past))
<1>1. past \in Seq(Events) /\ Len(past) \in 0..Len(past)
  BY DEF IsLog
<1>2. DecisionWalk(past, operational) = WalkAt(past, operational, Len(past))
  BY <1>1, WalkIsChain
<1> QED
  BY <1>1, <1>2, WalkIsThoroughAtEach

\* What project leaves undecided, when nothing that was attempted is still out, is
\* what somebody has decided on or was shown.
LEMMA NothingIsLeft ==
  ASSUME NEW past, IsLog(past), IssuedOnce(past),
         ~Projection(past).raised, Projection(past).next = None,
         \A m \in DOMAIN past : ~BlockedByInFlight(Operational(past), past, m),
         NEW i \in DOMAIN past, Wants(past, i)
  PROVE  Answered(past, i)
<1>1. PICK operational, final : /\ operational = Operational(past)
                                /\ final = DecisionWalk(past, operational)
  OBVIOUS
<1>2. ~final.view.raised /\ final.next = None
  BY <1>1 DEF Projection, Project, ProjectionOf
<1>3. WalkIsSound(final, past, Len(past)) /\ WalkIsThorough(final, past, operational, Len(past))
  BY <1>1, WalkIsThoroughAtLast
<1>4. ~final.halted
  BY <1>1, <1>2, <1>3 DEF WalkIsThorough
<1>5. WalkLeavesNothing(final, past, Len(past))
  BY <1>2, <1>3, <1>4 DEF WalkIsThorough
<1>6. i \in 1..Len(past)
  BY EventTyped
<1> QED
  BY <1>5, <1>6 DEF WalkLeavesNothing

-------------------------------------------------------------------------------
\* What a cancellation can make next: what asked for a decision already.

\* The next trigger asks for a decision by the log alone, has had none, and was shown
\* to no step.
LEMMA NextIsWanted ==
  ASSUME NEW past, IsLog(past), IssuedOnce(past), NEW t, t = Projection(past).next,
         ~Projection(past).raised, t # None
  PROVE  /\ t \in DOMAIN past /\ Wants(past, t) /\ ~Answered(past, t)
<1>1. PICK operational, final : /\ operational = Operational(past)
                                /\ final = DecisionWalk(past, operational)
  OBVIOUS
<1>2. /\ ~final.view.raised /\ final.next = t
      /\ Of(past, "step") \subseteq final.applied
  BY <1>1 DEF Projection, Project, ProjectionOf
<1>3. NextIsNew(final, past)
  BY <1>1, WalkIsThoroughAtLast DEF WalkIsThorough
<1>4. ~Answered(past, t)
  BY <1>2, <1>3 DEF NextIsNew, Answered, ShownAhead, ShownWithGroup, Of
<1>5. PICK view : IsDecidedIn(view, past, t)
  BY NextIsDecided
<1>6. t \in DOMAIN past /\ RequiresDecision(view, past, t)
  BY <1>5 DEF IsDecidedIn
<1>7. CASE past[t].kind # "outcome"
  BY <1>4, <1>6, <1>7 DEF RequiresDecision, Wants
<1>8. CASE past[t].kind = "outcome"
  <2>1. PICK s \in Of(past, "step") : past[t].command \in past[s].commands
    BY <1>6, <1>8, IssuerIsInLog
  <2>2. /\ past[t].command \notin NoDecision
        /\ StopsFor(past, s) = {}
        /\ \A i \in DOMAIN past : i > ObservedBy(past, s) => ~IsExternalDecisionFact(past, i)
        /\ \A d \in past[s].commands \ NoDecision :
             \E o \in DOMAIN past : past[o].kind = "outcome" /\ past[o].command = d
        /\ \A o \in DOMAIN past :
             past[o].kind = "outcome" /\ past[o].command \in past[s].commands \ NoDecision => o <= t
    BY <1>8, <2>1, ResultFrame
  <2>3. GroupEndsBy(past, s, t)
    BY <2>2 DEF GroupEndsBy
  <2>4. ContinuesStep(past, s, t)
    BY <2>1, <2>2, <2>3 DEF ContinuesStep, Superseded
  <2> QED
    BY <1>4, <1>6, <1>8, <2>1, <2>4 DEF Wants
<1> QED
  BY <1>4, <1>6, <1>7, <1>8

\* A cancellation or a stop asks for no decision, and nothing asks for one for its sake.
LEMMA CancelWantsNothing ==
  ASSUME NEW past, IsLog(past), NEW e \in Events, e.kind \in {"cancel", "stop"},
         NEW after, IsLog(after), after = Append(past, e),
         NEW t \in DOMAIN after, Wants(after, t)
  PROVE  t \in DOMAIN past /\ Wants(past, t)
<1>1. /\ past \in Seq(Events) /\ Len(past) \in Nat /\ DOMAIN past = 1..Len(past)
      /\ DOMAIN after = 1..Len(past) + 1
      /\ \A i \in DOMAIN past : i \in DOMAIN after /\ after[i] = past[i]
      /\ after[Len(past) + 1] = e
  BY DEF IsLog
<1>2. t \in DOMAIN past
  <2> SUFFICES ASSUME t = Len(past) + 1 PROVE FALSE
    BY <1>1
  <2>1. after[t].kind \in {"cancel", "stop"}
    BY <1>1
  <2> QED
    BY <2>1 DEF Wants, IsExternalDecisionFact
<1>3. ASSUME NEW i \in DOMAIN past
      PROVE  IsExternalDecisionFact(after, i) <=> IsExternalDecisionFact(past, i)
  BY <1>1, <1>3 DEF IsExternalDecisionFact
<1>4. CASE past[t].kind # "outcome"
  BY <1>1, <1>2, <1>3, <1>4 DEF Wants
<1>5. CASE past[t].kind = "outcome"
  <2>1. PICK s \in Of(after, "step") : ContinuesStep(after, s, t)
    BY <1>1, <1>2, <1>5 DEF Wants, IsExternalDecisionFact
  <2>2. s \in DOMAIN past /\ past[s] = after[s] /\ past[s].kind = "step" /\ s \in Of(past, "step")
    BY <1>1, <2>1 DEF Of
  <2>3. past[t] = after[t]
    BY <1>1, <1>2
  <2>4. StopsFor(past, s) = {}
    BY <1>1, <2>1 DEF ContinuesStep, StopsFor, Of
  <2>5. ~Superseded(past, ObservedBy(past, s))
    <3>1. ObservedBy(past, s) = ObservedBy(after, s)
      BY <2>2 DEF ObservedBy
    <3>2. \A i \in DOMAIN after : i > ObservedBy(after, s) => ~IsExternalDecisionFact(after, i)
      BY <2>1 DEF ContinuesStep, Superseded
    <3> QED
      BY <1>1, <1>3, <3>1, <3>2 DEF Superseded
  <2>6. GroupEndsBy(past, s, t)
    <3> SUFFICES ASSUME NEW d \in past[s].commands \ NoDecision
                 PROVE  \E o \in DOMAIN past :
                          o <= t /\ past[o].kind = "outcome" /\ past[o].command = d
      BY DEF GroupEndsBy
    <3>1. PICK o \in DOMAIN after : o <= t /\ after[o].kind = "outcome" /\ after[o].command = d
      BY <2>1, <2>2 DEF ContinuesStep, GroupEndsBy
    <3>2. o \in DOMAIN past
      BY <1>1, <1>2, <3>1
    <3> QED
      BY <1>1, <3>1, <3>2
  <2>7. ContinuesStep(past, s, t)
    BY <2>1, <2>2, <2>3, <2>4, <2>5, <2>6 DEF ContinuesStep
  <2> QED
    BY <1>2, <1>5, <2>2, <2>7 DEF Wants
<1> QED
  BY <1>2, <1>4, <1>5

\* An event that was decided on, or shown, still was when the log is longer.
LEMMA StaysAnswered ==
  ASSUME NEW past, IsLog(past), NEW e \in Events, e.kind \in {"cancel", "stop"},
         NEW after, IsLog(after), after = Append(past, e),
         NEW t \in DOMAIN past, Answered(past, t)
  PROVE  Answered(after, t)
<1>1. /\ past \in Seq(Events) /\ Len(past) \in Nat /\ DOMAIN past = 1..Len(past)
      /\ DOMAIN after = 1..Len(past) + 1
      /\ \A i \in DOMAIN past : i \in DOMAIN after /\ after[i] = past[i]
      /\ after[Len(past) + 1] = e
  BY DEF IsLog
<1>2. \A s \in Of(past, "step") : s \in Of(after, "step") /\ after[s] = past[s]
  BY <1>1 DEF Of
<1>3. \A s \in Of(after, "step") : s \in Of(past, "step")
  BY <1>1 DEF Of
<1>4. CASE StepsFor(past, t) # {}
  BY <1>2, <1>4 DEF StepsFor, Answered
<1>5. CASE CancelsFor(past, t) # {}
  BY <1>1, <1>5 DEF CancelsFor, Answered, Of
<1>6. CASE ShownAhead(past, t - 1, t)
  <2>1. PICK s \in Of(past, "step") :
          /\ past[s].request.trigger <= t - 1
          /\ IsExternalDecisionFact(past, past[s].request.trigger)
          /\ ShownWithGroup(past, s, t)
    BY <1>6 DEF ShownAhead
  <2>2. s \in Of(after, "step") /\ after[s] = past[s] /\ after[t] = past[t]
    BY <1>1, <1>2, <2>1
  <2>3. ShownTo(past, s, t) /\ past[t].kind \in {"attempt", "outcome"}
    BY <2>1 DEF ShownWithGroup
  <2>4. ASSUME NEW j \in DOMAIN after, after[t].kind = "outcome", j < t,
               after[j].kind = "outcome", SameGroup(after, t, j)
        PROVE  ShownTo(after, s, j)
    <3>1. j \in DOMAIN past /\ after[j] = past[j]
      BY <1>1, <2>4
    <3>2. SameGroup(past, t, j)
      BY <1>2, <1>3, <2>2, <2>4, <3>1 DEF SameGroup
    <3>3. ShownTo(past, s, j)
      BY <2>1, <2>2, <2>4, <3>1, <3>2 DEF ShownWithGroup
    <3> QED
      BY <2>2, <3>3 DEF ShownTo
  <2>5. ShownWithGroup(after, s, t)
    BY <2>2, <2>3, <2>4 DEF ShownWithGroup, ShownTo
  <2>6. past[s].request.trigger \in Positions
    BY <1>1, <2>1, EventFields DEF Of, Requests
  <2>7. past[s].request.trigger \in DOMAIN past
    BY <1>1, <2>1, <2>6 DEF Positions
  <2>8. IsExternalDecisionFact(after, after[s].request.trigger)
    BY <1>1, <2>1, <2>2, <2>7 DEF IsExternalDecisionFact
  <2> QED
    BY <2>1, <2>2, <2>5, <2>8 DEF ShownAhead, Answered
<1> QED
  BY <1>4, <1>5, <1>6 DEF Answered

\* The log stays one in which no command is issued twice.
LEMMA AppendedCancel ==
  ASSUME NEW past, IsLog(past), IssuedOnce(past), NEW e \in Events, e.kind \in {"cancel", "stop"},
         NEW after, after = Append(past, e), Len(after) <= MaxEvents
  PROVE  IsLog(after) /\ IssuedOnce(after)
<1>1. /\ past \in Seq(Events) /\ Len(past) \in Nat /\ after \in Seq(Events)
      /\ DOMAIN past = 1..Len(past) /\ DOMAIN after = 1..Len(past) + 1
      /\ \A i \in DOMAIN past : after[i] = past[i]
      /\ after[Len(past) + 1] = e
  BY DEF IsLog
<1>2. \A s \in Of(after, "step") : s \in Of(past, "step") /\ after[s] = past[s]
  BY <1>1 DEF Of
<1>3. IssuedOnce(after)
  BY <1>2 DEF IssuedOnce
<1>4. \A s \in Of(after, "step") : ObservedBy(after, s) \in Nat
  BY <1>2 DEF IsLog, ObservedBy
<1> QED
  BY <1>1, <1>3, <1>4 DEF IsLog

\* With nothing left to decide and nothing at work, a cancellation makes nothing next.
LEMMA CancelDecidesNothing ==
  ASSUME NEW past, IsLog(past), IssuedOnce(past), ~Projection(past).raised,
         Projection(past).next = None,
         \A m \in DOMAIN past : ~BlockedByInFlight(Operational(past), past, m),
         NEW e \in Events, e.kind \in {"cancel", "stop"},
         NEW after, IsLog(after), IssuedOnce(after), after = Append(past, e),
         ~Projection(after).raised
  PROVE  Projection(after).next = None
<1> SUFFICES ASSUME NEW t, t = Projection(after).next, t # None PROVE FALSE
  OBVIOUS
<1>1. t \in DOMAIN after /\ Wants(after, t) /\ ~Answered(after, t)
  BY NextIsWanted
<1>2. t \in DOMAIN past /\ Wants(past, t)
  BY <1>1, CancelWantsNothing
<1>3. Answered(past, t)
  BY <1>2, NothingIsLeft
<1> QED
  BY <1>1, <1>2, <1>3, StaysAnswered

-------------------------------------------------------------------------------
\* What comes later in a log changes nothing: as long as nothing that came later consumed
\* a trigger, the walk over a log goes where the walk over its beginning goes.

\* One log is the beginning of another.
Begins(short, long) ==
  /\ Len(short) <= Len(long)
  /\ \A i \in DOMAIN short : long[i] = short[i]

\* What the two have in common.
LEMMA BeginFacts ==
  ASSUME NEW short, IsLog(short), NEW long, IsLog(long), Begins(short, long)
  PROVE  /\ DOMAIN short = 1..Len(short) /\ Len(short) \in Nat
         /\ DOMAIN long = 1..Len(long) /\ Len(long) \in Nat
         /\ Len(short) <= Len(long)
         /\ \A i \in DOMAIN short : i \in DOMAIN long /\ long[i] = short[i]
         /\ \A kind : \A i \in Of(short, kind) : i \in Of(long, kind) /\ i \in DOMAIN short
         /\ \A kind : \A i \in Of(long, kind) : i \in DOMAIN short => i \in Of(short, kind)
         /\ \A s \in DOMAIN short : ObservedBy(long, s) = ObservedBy(short, s)
         /\ \A i \in DOMAIN short : IsExternalDecisionFact(long, i) <=> IsExternalDecisionFact(short, i)
<1>1. /\ DOMAIN short = 1..Len(short) /\ Len(short) \in Nat
      /\ DOMAIN long = 1..Len(long) /\ Len(long) \in Nat
      /\ Len(short) <= Len(long)
  BY DEF IsLog, Begins
<1>2. \A i \in DOMAIN short : i \in DOMAIN long /\ long[i] = short[i]
  BY <1>1 DEF Begins
<1>3. /\ \A kind : \A i \in Of(short, kind) : i \in Of(long, kind) /\ i \in DOMAIN short
      /\ \A kind : \A i \in Of(long, kind) : i \in DOMAIN short => i \in Of(short, kind)
  BY <1>2 DEF Of
<1>4. \A s \in DOMAIN short : ObservedBy(long, s) = ObservedBy(short, s)
  BY <1>2 DEF ObservedBy
<1>5. \A i \in DOMAIN short : IsExternalDecisionFact(long, i) <=> IsExternalDecisionFact(short, i)
  BY <1>2 DEF IsExternalDecisionFact
<1> QED
  BY <1>1, <1>2, <1>3, <1>4, <1>5

\* The view shows every attempt and outcome in the beginning of a command it knows.
AllFollowUpsShown(view, short) ==
  \A j \in DOMAIN short :
    /\ short[j].kind \in {"attempt", "outcome"}
    /\ Known(view.commands[short[j].command])
    => Shown(view, j)

\* A batch that is complete, as far as the log says, has nothing left in the beginning.
LEMMA CompleteShowsAll ==
  ASSUME NEW short, IsLog(short), NEW long, IsLog(long), Begins(short, long),
         ~Operational(long).raised, NEW view, ViewIsTrue(view, short),
         WaitedBatchComplete(view, Operational(long))
  PROVE  AllFollowUpsShown(view, short)
<1> SUFFICES ASSUME NEW j \in DOMAIN short, short[j].kind \in {"attempt", "outcome"},
                    Known(view.commands[short[j].command])
             PROVE  Shown(view, j)
  BY DEF AllFollowUpsShown
<1>1. PICK ops : ops = Operational(long)
  OBVIOUS
<1>2. ViewIsTrue(ops, long) /\ \A i \in DOMAIN long : Shown(ops, i)
  BY <1>1, OperationalIsTrue
<1>3. PICK c : c = short[j].command
  OBVIOUS
<1>4. c \in Commands /\ j \in Positions
  BY <1>3, EventTyped, EventFields DEF AboutCommand
<1>5. \A i \in DOMAIN short : i \in DOMAIN long /\ long[i] = short[i]
  BY BeginFacts
<1>6. StateIsTrue(ops, long, c) /\ StateIsTrue(view, short, c) /\ view.commands[c] \in CommandStates
  BY <1>2, <1>4 DEF ViewIsTrue, Views
<1>7. /\ short[j].kind = "attempt" => ops.commands[c].attempt = j
      /\ short[j].kind = "outcome" => ops.commands[c].outcome = j
  BY <1>2, <1>3, <1>4, <1>5, <1>6 DEF StateIsTrue
<1>8. j # None
  BY EventTyped
<1>9. ops.commands[c].attempt # None
  BY <1>6, <1>7, <1>8 DEF StateIsTrue, Terminal
<1>10. Terminal(view.commands[c])
  BY <1>1, <1>3, <1>4, <1>9 DEF WaitedBatchComplete
<1>11. PICK o, a : o = view.commands[c].outcome /\ a = view.commands[c].attempt
  OBVIOUS
<1>12. o \in Positions /\ a \in Positions
  BY <1>6, <1>10, <1>11 DEF StateIsTrue, CommandStates, Terminal
<1>13. /\ Shown(view, o) /\ short[o].kind = "outcome" /\ short[o].command = c
       /\ Shown(view, a) /\ short[a].kind = "attempt" /\ short[a].command = c
  BY <1>6, <1>11, <1>12 DEF StateIsTrue
<1>14. o \in DOMAIN short /\ a \in DOMAIN short
  BY <1>13 DEF ViewIsTrue
<1>15. ops.commands[c].outcome = o /\ ops.commands[c].attempt = a
  BY <1>2, <1>5, <1>6, <1>12, <1>13, <1>14 DEF StateIsTrue
<1> QED
  BY <1>7, <1>13, <1>15

\* An event that is not included.
NotIncluded(view, past, t, until, i) ==
  \/ view.raised
  \/ i \notin t + 1..until
  \/ Shown(view, i)
  \/ ~IsWaitedFollowUp(view, past[i])

\* Two logs include follow-ups alike, and neither stops before all are shown.
IncludeAlike(wait, other, short) ==
  /\ other.view = wait.view
  /\ ViewIsTrue(wait.view, short)
  /\ wait.complete \in BOOLEAN /\ other.complete \in BOOLEAN
  /\ wait.complete \/ other.complete => AllFollowUpsShown(wait.view, short)

\* One more event of the beginning is included in both or in neither.
LEMMA IncludeStepAlike ==
  ASSUME NEW short, IsLog(short), NEW long, IsLog(long), Begins(short, long),
         ~Operational(short).raised, ~Operational(long).raised,
         NEW t \in Nat, NEW until \in Nat, NEW i \in DOMAIN short,
         NEW wait, NEW other, IncludeAlike(wait, other, short)
  PROVE  IncludeAlike(IncludeFollowUp(wait, short, i, t, Operational(short), until),
                      IncludeFollowUp(other, long, i, t, Operational(long), until), short)
<1>1. PICK opsShort, opsLong : opsShort = Operational(short) /\ opsLong = Operational(long)
  OBVIOUS
<1>2. PICK after, otherAfter :
        /\ after = IncludeFollowUp(wait, short, i, t, opsShort, until)
        /\ otherAfter = IncludeFollowUp(other, long, i, t, opsLong, until)
  OBVIOUS
<1>3. /\ other.view = wait.view /\ ViewIsTrue(wait.view, short)
      /\ wait.complete \in BOOLEAN /\ other.complete \in BOOLEAN
      /\ wait.complete \/ other.complete => AllFollowUpsShown(wait.view, short)
  BY DEF IncludeAlike
<1>4. long[i] = short[i]
  BY BeginFacts
<1>5. CASE NotIncluded(wait.view, short, t, until, i)
  <2>1. after = wait
    BY <1>2, <1>5 DEF IncludeFollowUp, NotIncluded
  <2>2. otherAfter = other
    BY <1>2, <1>3, <1>4, <1>5 DEF IncludeFollowUp, NotIncluded
  <2> QED
    BY <1>1, <1>2, <2>1, <2>2
<1>6. CASE ~NotIncluded(wait.view, short, t, until, i)
  <2>1. /\ ~wait.view.raised /\ i \in t + 1..until
        /\ ~Shown(wait.view, i) /\ IsWaitedFollowUp(wait.view, short[i])
    BY <1>6 DEF NotIncluded
  <2>2. ~wait.complete /\ ~other.complete
    BY <1>3, <2>1 DEF AllFollowUpsShown, IsWaitedFollowUp
  <2>3. PICK shown : shown = ApplyRegular(wait.view, short, i)
    OBVIOUS
  <2>4. shown = ApplyRegular(wait.view, long, i)
    BY <1>4, <2>3 DEF ApplyRegular
  <2>5. after = [view |-> shown, complete |-> WaitedBatchComplete(shown, opsShort)]
    BY <1>2, <2>1, <2>2, <2>3 DEF IncludeFollowUp
  <2>6. otherAfter = [view |-> shown, complete |-> WaitedBatchComplete(shown, opsLong)]
    BY <1>2, <1>3, <1>4, <2>1, <2>2, <2>4 DEF IncludeFollowUp
  <2>7. ViewIsTrue(shown, short)
    BY <1>3, <2>1, <2>3, ApplyRegularIsTrue DEF IsWaitedFollowUp
  <2>8. Begins(short, short)
    BY DEF Begins, IsLog
  <2>9. after.complete => AllFollowUpsShown(shown, short)
    BY <1>1, <2>5, <2>7, <2>8, CompleteShowsAll
  <2>10. otherAfter.complete => AllFollowUpsShown(shown, short)
    BY <1>1, <2>6, <2>7, CompleteShowsAll
  <2>11. after.complete \in BOOLEAN /\ otherAfter.complete \in BOOLEAN
    BY <2>5, <2>6 DEF WaitedBatchComplete
  <2>12. after.view = shown /\ otherAfter.view = shown
    BY <2>5, <2>6
  <2> QED
    BY <1>1, <1>2, <2>7, <2>9, <2>10, <2>11, <2>12 DEF IncludeAlike
<1> QED
  BY <1>5, <1>6

\* The follow-ups of a frame that looked no further than the beginning are the same.
LEMMA SameFollowUps ==
  ASSUME NEW short, IsLog(short), NEW long, IsLog(long), Begins(short, long),
         ~Operational(short).raised, ~Operational(long).raised,
         NEW view, ViewIsTrue(view, short), NEW t \in Nat, NEW until \in 0..Len(short)
  PROVE  WithWaitedFollowUps(view, long, t, Operational(long), until)
           = WithWaitedFollowUps(view, short, t, Operational(short), until)
<1>0. PICK opsShort, opsLong : opsShort = Operational(short) /\ opsLong = Operational(long)
  OBVIOUS
<1> DEFINE at(n) == WaitAt(view, short, t, opsShort, until, n)
           other(n) == WaitAt(view, long, t, opsLong, until, n)
<1>1. /\ short \in Seq(Events) /\ Len(short) \in Nat /\ DOMAIN short = 1..Len(short)
      /\ long \in Seq(Events) /\ Len(long) \in Nat /\ DOMAIN long = 1..Len(long)
      /\ Len(short) <= Len(long) /\ until \in Nat
  BY BeginFacts DEF IsLog
<1>2. /\ WithWaitedFollowUps(view, short, t, opsShort, until) = at(Len(short)).view
      /\ at(0) = [view |-> view, complete |-> FALSE]
      /\ \A n \in 1..Len(short) : at(n) = IncludeFollowUp(at(n - 1), short, n, t, opsShort, until)
  BY FollowUpsOfLog
<1>3. /\ WithWaitedFollowUps(view, long, t, opsLong, until) = other(Len(long)).view
      /\ other(0) = [view |-> view, complete |-> FALSE]
      /\ \A n \in 1..Len(long) : other(n) = IncludeFollowUp(other(n - 1), long, n, t, opsLong, until)
  BY FollowUpsOfLog
<1> HIDE DEF at, other
<1> DEFINE S == {n \in 0..Len(short) : IncludeAlike(at(n), other(n), short)}
<1>4. 0 \in S
  <2>1. PICK wait : wait = at(0) /\ wait = other(0)
    BY <1>2, <1>3
  <2>2. wait.view = view /\ wait.complete = FALSE
    BY <1>2, <2>1
  <2>3. IncludeAlike(wait, wait, short)
    BY <2>2 DEF IncludeAlike
  <2> QED
    BY <1>1, <2>1, <2>3
<1>5. ASSUME NEW n \in 0..Len(short) - 1, n \in S
      PROVE  n + 1 \in S
  <2>1. PICK i : i = n + 1
    OBVIOUS
  <2>2. /\ i \in 1..Len(short) /\ i \in 0..Len(short) /\ i - 1 = n /\ i \in DOMAIN short
        /\ i \in 1..Len(long)
    BY <1>1, <2>1
  <2>3. /\ at(i) = IncludeFollowUp(at(n), short, i, t, opsShort, until)
        /\ other(i) = IncludeFollowUp(other(n), long, i, t, opsLong, until)
    BY <1>2, <1>3, <2>2
  <2>4. IncludeAlike(at(n), other(n), short)
    BY <1>5
  <2>5. IncludeAlike(at(i), other(i), short)
    BY <1>0, <1>1, <2>2, <2>3, <2>4, IncludeStepAlike
  <2> QED
    BY <2>1, <2>2, <2>5
<1>6. IncludeAlike(at(Len(short)), other(Len(short)), short)
  <2> HIDE DEF S
  <2>1. Len(short) \in Nat
    BY <1>1
  <2>2. 0..Len(short) \subseteq S
    BY <1>4, <1>5, <2>1, Ops!UpTo
  <2>3. Len(short) \in S
    BY <2>1, <2>2
  <2> QED
    BY <2>3 DEF S
<1>7. other(Len(long)) = other(Len(short))
  <2> DEFINE T == {n \in 0..Len(long) : n >= Len(short) => other(n) = other(Len(short))}
  <2>1. 0 \in T
    <3>1. 0 >= Len(short) => Len(short) = 0
      BY <1>1
    <3> QED
      BY <1>1, <3>1
  <2>2. ASSUME NEW n \in 0..Len(long) - 1, n \in T
        PROVE  n + 1 \in T
    <3>1. PICK i : i = n + 1
      OBVIOUS
    <3>2. i \in 1..Len(long) /\ i \in 0..Len(long) /\ i - 1 = n
      BY <1>1, <3>1
    <3>3. CASE n >= Len(short)
      <4>1. i \notin t + 1..until
        BY <1>1, <3>1, <3>3
      <4>2. other(i) = IncludeFollowUp(other(n), long, i, t, opsLong, until)
        BY <1>3, <3>2
      <4>3. other(i) = other(n)
        BY <4>1, <4>2 DEF IncludeFollowUp
      <4> QED
        BY <2>2, <3>1, <3>2, <3>3, <4>3
    <3>4. CASE ~(n >= Len(short))
      <4>0. PICK last : last = Len(short)
        OBVIOUS
      <4>01. last \in Nat /\ n \in Int /\ ~(n >= last)
        BY <1>1, <3>4, <4>0
      <4>1. i >= Len(short) => i = Len(short)
        BY <3>1, <4>0, <4>01
      <4>2. i >= Len(short) => other(i) = other(Len(short))
        BY <4>1
      <4> QED
        BY <3>1, <3>2, <4>2
    <3> QED
      BY <3>3, <3>4
  <2> HIDE DEF T
  <2>3. Len(long) \in Nat
    BY <1>1
  <2>4. 0..Len(long) \subseteq T
    BY <2>1, <2>2, <2>3, Ops!UpTo
  <2>5. Len(long) \in T
    BY <2>3, <2>4
  <2> QED
    BY <1>1, <2>5 DEF T
<1> QED
  BY <1>0, <1>2, <1>3, <1>6, <1>7 DEF IncludeAlike

\* So is the view of the decision.
LEMMA SameDecisionView ==
  ASSUME NEW short, IsLog(short), NEW long, IsLog(long), Begins(short, long),
         ~Operational(short).raised, ~Operational(long).raised,
         NEW view, ViewIsTrue(view, short), NEW t \in DOMAIN short, NEW until \in 0..Len(short)
  PROVE  DecisionView(view, long, t, Operational(long), until)
           = DecisionView(view, short, t, Operational(short), until)
<1>1. IsExternalDecisionFact(long, t) <=> IsExternalDecisionFact(short, t)
  BY BeginFacts
<1>2. t \in Nat
  BY EventTyped DEF Positions
<1> QED
  BY <1>1, <1>2, SameFollowUps DEF DecisionView

\* What requires a decision in the log required it in the beginning already.
LEMMA RequiredBefore ==
  ASSUME NEW short, IsLog(short), NEW long, IsLog(long), Begins(short, long),
         NEW view, ViewIsTrue(view, short), NEW i \in DOMAIN short,
         RequiresDecision(view, long, i)
  PROVE  RequiresDecision(view, short, i)
<1>1. /\ long[i] = short[i]
      /\ IsExternalDecisionFact(long, i) <=> IsExternalDecisionFact(short, i)
  BY BeginFacts
<1>2. CASE IsExternalDecisionFact(long, i) \/ long[i].kind = "reject"
  BY <1>1, <1>2 DEF RequiresDecision
<1>3. CASE ~(IsExternalDecisionFact(long, i) \/ long[i].kind = "reject")
  <2>1. PICK c, s : c = short[i].command /\ s = view.commands[c].issued
    OBVIOUS
  <2>2. /\ short[i].kind = "outcome"
        /\ view.commands[c].outcome = i
        /\ c \notin NoDecision
        /\ ContinuationOpen(long, s)
        /\ GroupClosed(view, c)
        /\ ~Superseded(long, ObservedBy(long, s))
    BY <1>1, <1>3, <2>1 DEF RequiresDecision
  <2>3. c \in Commands /\ i # None
    BY <2>1, <2>2, EventTyped, EventFields DEF AboutCommand
  <2>4. /\ Terminal(view.commands[c]) /\ StateIsTrue(view, short, c)
        /\ view.commands[c] \in CommandStates
    BY <2>2, <2>3 DEF Terminal, ViewIsTrue, Views
  <2>5. s \in Positions
    BY <2>1, <2>4 DEF StateIsTrue, Known, CommandStates
  <2>6. s \in DOMAIN short
    BY <2>1, <2>4, <2>5 DEF StateIsTrue, ViewIsTrue
  <2>7. ObservedBy(long, s) = ObservedBy(short, s)
    BY <2>6, BeginFacts
  <2>8. ContinuationOpen(short, s)
    <3>1. \A k \in Of(short, "stop") : k \in Of(long, "stop") /\ long[k] = short[k]
      BY BeginFacts
    <3> QED
      BY <2>2, <3>1 DEF ContinuationOpen, StopsFor
  <2>9. ~Superseded(short, ObservedBy(short, s))
    BY <2>2, <2>7, BeginFacts DEF Superseded
  <2> QED
    BY <2>1, <2>2, <2>8, <2>9 DEF RequiresDecision
<1> QED
  BY <1>2, <1>3

\* A walk that has neither stopped nor raised.
GoesOn(walk) == ~walk.halted /\ ~walk.view.raised

\* A walk that goes on has gone on until then.
LEMMA WentOn ==
  ASSUME NEW past, IsLog(past), NEW operational,
         NEW m \in 0..Len(past), GoesOn(WalkAt(past, operational, m))
  PROVE  \A n \in 0..m : GoesOn(WalkAt(past, operational, n))
<1> DEFINE at(n) == WalkAt(past, operational, n)
<1>0. Len(past) \in Nat /\ m \in Nat /\ m <= Len(past)
  BY DEF IsLog
<1>1. /\ Len(past) \in Nat /\ m \in Nat /\ m <= Len(past)
      /\ \A n \in 1..Len(past) : at(n) = WalkOn(at(n - 1), past, n, operational)
  BY <1>0, WalkOfLog
<1>2. GoesOn(at(m))
  OBVIOUS
<1> HIDE DEF at
<1> DEFINE S == {j \in 0..m : GoesOn(at(m - j))}
<1>3. 0 \in S
  BY <1>1, <1>2
<1>4. ASSUME NEW j \in 0..m - 1, j \in S
      PROVE  j + 1 \in S
  <2>1. PICK n : n = m - j
    OBVIOUS
  <2>2. n \in 1..Len(past) /\ m - (j + 1) = n - 1 /\ j + 1 \in 0..m
    BY <1>1, <2>1
  <2>3. GoesOn(at(n)) /\ at(n) = WalkOn(at(n - 1), past, n, operational)
    BY <1>1, <1>4, <2>1, <2>2
  <2>4. GoesOn(at(n - 1))
    BY <2>3 DEF GoesOn, WalkOn
  <2> QED
    BY <2>2, <2>4
<1> HIDE DEF S
<1>5. 0..m \subseteq S
  BY <1>1, <1>3, <1>4, Ops!UpTo
<1> SUFFICES ASSUME NEW n \in 0..m PROVE GoesOn(at(n))
  BY DEF at
<1>6. m - n \in S /\ m - (m - n) = n
  BY <1>1, <1>5
<1> QED
  BY <1>6 DEF S

\* Arrival i was consumed by the same events in both, which the beginning has.
SameConsumers(short, long, i) ==
  StepsFor(long, i) = StepsFor(short, i) /\ CancelsFor(long, i) = CancelsFor(short, i)

\* A decision, replayed in the log as in its beginning.
LEMMA SameDecision ==
  ASSUME NEW short, IsLog(short), NEW long, IsLog(long), Begins(short, long),
         ~Operational(short).raised, ~Operational(long).raised,
         NEW t \in DOMAIN short, NEW walk, ViewIsTrue(walk.view, short),
         NEW s \in Of(short, "step"), ObservedBy(short, s) <= Len(short)
  PROVE  ApplyDecision(walk, long, t, s, Operational(long))
           = ApplyDecision(walk, short, t, s, Operational(short))
<1>1. long[s] = short[s] /\ s \in DOMAIN short /\ Len(short) \in Nat
  BY BeginFacts DEF Of
<1>2. ObservedBy(short, s) \in 0..Len(short)
  BY <1>1 DEF IsLog
<1>3. PICK until : until = ObservedBy(short, s)
  OBVIOUS
<1>4. /\ ShownUntil(long, long[s].request.frame) = until
      /\ ShownUntil(short, short[s].request.frame) = until
  BY <1>1, <1>3 DEF ShownUntil, ObservedBy
<1>5. PICK view : view = DecisionView(walk.view, short, t, Operational(short), until)
  OBVIOUS
<1>6. DecisionView(walk.view, long, t, Operational(long), until) = view
  BY <1>2, <1>3, <1>5, SameDecisionView
<1>7. Decided(walk, view, long, s) = Decided(walk, view, short, s)
  BY <1>1 DEF Decided, ApplyStep
<1> QED
  BY <1>4, <1>5, <1>6, <1>7 DEF ApplyDecision

\* What an arrival the walk goes on from leads to is the same.
LEMMA SameArrival ==
  ASSUME NEW short, IsLog(short), NEW long, IsLog(long), Begins(short, long),
         ~Operational(short).raised, ~Operational(long).raised,
         \A s \in Of(short, "step") : ObservedBy(short, s) <= Len(short),
         NEW i \in DOMAIN short, SameConsumers(short, long, i),
         NEW walk \in WalkStates, ViewIsTrue(walk.view, short), GoesOn(walk),
         GoesOn(Arrive(walk, short, i, Operational(short)))
  PROVE  Arrive(walk, long, i, Operational(long)) = Arrive(walk, short, i, Operational(short))
<1>1. PICK steps, stops : steps = StepsFor(short, i) /\ stops = CancelsFor(short, i)
  OBVIOUS
<1>2. /\ StepsFor(long, i) = steps /\ CancelsFor(long, i) = stops
      /\ ~walk.view.raised
  BY <1>1 DEF SameConsumers, GoesOn
<1>3. CASE stops # {}
  <2>1. PICK k \in stops : k = CHOOSE j \in stops : TRUE
    BY <1>3
  <2>2. k \in DOMAIN short
    BY <1>1 DEF CancelsFor, Of
  <2>3. long[k] = short[k]
    BY <2>2, BeginFacts
  <2>4. ApplyCancellation(walk, long, k) = ApplyCancellation(walk, short, k)
    BY <2>3 DEF ApplyCancellation, ApplyRegular
  <2>5. /\ Arrive(walk, short, i, Operational(short)) = ApplyCancellation(walk, short, k)
        /\ Arrive(walk, long, i, Operational(long)) = ApplyCancellation(walk, long, k)
    BY <1>1, <1>2, <1>3, <2>1 DEF Arrive
  <2> QED
    BY <2>4, <2>5
<1>4. CASE stops = {} /\ steps # {}
  <2>1. PICK s \in steps : s = CHOOSE j \in steps : TRUE
    BY <1>4
  <2>2. s \in Of(short, "step")
    BY <1>1 DEF StepsFor
  <2>3. ApplyDecision(walk, long, i, s, Operational(long))
          = ApplyDecision(walk, short, i, s, Operational(short))
    BY <2>2, SameDecision
  <2>4. /\ Arrive(walk, short, i, Operational(short)) = ApplyDecision(walk, short, i, s, Operational(short))
        /\ Arrive(walk, long, i, Operational(long)) = ApplyDecision(walk, long, i, s, Operational(long))
    BY <1>1, <1>2, <1>4, <2>1 DEF Arrive
  <2> QED
    BY <2>3, <2>4
<1>5. CASE stops = {} /\ steps = {}
  <2>1. /\ Arrive(walk, short, i, Operational(short)) = ConsiderTrigger(walk, short, i, Operational(short))
        /\ Arrive(walk, long, i, Operational(long)) = ConsiderTrigger(walk, long, i, Operational(long))
    BY <1>1, <1>2, <1>5 DEF Arrive
  <2>2. ~RequiresDecision(walk.view, short, i)
    <3> SUFFICES ASSUME RequiresDecision(walk.view, short, i) PROVE FALSE
      OBVIOUS
    <3>1. \/ ConsiderTrigger(walk, short, i, Operational(short)) = [walk EXCEPT !.halted = TRUE]
          \/ ConsiderTrigger(walk, short, i, Operational(short)) =
               [walk EXCEPT !.halted = TRUE, !.next = i,
                            !.view = DecisionView(@, short, i, Operational(short), Len(short))]
      BY DEF ConsiderTrigger
    <3>2. ConsiderTrigger(walk, short, i, Operational(short)).halted
      BY <3>1 DEF WalkStates
    <3> QED
      BY <2>1, <3>2 DEF GoesOn
  <2>3. ~RequiresDecision(walk.view, long, i)
    BY <2>2, RequiredBefore
  <2>4. /\ ConsiderTrigger(walk, short, i, Operational(short)) = walk
        /\ ConsiderTrigger(walk, long, i, Operational(long)) = walk
    BY <2>2, <2>3 DEF ConsiderTrigger
  <2> QED
    BY <2>1, <2>4
<1> QED
  BY <1>3, <1>4, <1>5

\* One more event of the beginning, walked alike.
LEMMA SameStep ==
  ASSUME NEW short, IsLog(short), NEW long, IsLog(long), Begins(short, long),
         ~Operational(short).raised, ~Operational(long).raised,
         \A s \in Of(short, "step") : ObservedBy(short, s) <= Len(short),
         NEW i \in DOMAIN short, SameConsumers(short, long, i),
         NEW walk, WalkIsSound(walk, short, i - 1), GoesOn(walk),
         GoesOn(WalkOn(walk, short, i, Operational(short)))
  PROVE  WalkOn(walk, long, i, Operational(long)) = WalkOn(walk, short, i, Operational(short))
<1>1. long[i] = short[i]
  BY BeginFacts
<1>2. walk \in WalkStates /\ ViewIsTrue(walk.view, short) /\ ~walk.halted /\ ~walk.view.raised
  BY DEF WalkIsSound, GoesOn
<1>3. CASE short[i].kind = "step" \/ Shown(walk.view, i)
  BY <1>1, <1>3 DEF WalkOn
<1>4. CASE ~(short[i].kind = "step" \/ Shown(walk.view, i))
  <2>1. PICK view : view = ApplyRegular(walk.view, short, i)
    OBVIOUS
  <2>2. view = ApplyRegular(walk.view, long, i)
    BY <1>1, <2>1 DEF ApplyRegular
  <2>3. PICK here : here = [walk EXCEPT !.view = view]
    OBVIOUS
  <2>4. /\ WalkOn(walk, short, i, Operational(short)) = Arrive(here, short, i, Operational(short))
        /\ WalkOn(walk, long, i, Operational(long)) = Arrive(here, long, i, Operational(long))
    BY <1>1, <1>2, <1>4, <2>1, <2>2, <2>3 DEF WalkOn
  <2>5. ViewIsTrue(view, short)
    BY <1>2, <1>4, <2>1, ApplyRegularIsTrue
  <2>6. /\ here \in WalkStates /\ here.view = view /\ ~here.halted
    BY <1>2, <2>3, <2>5 DEF WalkStates, ViewIsTrue
  <2>7. GoesOn(Arrive(here, short, i, Operational(short)))
    BY <2>4
  <2>8. ~here.view.raised
    BY <2>7 DEF Arrive, GoesOn
  <2>9. Arrive(here, long, i, Operational(long)) = Arrive(here, short, i, Operational(short))
    BY <2>5, <2>6, <2>7, <2>8, SameArrival DEF GoesOn
  <2> QED
    BY <2>4, <2>9
<1> QED
  BY <1>3, <1>4

\* As long as nothing that came later consumed an arrival, the walk over the log goes
\* where the walk over its beginning goes.
LEMMA SameWalk ==
  ASSUME NEW short, IsLog(short), NEW long, IsLog(long), Begins(short, long), IssuedOnce(short),
         ~Operational(short).raised, ~Operational(long).raised,
         \A s \in Of(short, "step") : ObservedBy(short, s) <= Len(short),
         NEW m \in 0..Len(short), \A i \in 1..m : SameConsumers(short, long, i),
         GoesOn(WalkAt(short, Operational(short), m))
  PROVE  WalkAt(long, Operational(long), m) = WalkAt(short, Operational(short), m)
<1>1. PICK opsShort, opsLong : opsShort = Operational(short) /\ opsLong = Operational(long)
  OBVIOUS
<1> DEFINE at(n) == WalkAt(short, opsShort, n)
           other(n) == WalkAt(long, opsLong, n)
<1>2. /\ DOMAIN short = 1..Len(short) /\ Len(short) \in Nat /\ Len(long) \in Nat
      /\ Len(short) <= Len(long)
  BY BeginFacts
<1>3. m \in Nat /\ m <= Len(short)
  BY <1>2
<1>4. /\ at(0) = other(0)
      /\ \A n \in 1..Len(short) : at(n) = WalkOn(at(n - 1), short, n, opsShort)
      /\ \A n \in 1..Len(long) : other(n) = WalkOn(other(n - 1), long, n, opsLong)
  BY WalkOfLog
<1>5. \A n \in 0..Len(short) : WalkIsSound(at(n), short, n)
  BY WalkIsThoroughAtEach
<1>6. \A n \in 0..m : GoesOn(at(n))
  BY <1>1, WentOn
<1> HIDE DEF at, other
<1> DEFINE S == {n \in 0..m : other(n) = at(n)}
<1>7. 0 \in S
  BY <1>3, <1>4
<1>8. ASSUME NEW n \in 0..m - 1, n \in S
      PROVE  n + 1 \in S
  <2>1. PICK i : i = n + 1
    OBVIOUS
  <2>2. /\ i - 1 = n /\ i \in 1..m /\ i \in 0..m /\ i \in 1..Len(short) /\ i \in 1..Len(long)
        /\ n \in 0..m /\ n \in 0..Len(short)
    BY <1>2, <1>3, <2>1
  <2>3. PICK walk : walk = at(n) /\ walk = other(n)
    BY <1>8
  <2>4. at(i) = WalkOn(walk, short, i, opsShort) /\ other(i) = WalkOn(walk, long, i, opsLong)
    BY <1>4, <2>2, <2>3
  <2>5. WalkIsSound(walk, short, i - 1) /\ GoesOn(walk) /\ GoesOn(WalkOn(walk, short, i, opsShort))
    BY <1>5, <1>6, <2>2, <2>3, <2>4
  <2>6. i \in DOMAIN short /\ SameConsumers(short, long, i)
    BY <1>2, <2>2
  <2>7. WalkOn(walk, long, i, opsLong) = WalkOn(walk, short, i, opsShort)
    BY <1>1, <2>5, <2>6, SameStep
  <2> QED
    BY <2>1, <2>2, <2>4, <2>7
<1> HIDE DEF S
<1>9. m \in S
  <2>1. 0..m \subseteq S
    BY <1>3, <1>7, <1>8, Ops!UpTo
  <2> QED
    BY <1>3, <2>1
<1>10. other(m) = at(m)
  BY <1>9 DEF S
<1> QED
  BY <1>1, <1>10 DEF at, other

-------------------------------------------------------------------------------
\* In a log whose events the Journal justifies, an event applies to a view that shows what
\* it comes from.

\* Event e makes command c eligible.
EligibleBy(past, e, c) ==
  \/ past[e].kind = "grant" /\ past[e].command = c
  \/ past[e].kind = "step" /\ c \in past[e].commands \ NeedsAuthorization

\* Verdicts are caused by the step that issued their command, which has one at most.
VerdictsGrounded(past) ==
  /\ \A g \in DOMAIN past :
       past[g].kind \in {"grant", "reject"} =>
         /\ past[g].cause \in 1..g - 1
         /\ past[past[g].cause].kind = "step"
         /\ past[g].command \in past[past[g].cause].commands \cap NeedsAuthorization
  /\ \A g, h \in DOMAIN past :
       /\ past[g].kind \in {"grant", "reject"}
       /\ past[h].kind \in {"grant", "reject"}
       /\ past[g].command = past[h].command
       => g = h

\* Attempts are caused by what made their command eligible, which has one at most.
AttemptsGrounded(past) ==
  /\ \A a \in Of(past, "attempt") :
       /\ past[a].number = 1
       /\ past[a].cause \in 1..a - 1
       /\ EligibleBy(past, past[a].cause, past[a].command)
  /\ \A a, b \in Of(past, "attempt") : past[a].command = past[b].command => a = b

\* Outcomes end attempts of their command, each of which ends once at most.
OutcomesGrounded(past) ==
  /\ \A o \in Of(past, "outcome") :
       /\ past[o].attempt \in 1..o - 1
       /\ past[past[o].attempt].kind = "attempt"
       /\ past[past[o].attempt].command = past[o].command
  /\ \A o, p \in Of(past, "outcome") : past[o].attempt = past[p].attempt => o = p

\* Every event of a log is justified by those before it.
Grounded(past) ==
  /\ IssuedOnce(past)
  /\ VerdictsGrounded(past)
  /\ AttemptsGrounded(past)
  /\ OutcomesGrounded(past)

\* A view shows where the verdict, the eligibility and the attempt of a command come from.
StateIsTraced(view, past, c) ==
  LET state == view.commands[c] IN
  /\ state.rejected # None =>
       /\ Shown(view, state.rejected)
       /\ past[state.rejected].kind = "reject" /\ past[state.rejected].command = c
  /\ state.eligible # None => Shown(view, state.eligible) /\ EligibleBy(past, state.eligible, c)
  /\ state.attempt # None => Shown(view, past[state.attempt].cause)
  /\ \A g : Shown(view, g) /\ past[g].kind = "grant" /\ past[g].command = c => Known(state)
  /\ \A e : Shown(view, e) /\ EligibleBy(past, e, c) /\ state.attempt = None => state.eligible = e

ViewIsTraced(view, past) == \A c \in Commands : StateIsTraced(view, past, c)

\* What event i comes from is shown.
SourceIsShown(view, past, i) ==
  /\ past[i].kind \in {"grant", "reject", "attempt"} => Shown(view, past[i].cause)
  /\ past[i].kind = "outcome" => Shown(view, past[i].attempt)

\* The state of a command, in a true view and out of it.
LEMMA StateFields ==
  ASSUME NEW past, NEW view, ViewIsTrue(view, past), NEW c \in Commands
  PROVE  /\ view.commands[c] \in CommandStates
         /\ StateIsTrue(view, past, c)
         /\ \A i : Shown(view, i) => i \in DOMAIN past
BY DEF ViewIsTrue, Views

\* An event about a command whose source is shown, and which is not, applies.
LEMMA VerdictApplies ==
  ASSUME NEW past, IsLog(past), Grounded(past), NEW view, ViewIsTrue(view, past),
         ViewIsTraced(view, past), NEW i \in DOMAIN past, past[i].kind \in {"grant", "reject"},
         ~Shown(view, i), Shown(view, past[i].cause)
  PROVE  Applicable(past[i], view.commands[past[i].command])
<1>1. PICK c, cause : c = past[i].command /\ cause = past[i].cause
  OBVIOUS
<1>2. c \in Commands
  BY <1>1, EventTyped, EventFields DEF AboutCommand
<1>3. PICK state : state = view.commands[c]
  OBVIOUS
<1>4. state \in CommandStates /\ StateIsTrue(view, past, c) /\ \A j : Shown(view, j) => j \in DOMAIN past
  BY <1>2, <1>3, StateFields
<1>5. StateIsTraced(view, past, c)
  BY <1>2 DEF ViewIsTraced
<1>6. /\ past[cause].kind = "step" /\ c \in past[cause].commands /\ c \in NeedsAuthorization
      /\ \A h \in DOMAIN past :
           past[h].kind \in {"grant", "reject"} /\ past[h].command = c => h = i
  BY <1>1 DEF Grounded, VerdictsGrounded
<1>7. cause \in Positions /\ cause # None
  BY <1>1, <1>4, EventTyped
<1>8. state.issued = cause
  BY <1>1, <1>3, <1>4, <1>6, <1>7 DEF StateIsTrue
<1>9. \A e \in DOMAIN past : EligibleBy(past, e, c) => e = i
  BY <1>6 DEF EligibleBy
<1>10. state.eligible = None
  BY <1>3, <1>4, <1>5, <1>9 DEF StateIsTraced
<1>11. state.rejected = None
  BY <1>3, <1>4, <1>5, <1>6 DEF StateIsTraced
<1>12. state.attempt = None
  <2> SUFFICES ASSUME state.attempt # None PROVE FALSE
    OBVIOUS
  <2>1. PICK a : a = state.attempt
    OBVIOUS
  <2>2. a \in Positions
    BY <1>4, <2>1 DEF CommandStates
  <2>3. Shown(view, a) /\ past[a].kind = "attempt" /\ past[a].command = c
    BY <1>3, <1>4, <2>1, <2>2 DEF StateIsTrue
  <2>4. a \in Of(past, "attempt")
    BY <1>4, <2>3 DEF Of
  <2>5. EligibleBy(past, past[a].cause, c)
    BY <2>3, <2>4 DEF Grounded, AttemptsGrounded
  <2>6. Shown(view, past[a].cause)
    BY <1>3, <1>5, <2>1 DEF StateIsTraced
  <2> QED
    BY <1>4, <1>9, <2>5, <2>6
<1> QED
  BY <1>1, <1>3, <1>7, <1>8, <1>10, <1>11, <1>12 DEF Applicable, Unverdicted, Pending, Known

\* Of an attempt that is the first of its command,
LEMMA AttemptApplies ==
  ASSUME NEW past, IsLog(past), Grounded(past), NEW view, ViewIsTrue(view, past),
         ViewIsTraced(view, past), NEW i \in DOMAIN past, past[i].kind = "attempt",
         ~Shown(view, i), Shown(view, past[i].cause)
  PROVE  Applicable(past[i], view.commands[past[i].command])
<1>1. PICK c, cause : c = past[i].command /\ cause = past[i].cause
  OBVIOUS
<1>2. c \in Commands
  BY <1>1, EventTyped, EventFields DEF AboutCommand
<1>3. PICK state : state = view.commands[c]
  OBVIOUS
<1>4. state \in CommandStates /\ StateIsTrue(view, past, c) /\ \A j : Shown(view, j) => j \in DOMAIN past
  BY <1>2, <1>3, StateFields
<1>5. StateIsTraced(view, past, c)
  BY <1>2 DEF ViewIsTraced
<1>6. /\ past[i].number = 1
      /\ EligibleBy(past, cause, c)
      /\ \A a \in Of(past, "attempt") : past[a].command = c => a = i
  BY <1>1 DEF Grounded, AttemptsGrounded, Of
<1>7. cause \in Positions /\ cause # None
  BY <1>1, <1>4, EventTyped
<1>8. state.attempt = None
  BY <1>3, <1>4, <1>6 DEF StateIsTrue, CommandStates, Of
<1>9. Known(state)
  <2>1. CASE past[cause].kind = "grant"
    BY <1>1, <1>3, <1>5, <1>6, <2>1 DEF StateIsTraced, EligibleBy
  <2>2. CASE past[cause].kind # "grant"
    BY <1>1, <1>3, <1>4, <1>6, <1>7, <2>2 DEF StateIsTrue, EligibleBy, Known
  <2> QED
    BY <2>1, <2>2
<1>10. state.eligible = cause
  BY <1>1, <1>3, <1>5, <1>6, <1>8 DEF StateIsTraced
<1> QED
  BY <1>1, <1>3, <1>6, <1>8, <1>9, <1>10 DEF Applicable, Pending

\* and of the outcome of an attempt, the same is true.
LEMMA OutcomeApplies ==
  ASSUME NEW past, IsLog(past), Grounded(past), NEW view, ViewIsTrue(view, past),
         NEW i \in DOMAIN past, past[i].kind = "outcome",
         ~Shown(view, i), Shown(view, past[i].attempt)
  PROVE  Applicable(past[i], view.commands[past[i].command])
<1>1. PICK c, a : c = past[i].command /\ a = past[i].attempt
  OBVIOUS
<1>2. c \in Commands
  BY <1>1, EventTyped, EventFields DEF AboutCommand
<1>3. PICK state : state = view.commands[c]
  OBVIOUS
<1>4. state \in CommandStates /\ StateIsTrue(view, past, c) /\ \A j : Shown(view, j) => j \in DOMAIN past
  BY <1>2, <1>3, StateFields
<1>5. /\ past[a].kind = "attempt" /\ past[a].command = c
      /\ \A o \in Of(past, "outcome") : past[o].attempt = a => o = i
  BY <1>1 DEF Grounded, OutcomesGrounded, Of
<1>6. a \in Positions /\ a # None
  BY <1>1, <1>4, EventTyped
<1>7. state.attempt = a
  BY <1>1, <1>3, <1>4, <1>5, <1>6 DEF StateIsTrue
<1>8. Known(state)
  BY <1>3, <1>4, <1>6, <1>7 DEF StateIsTrue
<1>9. ~Terminal(state)
  <2> SUFFICES ASSUME Terminal(state) PROVE FALSE
    OBVIOUS
  <2>1. PICK o : o = state.outcome
    OBVIOUS
  <2>2. o \in Positions
    BY <1>4, <2>1 DEF CommandStates, Terminal
  <2>3. Shown(view, o) /\ past[o].kind = "outcome" /\ past[o].attempt = a
    BY <1>3, <1>4, <1>7, <2>1, <2>2 DEF StateIsTrue
  <2>4. o \in Of(past, "outcome")
    BY <1>4, <2>3 DEF Of
  <2> QED
    BY <1>5, <2>3, <2>4
<1> QED
  BY <1>1, <1>3, <1>7, <1>8, <1>9 DEF Applicable

\* So ApplyRegular does not raise.
LEMMA RegularApplies ==
  ASSUME NEW past, IsLog(past), Grounded(past), NEW view, ViewIsTrue(view, past),
         ViewIsTraced(view, past), NEW i \in DOMAIN past, past[i].kind # "step",
         AboutCommand(past[i]) => ~Shown(view, i), SourceIsShown(view, past, i), ~view.raised
  PROVE  ~ApplyRegular(view, past, i).raised
<1>1. view \in Views
  BY DEF ViewIsTrue
<1>2. CASE ~AboutCommand(past[i])
  BY <1>1, <1>2 DEF ApplyRegular, Show, Views
<1>3. CASE AboutCommand(past[i])
  <2>1. Applicable(past[i], view.commands[past[i].command])
    BY <1>3, VerdictApplies, AttemptApplies, OutcomeApplies DEF AboutCommand, SourceIsShown
  <2>2. PICK after : after = [view EXCEPT !.commands[past[i].command] = Applied(past[i], i, @)]
    OBVIOUS
  <2>3. ApplyRegular(view, past, i) = Show(after, i)
    BY <1>3, <2>1, <2>2 DEF ApplyRegular
  <2>4. after.raised = view.raised /\ Show(after, i).raised = after.raised
    BY <1>1, <2>2 DEF Views, Show
  <2> QED
    BY <2>3, <2>4
<1> QED
  BY <1>2, <1>3

\* The empty view has nothing to trace.
LEMMA EmptyViewIsTraced ==
  ASSUME NEW past
  PROVE  ViewIsTraced(EmptyView, past)
<1>1. \A i : ~Shown(EmptyView, i)
  BY EmptyViewIsTrue
<1>2. \A c \in Commands : EmptyView.commands[c] = UnissuedCommand
  BY DEF EmptyView
<1> QED
  BY <1>1, <1>2 DEF ViewIsTraced, StateIsTraced, UnissuedCommand

\* Showing an event that neither grants nor issues c leaves the state of c traced.
LEMMA OtherStateIsTraced ==
  ASSUME NEW past, NEW view, NEW c, StateIsTraced(view, past, c), NEW i,
         NEW after, \A j : Shown(after, j) <=> Shown(view, j) \/ j = i,
         after.commands[c] = view.commands[c],
         ~EligibleBy(past, i, c), past[i].kind = "grant" => past[i].command # c
  PROVE  StateIsTraced(after, past, c)
BY DEF StateIsTraced

\* An event applied leaves the states of the commands traced.
LEMMA RegularIsTraced ==
  ASSUME NEW past, IsLog(past), Grounded(past), NEW view, ViewIsTrue(view, past),
         ViewIsTraced(view, past), NEW i \in DOMAIN past, past[i].kind # "step",
         AboutCommand(past[i]) => ~Shown(view, i), ~ApplyRegular(view, past, i).raised
  PROVE  ViewIsTraced(ApplyRegular(view, past, i), past)
<1>1. PICK after : after = ApplyRegular(view, past, i)
  OBVIOUS
<1>2. \A j : Shown(after, j) <=> Shown(view, j) \/ j = i
  BY <1>1, ApplyRegularIsTrue
<1>3. view \in Views /\ i \in Positions /\ i # None
  BY EventTyped DEF ViewIsTrue
<1>4. CASE ~AboutCommand(past[i])
  <2>1. after.commands = view.commands
    BY <1>1, <1>3, <1>4 DEF ApplyRegular, Show, Views
  <2>2. \A c : ~EligibleBy(past, i, c) /\ past[i].kind # "grant"
    BY <1>4 DEF EligibleBy, AboutCommand
  <2>3. \A c \in Commands : StateIsTraced(after, past, c)
    BY <1>2, <2>1, <2>2, OtherStateIsTraced DEF ViewIsTraced
  <2> QED
    BY <1>1, <2>3 DEF ViewIsTraced
<1>5. CASE AboutCommand(past[i])
  <2>1. PICK d : d = past[i].command
    OBVIOUS
  <2>2. d \in Commands
    BY <1>5, <2>1, EventTyped, EventFields
  <2>3. Applicable(past[i], view.commands[d])
    BY <1>1, <1>5, <2>1 DEF ApplyRegular, Raise, Views, ViewIsTrue
  <2>4. PICK state : state = view.commands[d]
    OBVIOUS
  <2>5. state \in CommandStates /\ StateIsTraced(view, past, d)
    BY <1>3, <2>2, <2>4 DEF Views, ViewIsTraced
  <2>6. PICK changed : changed = Applied(past[i], i, state)
    OBVIOUS
  <2>7. after = Show([view EXCEPT !.commands[d] = changed], i)
    BY <1>1, <1>5, <2>1, <2>3, <2>4, <2>6 DEF ApplyRegular
  <2>8. after.commands = [view.commands EXCEPT ![d] = changed]
    BY <1>3, <2>7 DEF Show, Views
  <2>9. after.commands[d] = changed /\ \A c \in Commands \ {d} : after.commands[c] = view.commands[c]
    BY <1>3, <2>2, <2>8 DEF Views
  <2>10. ASSUME NEW c \in Commands \ {d} PROVE StateIsTraced(after, past, c)
    <3>1. ~EligibleBy(past, i, c) /\ (past[i].kind = "grant" => past[i].command # c)
      BY <1>5, <2>1 DEF EligibleBy
    <3>2. after.commands[c] = view.commands[c] /\ StateIsTraced(view, past, c)
      BY <2>9 DEF ViewIsTraced
    <3> QED
      BY <1>2, <3>1, <3>2, OtherStateIsTraced
  <2>11. StateIsTraced(after, past, d)
    <3>1. CASE past[i].kind = "grant"
      <4>1. changed = [state EXCEPT !.eligible = i] /\ Pending(state)
        BY <2>3, <2>4, <2>6, <3>1 DEF Applied, Applicable, Unverdicted
      <4>2. /\ changed.issued = state.issued /\ changed.rejected = state.rejected
            /\ changed.attempt = state.attempt /\ changed.eligible = i
        BY <2>5, <4>1 DEF CommandStates
      <4>3. EligibleBy(past, i, d)
        BY <2>1, <3>1 DEF EligibleBy
      <4>4. \A e \in DOMAIN past : EligibleBy(past, e, d) => e = i
        BY <2>1, <3>1 DEF EligibleBy, Grounded, VerdictsGrounded
      <4>5. \A e : Shown(after, e) => e \in DOMAIN past
        BY <1>2 DEF ViewIsTrue
      <4>6. Known(changed) /\ state.attempt = None
        BY <4>1, <4>2 DEF Known, Pending
      <4> QED
        BY <1>2, <2>5, <2>4, <2>9, <4>2, <4>3, <4>4, <4>5, <4>6 DEF StateIsTraced
    <3>2. CASE past[i].kind = "reject"
      <4>1. changed = [state EXCEPT !.rejected = i]
        BY <2>6, <3>2 DEF Applied
      <4>2. /\ changed.issued = state.issued /\ changed.rejected = i
            /\ changed.attempt = state.attempt /\ changed.eligible = state.eligible
        BY <2>5, <4>1 DEF CommandStates
      <4>3. ~EligibleBy(past, i, d)
        BY <3>2 DEF EligibleBy
      <4> QED
        BY <1>2, <2>1, <2>4, <2>5, <2>9, <3>2, <4>2, <4>3 DEF StateIsTraced, Known
    <3>3. CASE past[i].kind = "attempt"
      <4>1. changed = [state EXCEPT !.attempt = i, !.eligible = None]
        BY <2>6, <3>3 DEF Applied
      <4>2. /\ changed.issued = state.issued /\ changed.rejected = state.rejected
            /\ changed.attempt = i /\ changed.eligible = None
        BY <2>5, <4>1 DEF CommandStates
      <4>3. past[i].cause = state.eligible
        BY <2>3, <2>4, <3>3 DEF Applicable
      <4>4. past[i].cause # None
        BY <1>3, <3>3 DEF Grounded, AttemptsGrounded, Of, None
      <4>5. Shown(view, past[i].cause)
        BY <2>4, <2>5, <4>3, <4>4 DEF StateIsTraced
      <4> QED
        BY <1>2, <1>3, <2>4, <2>5, <2>9, <3>3, <4>2, <4>5 DEF StateIsTraced, Known
    <3>4. CASE past[i].kind = "outcome"
      <4>1. changed = [state EXCEPT !.outcome = i, !.eligible = None]
        BY <2>6, <3>4 DEF Applied
      <4>2. /\ changed.issued = state.issued /\ changed.rejected = state.rejected
            /\ changed.attempt = state.attempt /\ changed.eligible = None
        BY <2>5, <4>1 DEF CommandStates
      <4>3. state.attempt = past[i].attempt
        BY <2>3, <2>4, <3>4 DEF Applicable
      <4>4. past[i].attempt # None
        BY <1>3, <3>4 DEF Grounded, OutcomesGrounded, Of, None
      <4> QED
        BY <1>2, <2>4, <2>5, <2>9, <3>4, <4>2, <4>3, <4>4 DEF StateIsTraced, Known
    <3> QED
      BY <1>5, <3>1, <3>2, <3>3, <3>4 DEF AboutCommand
  <2> QED
    BY <1>1, <2>10, <2>11 DEF ViewIsTraced
<1> QED
  BY <1>4, <1>5

\* So does a step.
LEMMA StepIsTraced ==
  ASSUME NEW past, IsLog(past), Grounded(past), NEW view, ViewIsTrue(view, past),
         ViewIsTraced(view, past), NEW s \in DOMAIN past, past[s].kind = "step",
         ~ApplyStep(view, past, s).raised
  PROVE  ViewIsTraced(ApplyStep(view, past, s), past)
<1>1. PICK after : after = ApplyStep(view, past, s)
  OBVIOUS
<1>2. /\ \A j : Shown(after, j) <=> Shown(view, j) \/ j = s
      /\ \A c \in past[s].commands : ~Known(view.commands[c])
      /\ \A c \in Commands \ past[s].commands : after.commands[c] = view.commands[c]
      /\ ViewIsTrue(after, past)
  BY <1>1, ApplyStepIsTrue
<1>3. view \in Views /\ s \in Positions /\ s # None
  BY EventTyped DEF ViewIsTrue
<1>4. \A c \in Commands \cap past[s].commands : after.commands[c] = Issued(c, s)
  BY <1>1, <1>2, <1>3 DEF ApplyStep, Show, Views
<1>5. ASSUME NEW c \in Commands \ past[s].commands PROVE StateIsTraced(after, past, c)
  <2>1. ~EligibleBy(past, s, c) /\ past[s].kind # "grant"
    BY DEF EligibleBy
  <2> QED
    BY <1>2, <2>1, OtherStateIsTraced DEF ViewIsTraced
<1>6. ASSUME NEW c \in Commands \cap past[s].commands PROVE StateIsTraced(after, past, c)
  <2>1. PICK state : state = after.commands[c]
    OBVIOUS
  <2>2. /\ state.issued = s /\ state.rejected = None /\ state.attempt = None
        /\ state.eligible = IF c \in NeedsAuthorization THEN None ELSE s
    BY <1>4, <2>1 DEF Issued, UnissuedCommand
  <2>3. \A g : Shown(view, g) /\ past[g].kind = "grant" /\ past[g].command = c => FALSE
    BY <1>2 DEF ViewIsTraced, StateIsTraced
  <2>4. \A e \in Of(past, "step") : c \in past[e].commands => e = s
    BY DEF Grounded, IssuedOnce, Of
  <2>5. \A e : Shown(after, e) => e \in DOMAIN past
    BY <1>2 DEF ViewIsTrue
  <2>6. ASSUME NEW e, Shown(after, e), EligibleBy(past, e, c)
        PROVE  state.eligible = e
    <3>1. past[e].kind # "grant"
      <4>1. past[e].kind = "grant" => e # s
        OBVIOUS
      <4> QED
        BY <1>2, <2>3, <2>6, <4>1 DEF EligibleBy
    <3>2. past[e].kind = "step" /\ c \in past[e].commands /\ c \notin NeedsAuthorization
      BY <2>6, <3>1 DEF EligibleBy
    <3>3. e = s
      BY <2>4, <2>5, <2>6, <3>2 DEF Of
    <3> QED
      BY <2>2, <3>2, <3>3
  <2>7. Known(state)
    BY <1>3, <2>2 DEF Known
  <2>8. state.eligible # None => Shown(after, state.eligible) /\ EligibleBy(past, state.eligible, c)
    BY <1>2, <2>2 DEF EligibleBy
  <2> QED
    BY <2>1, <2>2, <2>6, <2>7, <2>8 DEF StateIsTraced
<1> QED
  BY <1>1, <1>5, <1>6 DEF ViewIsTraced

\* A view that has raised is of no use; another one is traced.
RaisedOrTraced(view, past) == view.raised \/ ViewIsTraced(view, past)

\* One more follow-up leaves the view traced.
LEMMA IncludeIsTraced ==
  ASSUME NEW past, IsLog(past), Grounded(past), NEW wait, ViewIsTrue(wait.view, past),
         RaisedOrTraced(wait.view, past), NEW i \in DOMAIN past, NEW t, NEW operational, NEW until
  PROVE  RaisedOrTraced(IncludeFollowUp(wait, past, i, t, operational, until).view, past)
<1>1. PICK after : after = IncludeFollowUp(wait, past, i, t, operational, until)
  OBVIOUS
<1>2. CASE NotIncluded(wait.view, past, t, until, i) \/ wait.complete
  <2>1. after = wait
    BY <1>1, <1>2 DEF IncludeFollowUp, NotIncluded
  <2> QED
    BY <1>1, <2>1
<1>3. CASE ~(NotIncluded(wait.view, past, t, until, i) \/ wait.complete)
  <2>1. /\ ~wait.view.raised /\ ~Shown(wait.view, i)
        /\ past[i].kind \in {"attempt", "outcome"}
    BY <1>3 DEF NotIncluded, IsWaitedFollowUp
  <2>2. after.view = ApplyRegular(wait.view, past, i)
    BY <1>1, <1>3 DEF IncludeFollowUp, NotIncluded
  <2>3. ViewIsTraced(wait.view, past)
    BY <2>1 DEF RaisedOrTraced
  <2> QED
    BY <1>1, <2>1, <2>2, <2>3, RegularIsTraced DEF RaisedOrTraced
<1> QED
  BY <1>2, <1>3

\* Including the follow-ups leaves the view traced.
LEMMA FollowUpsAreTraced ==
  ASSUME NEW past, IsLog(past), Grounded(past), NEW view, ViewIsTrue(view, past),
         RaisedOrTraced(view, past), NEW t \in Nat, NEW operational, NEW until \in Nat
  PROVE  RaisedOrTraced(WithWaitedFollowUps(view, past, t, operational, until), past)
<1> DEFINE at(n) == WaitAt(view, past, t, operational, until, n)
<1>1. /\ WithWaitedFollowUps(view, past, t, operational, until) = at(Len(past)).view
      /\ at(0) = [view |-> view, complete |-> FALSE]
      /\ \A n \in 1..Len(past) : at(n) = IncludeFollowUp(at(n - 1), past, n, t, operational, until)
  BY FollowUpsOfLog
<1>2. \A n \in 0..Len(past) : WaitIsDone(view, past, t, operational, until, n, at(n))
  BY FollowUpsAreShown
<1>3. Len(past) \in Nat /\ DOMAIN past = 1..Len(past)
  BY DEF IsLog
<1> HIDE DEF at
<1> DEFINE S == {n \in 0..Len(past) : RaisedOrTraced(at(n).view, past)}
<1>4. 0 \in S
  <2>1. at(0).view = view
    BY <1>1
  <2> QED
    BY <1>3, <2>1
<1>5. ASSUME NEW n \in 0..Len(past) - 1, n \in S
      PROVE  n + 1 \in S
  <2>1. PICK i : i = n + 1
    OBVIOUS
  <2>2. i \in DOMAIN past /\ i - 1 = n /\ i \in 0..Len(past) /\ n \in 0..Len(past)
    BY <1>3, <2>1
  <2>3. at(i) = IncludeFollowUp(at(n), past, i, t, operational, until)
    BY <1>1, <1>3, <2>2
  <2>4. ViewIsTrue(at(n).view, past)
    BY <1>2, <2>2 DEF WaitIsDone
  <2>5. RaisedOrTraced(at(n).view, past)
    BY <1>5
  <2>6. RaisedOrTraced(at(i).view, past)
    BY <2>2, <2>3, <2>4, <2>5, IncludeIsTraced
  <2> QED
    BY <2>1, <2>2, <2>6
<1> HIDE DEF S
<1>6. 0..Len(past) \subseteq S
  BY <1>3, <1>4, <1>5, Ops!UpTo
<1>7. Len(past) \in S
  BY <1>3, <1>6
<1>8. RaisedOrTraced(at(Len(past)).view, past)
  BY <1>7 DEF S
<1> QED
  BY <1>1, <1>8

\* So does the view of a decision.
LEMMA DecisionViewIsTraced ==
  ASSUME NEW past, IsLog(past), Grounded(past), NEW view, ViewIsTrue(view, past),
         RaisedOrTraced(view, past), NEW t \in DOMAIN past, NEW operational, NEW until \in Nat
  PROVE  RaisedOrTraced(DecisionView(view, past, t, operational, until), past)
<1>1. t \in Nat
  BY EventTyped DEF Positions
<1> QED
  BY <1>1, FollowUpsAreTraced DEF DecisionView

\* What the follow-ups after t come from is shown, unless it is one itself.
FollowUpsHaveSources(view, past, t) ==
  /\ \A j \in 1..t : past[j].kind # "step" => Shown(view, j)
  /\ \A a \in Of(past, "attempt") :
       t < a /\ Known(view.commands[past[a].command]) => Shown(view, past[a].cause)

\* The next follow-up to include has its source shown.
LEMMA FollowUpHasSource ==
  ASSUME NEW past, IsLog(past), Grounded(past), NEW view, ViewIsTrue(view, past),
         NEW t \in Nat, FollowUpsHaveSources(view, past, t),
         NEW n \in Nat, NEW wait, NEW operational, NEW until \in Nat,
         WaitIsDone(view, past, t, operational, until, n, wait),
         ~wait.complete, ~wait.view.raised,
         NEW i \in DOMAIN past, i = n + 1, ~NotIncluded(wait.view, past, t, until, i)
  PROVE  SourceIsShown(wait.view, past, i)
<1>1. PICK c : c = past[i].command
  OBVIOUS
<1>2. /\ i \in t + 1..until /\ past[i].kind \in {"attempt", "outcome"}
      /\ Known(wait.view.commands[c])
  BY <1>1 DEF NotIncluded, IsWaitedFollowUp
<1>3. c \in Commands
  BY <1>1, <1>2, EventTyped, EventFields DEF AboutCommand
<1>4. Known(view.commands[c])
  BY <1>2, <1>3 DEF WaitIsDone, Known
<1>5. \A j : Shown(view, j) => Shown(wait.view, j)
  BY DEF WaitIsDone
<1>6. CASE past[i].kind = "attempt"
  <2>1. i \in Of(past, "attempt") /\ t < i
    BY <1>2, <1>6 DEF Of
  <2>2. Shown(view, past[i].cause)
    BY <1>1, <1>4, <2>1 DEF FollowUpsHaveSources
  <2> QED
    BY <1>5, <1>6, <2>2 DEF SourceIsShown
<1>7. CASE past[i].kind = "outcome"
  <2>1. PICK a : a = past[i].attempt
    OBVIOUS
  <2>2. a \in 1..i - 1 /\ past[a].kind = "attempt" /\ past[a].command = c
    BY <1>1, <1>7, <2>1 DEF Grounded, OutcomesGrounded, Of
  <2>3. CASE a <= t
    <3>1. a \in 1..t
      BY <2>2, <2>3
    <3>2. Shown(view, a)
      BY <2>2, <3>1 DEF FollowUpsHaveSources
    <3> QED
      BY <1>5, <1>7, <2>1, <3>2 DEF SourceIsShown
  <2>4. CASE ~(a <= t)
    <3>1. a \in t + 1..until /\ a \in 1..n
      BY <1>2, <2>2, <2>4
    <3>2. IsFollowUp(view, past, t, until, a)
      BY <1>4, <2>2, <3>1 DEF IsFollowUp
    <3>3. Shown(wait.view, a)
      BY <3>1, <3>2 DEF WaitIsDone
    <3> QED
      BY <1>7, <2>1, <3>3 DEF SourceIsShown
  <2> QED
    BY <2>3, <2>4
<1> QED
  BY <1>2, <1>6, <1>7

\* One more follow-up applies.
LEMMA IncludeApplies ==
  ASSUME NEW past, IsLog(past), Grounded(past), NEW view, ViewIsTrue(view, past),
         NEW t \in Nat, FollowUpsHaveSources(view, past, t),
         NEW n \in Nat, NEW wait, NEW operational, NEW until \in Nat,
         WaitIsDone(view, past, t, operational, until, n, wait),
         ~wait.view.raised, ViewIsTraced(wait.view, past),
         NEW i \in DOMAIN past, i = n + 1
  PROVE  ~IncludeFollowUp(wait, past, i, t, operational, until).view.raised
<1>1. PICK after : after = IncludeFollowUp(wait, past, i, t, operational, until)
  OBVIOUS
<1>2. CASE NotIncluded(wait.view, past, t, until, i) \/ wait.complete
  <2>1. after = wait
    BY <1>1, <1>2 DEF IncludeFollowUp, NotIncluded
  <2> QED
    BY <1>1, <2>1
<1>3. CASE ~(NotIncluded(wait.view, past, t, until, i) \/ wait.complete)
  <2>1. /\ ~wait.view.raised /\ ~Shown(wait.view, i)
        /\ past[i].kind \in {"attempt", "outcome"}
    BY <1>3 DEF NotIncluded, IsWaitedFollowUp
  <2>2. after.view = ApplyRegular(wait.view, past, i)
    BY <1>1, <1>3 DEF IncludeFollowUp, NotIncluded
  <2>3. ViewIsTrue(wait.view, past) /\ wait.complete \in BOOLEAN
    BY DEF WaitIsDone
  <2>4. SourceIsShown(wait.view, past, i)
    BY <1>3, FollowUpHasSource
  <2> QED
    BY <1>1, <2>1, <2>2, <2>3, <2>4, RegularApplies
<1> QED
  BY <1>2, <1>3

\* They all apply.
LEMMA FollowUpsApply ==
  ASSUME NEW past, IsLog(past), Grounded(past), NEW view, ViewIsTrue(view, past),
         ~view.raised, ViewIsTraced(view, past),
         NEW t \in Nat, NEW operational, NEW until \in Nat, FollowUpsHaveSources(view, past, t)
  PROVE  ~WithWaitedFollowUps(view, past, t, operational, until).raised
<1> DEFINE at(n) == WaitAt(view, past, t, operational, until, n)
<1>1. /\ WithWaitedFollowUps(view, past, t, operational, until) = at(Len(past)).view
      /\ at(0) = [view |-> view, complete |-> FALSE]
      /\ \A n \in 1..Len(past) : at(n) = IncludeFollowUp(at(n - 1), past, n, t, operational, until)
  BY FollowUpsOfLog
<1>2. \A n \in 0..Len(past) : WaitIsDone(view, past, t, operational, until, n, at(n))
  BY FollowUpsAreShown
<1>3. Len(past) \in Nat /\ DOMAIN past = 1..Len(past)
  BY DEF IsLog
<1> HIDE DEF at
<1> DEFINE Fine(wait) == ~wait.view.raised /\ ViewIsTraced(wait.view, past)
           S == {n \in 0..Len(past) : Fine(at(n))}
<1>4. 0 \in S
  <2>1. at(0).view = view
    BY <1>1
  <2> QED
    BY <1>3, <2>1
<1>5. ASSUME NEW n \in 0..Len(past) - 1, n \in S
      PROVE  n + 1 \in S
  <2>1. PICK i : i = n + 1
    OBVIOUS
  <2>2. i \in DOMAIN past /\ i - 1 = n /\ i \in 0..Len(past) /\ n \in 0..Len(past) /\ n \in Nat
    BY <1>3, <2>1
  <2>3. at(i) = IncludeFollowUp(at(n), past, i, t, operational, until)
    BY <1>1, <1>3, <2>2
  <2>4. WaitIsDone(view, past, t, operational, until, n, at(n))
    BY <1>2, <2>2
  <2>5. ~at(n).view.raised /\ ViewIsTraced(at(n).view, past)
    BY <1>5
  <2>6. ~at(i).view.raised
    BY <2>1, <2>2, <2>3, <2>4, <2>5, IncludeApplies
  <2>7. ViewIsTrue(at(n).view, past)
    BY <2>4 DEF WaitIsDone
  <2>8. RaisedOrTraced(at(i).view, past)
    BY <2>2, <2>3, <2>5, <2>7, IncludeIsTraced DEF RaisedOrTraced
  <2> QED
    BY <2>1, <2>2, <2>6, <2>8 DEF RaisedOrTraced
<1> HIDE DEF S
<1>6. 0..Len(past) \subseteq S
  BY <1>3, <1>4, <1>5, Ops!UpTo
<1>7. Len(past) \in S
  BY <1>3, <1>6
<1>8. ~at(Len(past)).view.raised
  BY <1>7 DEF S
<1> QED
  BY <1>1, <1>8

\* So the view of a decision does not raise.
LEMMA DecisionViewApplies ==
  ASSUME NEW past, IsLog(past), Grounded(past), NEW view, ViewIsTrue(view, past),
         ~view.raised, ViewIsTraced(view, past),
         NEW t \in DOMAIN past, NEW operational, NEW until \in Nat,
         IsExternalDecisionFact(past, t) => FollowUpsHaveSources(view, past, t)
  PROVE  ~DecisionView(view, past, t, operational, until).raised
<1>1. t \in Nat
  BY EventTyped DEF Positions
<1> QED
  BY <1>1, FollowUpsApply DEF DecisionView

\* What the walk is when it arrives at event i.
Here(walk, past, i) == [walk EXCEPT !.view = ApplyRegular(walk.view, past, i)]

\* The walk arrives at every event that is not a step and that it has not shown.
ArrivesAt(walk, past, i) == GoesOn(walk) /\ past[i].kind # "step" /\ ~Shown(walk.view, i)

\* `here` is the walk as it has arrived at event i.
HereAgrees(walk, past, i, here) ==
  LET view == ApplyRegular(walk.view, past, i) IN
  /\ WalkIsSound(here, past, i)
  /\ here.view = view /\ here.applied = walk.applied
  /\ here.next = None /\ here.halted = FALSE
  /\ ~view.raised => \A j : Shown(view, j) <=> Shown(walk.view, j) \/ j = i

\* It arrives sound.
LEMMA HereIsSound ==
  ASSUME NEW past, IsLog(past), NEW i \in DOMAIN past,
         NEW walk, WalkIsSound(walk, past, i - 1), ArrivesAt(walk, past, i), NEW operational
  PROVE  /\ WalkOn(walk, past, i, operational) = Arrive(Here(walk, past, i), past, i, operational)
         /\ HereAgrees(walk, past, i, Here(walk, past, i))
<1>1. PICK view : view = ApplyRegular(walk.view, past, i)
  OBVIOUS
<1>2. PICK here : here = [walk EXCEPT !.view = view]
  OBVIOUS
<1>3. here = Here(walk, past, i)
  BY <1>1, <1>2 DEF Here
<1>0. PICK n : n = i - 1
  OBVIOUS
<1>4. /\ walk \in WalkStates /\ ViewIsTrue(walk.view, past) /\ walk.next = None
      /\ ~walk.halted /\ ~walk.view.raised /\ past[i].kind # "step" /\ ~Shown(walk.view, i)
      /\ GroupsInOrder(walk.view, past, n)
      /\ \A j \in 1..n : past[j].kind # "step" => Shown(walk.view, j)
      /\ \A s \in walk.applied : Shown(walk.view, s)
  BY <1>0 DEF WalkIsSound, ArrivesAt, GoesOn
<1>5. /\ i \in Nat /\ n <= i
      /\ \A j \in 1..i : j \in 1..n \/ j = i
      /\ n \in Nat
  BY <1>0, EventTyped DEF Positions
<1>6. WalkOn(walk, past, i, operational) = Arrive(here, past, i, operational)
  BY <1>1, <1>2, <1>4 DEF WalkOn, WalkStates
<1>7. /\ ViewIsTrue(view, past)
      /\ ~view.raised => \A j : Shown(view, j) <=> Shown(walk.view, j) \/ j = i
      /\ \A j : Shown(walk.view, j) => Shown(view, j)
  BY <1>1, <1>4, ApplyRegularIsTrue
<1>8. GroupsInOrder(view, past, i)
  BY <1>1, <1>4, <1>5, RegularKeepsOrder
<1>9. /\ here \in WalkStates /\ here.view = view /\ here.applied = walk.applied
      /\ here.next = None /\ here.halted = FALSE
  BY <1>2, <1>4, <1>7 DEF WalkStates, ViewIsTrue
<1>10. WalkIsSound(here, past, i)
  BY <1>4, <1>5, <1>7, <1>8, <1>9 DEF WalkIsSound
<1>11. HereAgrees(walk, past, i, here)
  BY <1>1, <1>7, <1>9, <1>10 DEF HereAgrees
<1> QED
  BY <1>3, <1>6, <1>11

\* A walk whose view is traced, after n events: the steps it applied decided on those.
WalkIsTraced(walk, past, n) ==
  /\ RaisedOrTraced(walk.view, past)
  /\ \A s \in walk.applied \cap Of(past, "step") : past[s].request.trigger <= n

\* What an arrival leads to is traced.
LEMMA ArriveIsTraced ==
  ASSUME NEW past, IsLog(past), Grounded(past), NEW i \in DOMAIN past,
         NEW here, WalkIsSound(here, past, i), WalkIsTraced(here, past, i), NEW operational
  PROVE  WalkIsTraced(Arrive(here, past, i, operational), past, i)
<1>1. PICK after : after = Arrive(here, past, i, operational)
  OBVIOUS
<1>2. /\ here \in WalkStates /\ ViewIsTrue(here.view, past)
      /\ i \in Nat /\ Len(past) \in Nat
  BY EventTyped DEF WalkIsSound
<1>3. /\ RaisedOrTraced(here.view, past)
      /\ \A s \in here.applied \cap Of(past, "step") : past[s].request.trigger <= i
  BY DEF WalkIsTraced
<1>4. CASE here.view.raised
  <2>1. after = here
    BY <1>1, <1>4 DEF Arrive
  <2> QED
    BY <1>1, <2>1
<1>5. CASE ~here.view.raised /\ CancelsFor(past, i) # {}
  <2>1. PICK k \in CancelsFor(past, i) : after = ApplyCancellation(here, past, k)
    BY <1>1, <1>5 DEF Arrive
  <2>2. k \in DOMAIN past /\ past[k].kind = "cancel"
    BY ConsumersTyped
  <2>3. after.view = ApplyRegular(here.view, past, k) /\ after.applied = here.applied \cup {k}
    BY <1>2, <2>1 DEF ApplyCancellation, WalkStates
  <2>4. RaisedOrTraced(after.view, past)
    BY <1>2, <1>3, <1>5, <2>2, <2>3, RegularIsTraced DEF RaisedOrTraced, AboutCommand
  <2>5. WalkIsTraced(after, past, i)
    BY <1>3, <2>2, <2>3, <2>4 DEF WalkIsTraced, Of
  <2> QED
    BY <1>1, <2>5
<1>6. CASE ~here.view.raised /\ CancelsFor(past, i) = {} /\ StepsFor(past, i) # {}
  <2>1. PICK s \in StepsFor(past, i) : after = ApplyDecision(here, past, i, s, operational)
    BY <1>1, <1>6 DEF Arrive
  <2>2. s \in DOMAIN past /\ past[s].kind = "step" /\ past[s].request.trigger = i
    BY ConsumersTyped DEF StepsFor
  <2>3. PICK frame, until : frame = past[s].request.frame /\ until = ShownUntil(past, frame)
    OBVIOUS
  <2>4. until \in Nat
    BY <2>2, <2>3 DEF IsLog, Of, ObservedBy, ShownUntil
  <2>5. PICK view : view = DecisionView(here.view, past, i, operational, until)
    OBVIOUS
  <2>6. ViewIsTrue(view, past)
    BY <1>2, <2>4, <2>5, DecisionViewIsTrue DEF FollowedUp
  <2>7. RaisedOrTraced(view, past)
    BY <1>2, <1>3, <2>4, <2>5, DecisionViewIsTraced
  <2>8. PICK stepped : stepped = IF SameFrame(here, view, frame, s)
                                 THEN ApplyStep(view, past, s)
                                 ELSE Raise(view)
    OBVIOUS
  <2>9. after = [here EXCEPT !.view = stepped, !.cursor = @ + 1, !.applied = @ \cup {s}]
    BY <2>1, <2>3, <2>5, <2>8 DEF ApplyDecision, Decided
  <2>10. RaisedOrTraced(stepped, past)
    <3>1. CASE SameFrame(here, view, frame, s)
      <4>1. stepped = ApplyStep(view, past, s) /\ ViewIsTraced(view, past)
        BY <2>7, <2>8, <3>1 DEF SameFrame, RaisedOrTraced
      <4> QED
        BY <2>2, <2>6, <4>1, StepIsTraced DEF RaisedOrTraced
    <3>2. CASE ~SameFrame(here, view, frame, s)
      BY <2>6, <2>8, <3>2, RaiseRaises DEF RaisedOrTraced
    <3> QED
      BY <3>1, <3>2
  <2>11. after.view = stepped /\ after.applied = here.applied \cup {s}
    BY <1>2, <2>9 DEF WalkStates
  <2>12. \A u \in after.applied \cap Of(past, "step") : past[u].request.trigger <= i
    BY <1>2, <1>3, <2>2, <2>11
  <2>13. WalkIsTraced(after, past, i)
    BY <2>10, <2>11, <2>12 DEF WalkIsTraced
  <2> QED
    BY <1>1, <2>13
<1>7. CASE ~here.view.raised /\ CancelsFor(past, i) = {} /\ StepsFor(past, i) = {}
  <2>1. after = ConsiderTrigger(here, past, i, operational)
    BY <1>1, <1>7 DEF Arrive
  <2>2. /\ \/ after.view = here.view
           \/ after.view = DecisionView(here.view, past, i, operational, Len(past))
        /\ after.applied = here.applied
    BY <1>2, <2>1 DEF ConsiderTrigger, WalkStates
  <2>3. RaisedOrTraced(after.view, past)
    BY <1>2, <1>3, <2>2, DecisionViewIsTraced
  <2>4. WalkIsTraced(after, past, i)
    BY <1>3, <2>2, <2>3 DEF WalkIsTraced
  <2> QED
    BY <1>1, <2>4
<1> QED
  BY <1>4, <1>5, <1>6, <1>7

\* One more event, walked, leaves it traced.
LEMMA WalkOnIsTraced ==
  ASSUME NEW past, IsLog(past), Grounded(past), NEW i \in DOMAIN past,
         NEW walk, WalkIsSound(walk, past, i - 1), WalkIsTraced(walk, past, i - 1), NEW operational
  PROVE  WalkIsTraced(WalkOn(walk, past, i, operational), past, i)
<1>1. \A s \in walk.applied \cap Of(past, "step") : past[s].request.trigger <= i
  <2> SUFFICES ASSUME NEW s \in walk.applied \cap Of(past, "step")
               PROVE  past[s].request.trigger <= i
    OBVIOUS
  <2>1. past[s].request.trigger <= i - 1
    BY DEF WalkIsTraced
  <2>2. past[s].request.trigger \in Int /\ i \in Int
    BY EventTyped, EventFields DEF Of, Requests, Positions
  <2> QED
    BY <2>1, <2>2
<1>2. RaisedOrTraced(walk.view, past)
  BY DEF WalkIsTraced
<1>3. CASE ~ArrivesAt(walk, past, i)
  <2>1. WalkOn(walk, past, i, operational) = walk
    BY <1>3 DEF WalkOn, ArrivesAt, GoesOn
  <2> QED
    BY <1>1, <1>2, <2>1 DEF WalkIsTraced
<1>4. CASE ArrivesAt(walk, past, i)
  <2>1. PICK here : here = Here(walk, past, i)
    OBVIOUS
  <2>0. /\ WalkOn(walk, past, i, operational) = Arrive(here, past, i, operational)
        /\ HereAgrees(walk, past, i, here)
    BY <1>4, <2>1, HereIsSound
  <2>2. /\ WalkIsSound(here, past, i)
        /\ here.view = ApplyRegular(walk.view, past, i) /\ here.applied = walk.applied
    BY <2>0 DEF HereAgrees
  <2>3. /\ ~walk.view.raised /\ past[i].kind # "step" /\ ~Shown(walk.view, i)
        /\ ViewIsTrue(walk.view, past)
    BY <1>4 DEF ArrivesAt, GoesOn, WalkIsSound
  <2>4. RaisedOrTraced(here.view, past)
    <3>1. ViewIsTraced(walk.view, past)
      BY <1>2, <2>3 DEF RaisedOrTraced
    <3>2. ~here.view.raised => ViewIsTraced(here.view, past)
      BY <2>2, <2>3, <3>1, RegularIsTraced
    <3> QED
      BY <3>2 DEF RaisedOrTraced
  <2>5. WalkIsTraced(here, past, i)
    BY <1>1, <2>2, <2>4 DEF WalkIsTraced
  <2> QED
    BY <2>0, <2>2, <2>5, ArriveIsTraced
<1> QED
  BY <1>3, <1>4

\* So the walk is traced at any length.
LEMMA WalkIsTracedAtEach ==
  ASSUME NEW past, IsLog(past), Grounded(past), NEW operational
  PROVE  \A n \in 0..Len(past) : WalkIsTraced(WalkAt(past, operational, n), past, n)
<1> DEFINE at(n) == WalkAt(past, operational, n)
<1>1. Len(past) \in Nat /\ DOMAIN past = 1..Len(past) /\ IssuedOnce(past)
  BY DEF IsLog, Grounded
<1>2. /\ at(0) = NewWalk
      /\ \A n \in 1..Len(past) : at(n) = WalkOn(at(n - 1), past, n, operational)
  BY WalkOfLog
<1>3. \A n \in 0..Len(past) : WalkIsSound(at(n), past, n)
  BY <1>1, WalkIsThoroughAtEach
<1> HIDE DEF at
<1> DEFINE S == {n \in 0..Len(past) : WalkIsTraced(at(n), past, n)}
<1>4. 0 \in S
  <2>1. at(0).view = EmptyView /\ at(0).applied = {}
    BY <1>2 DEF NewWalk
  <2>2. WalkIsTraced(at(0), past, 0)
    BY <2>1, EmptyViewIsTraced DEF WalkIsTraced, RaisedOrTraced
  <2> QED
    BY <1>1, <2>2
<1>5. ASSUME NEW n \in 0..Len(past) - 1, n \in S
      PROVE  n + 1 \in S
  <2>1. PICK i : i = n + 1
    OBVIOUS
  <2>2. i \in DOMAIN past /\ i - 1 = n /\ i \in 0..Len(past) /\ n \in 0..Len(past) /\ n \in Nat
    BY <1>1, <2>1
  <2>3. at(i) = WalkOn(at(n), past, i, operational)
    BY <1>1, <1>2, <2>2
  <2>4. WalkIsSound(at(n), past, n) /\ WalkIsTraced(at(n), past, n)
    BY <1>3, <1>5, <2>2
  <2>5. WalkIsTraced(at(i), past, i)
    BY <2>1, <2>2, <2>3, <2>4, WalkOnIsTraced
  <2> QED
    BY <2>1, <2>2, <2>5
<1> HIDE DEF S
<1>6. 0..Len(past) \subseteq S
  BY <1>1, <1>4, <1>5, Ops!UpTo
<1> QED
  BY <1>6 DEF S, at

-------------------------------------------------------------------------------
\* What was decided or cancelled in a beginning of a log: nothing before it is left over.

\* A trigger is consumed by one event.
ConsumedOnce(past) ==
  \A i, j \in DOMAIN past, t \in Positions :
    i \in StepsFor(past, t) \cup CancelsFor(past, t) /\ j \in StepsFor(past, t) \cup CancelsFor(past, t)
      => i = j

\* In the beginning `cut` of the log, t was next.
WasNextIn(cut, past, t) ==
  /\ IsLog(cut) /\ Begins(cut, past)
  /\ ~Projection(cut).raised
  /\ Projection(cut).next = t /\ t # None

\* Where t was next, every decision wanted before t has been taken or shown, t was shown
\* to no step, and the walk had come to t having applied every step and cancellation.
LEMMA NextWalk ==
  ASSUME NEW past, IsLog(past), IssuedOnce(past), NEW t, t = Projection(past).next,
         ~Projection(past).raised, t # None, NEW operational, operational = Operational(past)
  PROVE  /\ t \in DOMAIN past /\ t \in Positions
         /\ \A i \in 1..t - 1 : Wants(past, i) => Answered(past, i)
         /\ \A s \in Of(past, "step") : ~ShownTo(past, s, t)
         /\ GoesOn(WalkAt(past, operational, t - 1))
         /\ DecidesAt(WalkAt(past, operational, t - 1), past, t, operational,
                      DecisionWalk(past, operational))
         /\ Of(past, "step") \cup Of(past, "cancel") \subseteq WalkAt(past, operational, t - 1).applied
<1>1. PICK final : final = DecisionWalk(past, operational)
  OBVIOUS
<1>2. /\ ~final.view.raised /\ final.next = t
      /\ Of(past, "step") \cup Of(past, "cancel") \subseteq final.applied
  BY <1>1 DEF Projection, Project, ProjectionOf
<1>3. NextIsNew(final, past)
  BY <1>1, WalkIsThoroughAtLast DEF WalkIsThorough
<1>4. \A s \in Of(past, "step") : ~ShownTo(past, s, t)
  BY <1>2, <1>3 DEF NextIsNew, Of
<1>5. final = WalkAt(past, operational, Len(past))
  BY <1>1, WalkOfLog
<1>6. Len(past) \in Nat /\ DOMAIN past = 1..Len(past)
  BY DEF IsLog
<1>7. PICK prior : prior = WalkAt(past, operational, t - 1)
  OBVIOUS
<1>8. Len(past) \in 0..Len(past)
  BY <1>6
<1>9. t \in 1..Len(past) /\ DecidesAt(prior, past, t, operational, final)
  BY <1>2, <1>5, <1>7, <1>8, WalkIsThoroughAtEach
<1>10. t - 1 \in 0..Len(past)
  BY <1>6, <1>9
<1>11. WalkIsThorough(prior, past, operational, t - 1)
  BY <1>7, <1>10, WalkIsThoroughAtEach
<1>12. GoesOn(prior) /\ final.applied = prior.applied
  BY <1>9 DEF DecidesAt, GoesOn
<1>13. \A i \in 1..t - 1 : Wants(past, i) => Answered(past, i)
  BY <1>11, <1>12 DEF WalkIsThorough, WalkLeavesNothing, GoesOn
<1> QED
  BY <1>1, <1>2, <1>4, <1>6, <1>7, <1>9, <1>12, <1>13, EventTyped

\* What the log wants a decision on, its beginning wanted one on.
LEMMA WantedBefore ==
  ASSUME NEW cut, IsLog(cut), NEW past, IsLog(past), Begins(cut, past), IssuedOnce(past),
         ~Projection(cut).raised, NEW i \in DOMAIN cut, Wants(past, i)
  PROVE  Wants(cut, i)
<1>1. past[i] = cut[i] /\ (IsExternalDecisionFact(past, i) <=> IsExternalDecisionFact(cut, i))
  BY BeginFacts
<1>2. CASE IsExternalDecisionFact(past, i) \/ past[i].kind = "reject"
  BY <1>1, <1>2 DEF Wants
<1>3. CASE ~(IsExternalDecisionFact(past, i) \/ past[i].kind = "reject")
  <2>1. cut[i].kind = "outcome"
    BY <1>1, <1>3 DEF Wants
  <2>2. PICK s \in Of(past, "step") : ContinuesStep(past, s, i)
    BY <1>3 DEF Wants
  <2>3. PICK u \in Of(cut, "step") : cut[i].command \in cut[u].commands
    BY <2>1, IssuerIsInLog
  <2>4. u \in Of(past, "step") /\ u \in DOMAIN cut /\ past[u] = cut[u]
    BY BeginFacts DEF Of
  <2>5. u = s
    BY <1>1, <2>2, <2>3, <2>4 DEF ContinuesStep, IssuedOnce
  <2>6. StopsFor(cut, s) = {}
    <3>1. \A k \in Of(cut, "stop") : k \in Of(past, "stop") /\ past[k] = cut[k]
      BY BeginFacts
    <3> QED
      BY <2>2, <3>1 DEF ContinuesStep, StopsFor
  <2>7. ObservedBy(past, s) = ObservedBy(cut, s)
    BY <2>4, <2>5, BeginFacts
  <2>8. ~Superseded(cut, ObservedBy(cut, s))
    BY <2>2, <2>7, BeginFacts DEF ContinuesStep, Superseded
  <2>9. GroupEndsBy(cut, s, i)
    <3> SUFFICES ASSUME NEW d \in cut[s].commands \ NoDecision
                 PROVE  \E o \in DOMAIN cut : o <= i /\ cut[o].kind = "outcome" /\ cut[o].command = d
      BY DEF GroupEndsBy
    <3>1. PICK o \in DOMAIN past : o <= i /\ past[o].kind = "outcome" /\ past[o].command = d
      BY <2>2, <2>4, <2>5 DEF ContinuesStep, GroupEndsBy
    <3>2. o \in 1..Len(past) /\ i \in 1..Len(cut) /\ Len(cut) \in Nat /\ Len(past) \in Nat
      BY BeginFacts
    <3>3. o \in 1..Len(cut)
      BY <3>1, <3>2
    <3>4. o \in DOMAIN cut /\ cut[o] = past[o]
      BY <3>3, BeginFacts
    <3> QED
      BY <3>1, <3>4
  <2>10. ContinuesStep(cut, s, i)
    BY <1>1, <2>2, <2>4, <2>5, <2>6, <2>8, <2>9 DEF ContinuesStep
  <2> QED
    BY <2>1, <2>3, <2>5, <2>10 DEF Wants
<1> QED
  BY <1>2, <1>3

\* What was answered in the beginning was consumed in the log, or shown to one of its steps.
LEMMA AnsweredInCut ==
  ASSUME NEW cut, IsLog(cut), NEW past, IsLog(past), Begins(cut, past), NEW i, Answered(cut, i)
  PROVE  \/ StepsFor(past, i) # {}
         \/ CancelsFor(past, i) # {}
         \/ \E s \in Of(past, "step") : ShownTo(past, s, i)
<1>1. \A j \in DOMAIN cut : past[j] = cut[j]
  BY BeginFacts
<1>2. \A kind : \A j \in Of(cut, kind) : j \in Of(past, kind) /\ j \in DOMAIN cut
  BY BeginFacts
<1>3. CASE StepsFor(cut, i) # {}
  BY <1>1, <1>2, <1>3 DEF StepsFor
<1>4. CASE CancelsFor(cut, i) # {}
  BY <1>1, <1>2, <1>4 DEF CancelsFor
<1>5. CASE ShownAhead(cut, i - 1, i)
  <2>1. PICK s \in Of(cut, "step") : ShownTo(cut, s, i)
    BY <1>5 DEF ShownAhead, ShownWithGroup
  <2>2. ShownTo(past, s, i)
    BY <1>1, <1>2, <2>1 DEF ShownTo
  <2> QED
    BY <1>2, <2>2
<1> QED
  BY <1>3, <1>4, <1>5 DEF Answered

\* What the log wants a decision on, and the next trigger of a cut is beyond, was
\* consumed or shown.
LEMMA PassedIsAnswered ==
  ASSUME NEW past, IsLog(past), IssuedOnce(past), NEW cut, NEW t, WasNextIn(cut, past, t),
         NEW i \in DOMAIN past, i < t, Wants(past, i)
  PROVE  \/ StepsFor(past, i) # {}
         \/ CancelsFor(past, i) # {}
         \/ \E s \in Of(past, "step") : ShownTo(past, s, i)
<1>1. /\ IsLog(cut) /\ Begins(cut, past) /\ ~Projection(cut).raised
      /\ t = Projection(cut).next /\ t # None
  BY DEF WasNextIn
<1>2. IssuedOnce(cut)
  <2>1. \A s \in Of(cut, "step") : s \in Of(past, "step") /\ past[s] = cut[s]
    BY <1>1, BeginFacts
  <2> QED
    BY <2>1 DEF IssuedOnce
<1>3. t \in DOMAIN cut /\ \A j \in 1..t - 1 : Wants(cut, j) => Answered(cut, j)
  BY <1>1, <1>2, NextWalk
<1>4. t \in 1..Len(cut) /\ Len(cut) \in Nat /\ i \in 1..Len(past)
  BY <1>1, <1>3, BeginFacts
<1>5. i \in 1..Len(cut) /\ i \in 1..t - 1
  BY <1>4
<1>6. i \in DOMAIN cut
  BY <1>1, <1>5, BeginFacts
<1>7. Wants(cut, i)
  BY <1>1, <1>6, WantedBefore
<1> QED
  BY <1>1, <1>3, <1>5, <1>7, AnsweredInCut

\* The beginning of a log in which no command is issued twice is such a log.
LEMMA BeginsIssuedOnce ==
  ASSUME NEW past, IsLog(past), IssuedOnce(past), NEW cut, IsLog(cut), Begins(cut, past)
  PROVE  IssuedOnce(cut)
<1>1. \A s \in Of(cut, "step") : s \in Of(past, "step") /\ past[s] = cut[s]
  BY BeginFacts
<1> QED
  BY <1>1 DEF IssuedOnce

\* The decision the walk requires when it arrives at an event is one the log wants.
LEMMA RequiredIsWanted ==
  ASSUME NEW past, IsLog(past), IssuedOnce(past), NEW i \in DOMAIN past,
         NEW walk, WalkIsSound(walk, past, i - 1), ArrivesAt(walk, past, i),
         NEW here, HereAgrees(walk, past, i, here), ~here.view.raised,
         RequiresDecision(here.view, past, i)
  PROVE  Wants(past, i)
<1>1. PICK n, view : n = i - 1 /\ view = here.view
  OBVIOUS
<1>2. /\ ViewIsTrue(view, past) /\ ViewIsTrue(walk.view, past)
      /\ view = ApplyRegular(walk.view, past, i) /\ ~view.raised
      /\ \A j : Shown(view, j) <=> Shown(walk.view, j) \/ j = i
  BY <1>1 DEF HereAgrees, WalkIsSound
<1>3. /\ ~walk.view.raised /\ past[i].kind # "step" /\ ~Shown(walk.view, i)
      /\ GroupsInOrder(walk.view, past, n)
  BY <1>1 DEF ArrivesAt, GoesOn, WalkIsSound
<1>4. \A c \in Commands : view.commands[c].issued = walk.view.commands[c].issued
  BY <1>2, <1>3, ApplyRegularIsTrue
<1>5. i \in Nat /\ n < i
  BY <1>1, EventTyped
<1>6. CASE past[i].kind # "outcome"
  BY <1>1, <1>6 DEF RequiresDecision, Wants
<1>7. CASE past[i].kind = "outcome"
  <2>1. PICK c, s : c = past[i].command /\ s = view.commands[c].issued
    OBVIOUS
  <2>2. /\ c \notin NoDecision /\ StopsFor(past, s) = {} /\ GroupClosed(view, c)
        /\ ~Superseded(past, ObservedBy(past, s))
    BY <1>1, <1>7, <2>1 DEF RequiresDecision, ContinuationOpen, IsExternalDecisionFact
  <2>3. c \in Commands /\ Known(view.commands[c]) /\ view.commands[c].outcome = i
    BY <1>2, <1>7, <2>1, ShownOutcome
  <2>4. s \in Positions
    BY <1>2, <2>1, <2>3 DEF ViewIsTrue, Views, CommandStates, Known
  <2>5. Shown(view, s) /\ past[s].kind = "step" /\ c \in past[s].commands
    BY <1>2, <2>1, <2>3, <2>4 DEF ViewIsTrue, StateIsTrue
  <2>6. s \in Of(past, "step")
    BY <1>2, <2>5 DEF ViewIsTrue, Of
  <2>7. GroupEndsBy(past, s, i)
    <3> SUFFICES ASSUME NEW d \in past[s].commands \ NoDecision
                 PROVE  \E o \in DOMAIN past :
                          o <= i /\ past[o].kind = "outcome" /\ past[o].command = d
      BY DEF GroupEndsBy
    <3>1. d \in Commands
      BY <2>6, EventTyped, EventFields DEF Of
    <3>2. view.commands[d].issued = s
      BY <1>2, <2>4, <2>5, <3>1 DEF ViewIsTrue, StateIsTrue
    <3>3. Terminal(view.commands[d])
      BY <2>1, <2>2, <3>1, <3>2 DEF GroupClosed
    <3>4. PICK o : o = view.commands[d].outcome
      OBVIOUS
    <3>5. o \in Positions
      BY <1>2, <3>1, <3>3, <3>4 DEF ViewIsTrue, Views, CommandStates, Terminal
    <3>6. Shown(view, o) /\ past[o].kind = "outcome" /\ past[o].command = d
      BY <1>2, <3>1, <3>4, <3>5 DEF ViewIsTrue, StateIsTrue
    <3>7. o \in DOMAIN past /\ o \in Nat
      BY <1>2, <3>5, <3>6 DEF ViewIsTrue, Positions
    <3>8. o <= i
      <4> SUFFICES ASSUME i < o PROVE FALSE
        BY <1>5, <3>7
      <4>1. Shown(walk.view, o)
        BY <1>2, <1>5, <3>6, <3>7
      <4>2. walk.view.commands[past[i].command].issued = walk.view.commands[past[o].command].issued
        BY <1>4, <2>1, <2>3, <3>1, <3>2, <3>6
      <4> QED
        BY <1>3, <1>5, <1>7, <3>6, <3>7, <4>1, <4>2 DEF GroupsInOrder
    <3> QED
      BY <3>6, <3>7, <3>8
  <2>8. ContinuesStep(past, s, i)
    BY <2>1, <2>2, <2>5, <2>7 DEF ContinuesStep
  <2> QED
    BY <1>7, <2>6, <2>8 DEF Wants
<1> QED
  BY <1>6, <1>7

\* The trigger of a cancellation has not been shown to a decision on an earlier event.
LEMMA ConsumedIsNotShown ==
  ASSUME NEW past, IsLog(past), IssuedOnce(past), ConsumedOnce(past), NEW i, NEW cut,
         WasNextIn(cut, past, i), NEW walk, WalkLeavesNothing(walk, past, i - 1)
  PROVE  ~Shown(walk.view, i)
<1> SUFFICES ASSUME Shown(walk.view, i) PROVE FALSE
  OBVIOUS
<1>1. /\ IsLog(cut) /\ Begins(cut, past) /\ ~Projection(cut).raised
      /\ i = Projection(cut).next /\ i # None
  BY DEF WasNextIn
<1>2. IssuedOnce(cut)
  BY <1>1, BeginsIssuedOnce
<1>3. i \in DOMAIN cut /\ Wants(cut, i)
  BY <1>1, <1>2, NextIsWanted
<1>4. /\ \A j \in 1..i - 1 : Wants(cut, j) => Answered(cut, j)
      /\ \A s \in Of(cut, "step") : ~ShownTo(cut, s, i)
  BY <1>1, <1>2, NextWalk
<1>5. i \in DOMAIN past /\ past[i] = cut[i] /\ i \in Nat /\ i <= Len(cut) /\ Len(cut) \in Nat
  BY <1>1, <1>3, BeginFacts, EventTyped
<1>6. past[i].kind \notin {"step", "cancel"}
  BY <1>3, <1>5 DEF Wants, IsExternalDecisionFact
<1>7. ShownAhead(past, i - 1, i)
  <2>1. PICK n : n = i - 1
    OBVIOUS
  <2>2. n < i /\ WalkLeavesNothing(walk, past, n)
    BY <1>5, <2>1
  <2>3. ShownAhead(past, n, i)
    BY <1>5, <1>6, <2>2 DEF WalkLeavesNothing
  <2> QED
    BY <2>1, <2>3
<1>8. PICK s \in Of(past, "step") :
        /\ past[s].request.trigger <= i - 1
        /\ IsExternalDecisionFact(past, past[s].request.trigger)
        /\ ShownWithGroup(past, s, i)
  BY <1>7 DEF ShownAhead
<1>9. PICK t : t = past[s].request.trigger
  OBVIOUS
<1>10. t \in Positions /\ t \in 1..i - 1
  <2>1. t \in Positions
    BY <1>9, EventTyped, EventFields DEF Of, Requests
  <2> QED
    BY <1>5, <1>8, <1>9, <2>1 DEF Positions
<1>11. t \in DOMAIN cut
  BY <1>1, <1>5, <1>10, BeginFacts
<1>12. IsExternalDecisionFact(cut, t) /\ past[t] = cut[t]
  BY <1>1, <1>8, <1>9, <1>11, BeginFacts
<1>13. Answered(cut, t)
  BY <1>4, <1>10, <1>12 DEF Wants
<1>14. s \in StepsFor(past, t)
  BY <1>9 DEF StepsFor
<1>15. CASE StepsFor(cut, t) # {}
  <2>1. PICK u \in Of(cut, "step") : cut[u].request.trigger = t
    BY <1>15 DEF StepsFor
  <2>2. u \in Of(past, "step") /\ past[u] = cut[u] /\ u \in DOMAIN past
    BY <1>1, BeginFacts DEF Of
  <2>3. u \in StepsFor(past, t)
    BY <2>1, <2>2 DEF StepsFor
  <2>4. u = s
    BY <1>10, <1>14, <2>2, <2>3 DEF ConsumedOnce, Of
  <2>5. ShownTo(past, s, i)
    BY <1>8 DEF ShownWithGroup
  <2> QED
    BY <1>4, <2>1, <2>2, <2>4, <2>5 DEF ShownTo
<1>16. CASE CancelsFor(cut, t) # {}
  <2>1. PICK k \in Of(cut, "cancel") : cut[k].trigger = t
    BY <1>16 DEF CancelsFor
  <2>2. k \in Of(past, "cancel") /\ past[k] = cut[k] /\ k \in DOMAIN past
    BY <1>1, BeginFacts DEF Of
  <2>3. k \in CancelsFor(past, t)
    BY <2>1, <2>2 DEF CancelsFor
  <2>4. k = s
    BY <1>10, <1>14, <2>2, <2>3 DEF ConsumedOnce, Of
  <2> QED
    BY <2>2, <2>4 DEF Of
<1>17. CASE ShownAhead(cut, t - 1, t)
  BY <1>12, <1>17 DEF ShownAhead, ShownWithGroup, IsExternalDecisionFact
<1> QED
  BY <1>13, <1>15, <1>16, <1>17 DEF Answered

-------------------------------------------------------------------------------
\* After the last step, the walk goes on to the end of the log without raising.

\* What LateGrant says, of any log.
LateGrantIn(past) ==
  \E m, a \in DOMAIN past, s \in Of(past, "step") :
    /\ IsExternalDecisionFact(past, m)
    /\ past[s].request.trigger < m
    /\ past[a].kind = "attempt"
    /\ past[a].command \in past[s].commands \cap NeedsAuthorization
    /\ past[a].cause > m
    /\ CancelsFor(past, m) = {}
    /\ \A t \in StepsFor(past, m) : ObservedBy(past, t) >= a

\* What the Journal and the Runtime promise of the events of a log.
Sourced(past) ==
  /\ IsLog(past) /\ Grounded(past) /\ ConsumedOnce(past)
  /\ \A k \in Of(past, "cancel") : \E cut : WasNextIn(cut, past, past[k].trigger)

\* After n events the walk has applied every step, and every cancellation it should have.
TailState(walk, past, n) ==
  /\ ~walk.view.raised
  /\ Of(past, "step") \subseteq walk.applied
  /\ \A k \in Of(past, "cancel") : past[k].trigger <= n \/ walk.halted => k \in walk.applied

\* What an event the walk arrives at comes from is shown, so it applies.
LEMMA TailApplies ==
  ASSUME NEW past, Sourced(past), NEW i \in DOMAIN past, NEW walk,
         WalkIsSound(walk, past, i - 1), WalkIsTraced(walk, past, i - 1),
         TailState(walk, past, i - 1), ArrivesAt(walk, past, i)
  PROVE  ~ApplyRegular(walk.view, past, i).raised
<1>1. IsLog(past) /\ Grounded(past)
  BY DEF Sourced
<1>2. /\ ViewIsTrue(walk.view, past) /\ ~walk.view.raised /\ past[i].kind # "step" /\ ~Shown(walk.view, i)
      /\ \A j \in 1..i - 1 : past[j].kind # "step" => Shown(walk.view, j)
      /\ \A s \in walk.applied : Shown(walk.view, s)
  BY DEF WalkIsSound, ArrivesAt, GoesOn
<1>3. ViewIsTraced(walk.view, past)
  BY <1>2 DEF WalkIsTraced, RaisedOrTraced
<1>4. /\ i \in 1..Len(past) /\ Len(past) \in Nat /\ DOMAIN past = 1..Len(past)
  BY <1>1, EventTyped
<1>5. ASSUME NEW j \in 1..i - 1 PROVE Shown(walk.view, j)
  <2>1. j \in DOMAIN past
    BY <1>4
  <2>2. past[j].kind = "step" => j \in walk.applied
    BY <2>1 DEF TailState, Of
  <2> QED
    BY <1>2, <2>2
<1>6. SourceIsShown(walk.view, past, i)
  <2>1. past[i].kind \in {"grant", "reject"} => past[i].cause \in 1..i - 1
    BY <1>1 DEF Grounded, VerdictsGrounded
  <2>2. past[i].kind = "attempt" => past[i].cause \in 1..i - 1
    BY <1>1 DEF Grounded, AttemptsGrounded, Of
  <2>3. past[i].kind = "outcome" => past[i].attempt \in 1..i - 1
    BY <1>1 DEF Grounded, OutcomesGrounded, Of
  <2> QED
    BY <1>5, <2>1, <2>2, <2>3 DEF SourceIsShown
<1> QED
  BY <1>1, <1>2, <1>3, <1>6, RegularApplies

\* Without a late grant, so do the follow-ups of a fact that no decision consumed.
LEMMA TailFollowUps ==
  ASSUME NEW past, Sourced(past), ~LateGrantIn(past), NEW i \in DOMAIN past, NEW walk,
         WalkIsTraced(walk, past, i - 1), TailState(walk, past, i - 1),
         NEW here, HereAgrees(walk, past, i, here), ~here.view.raised,
         StepsFor(past, i) = {}, CancelsFor(past, i) = {}, IsExternalDecisionFact(past, i)
  PROVE  FollowUpsHaveSources(here.view, past, i)
<1>1. PICK view : view = here.view
  OBVIOUS
<1>2. IsLog(past) /\ AttemptsGrounded(past) /\ VerdictsGrounded(past)
  BY DEF Sourced, Grounded
<1>3. /\ ViewIsTrue(view, past)
      /\ \A j \in 1..i : past[j].kind # "step" => Shown(view, j)
      /\ \A s \in here.applied : Shown(view, s)
      /\ here.applied = walk.applied
  BY <1>1 DEF HereAgrees, WalkIsSound
<1>4. /\ i \in 1..Len(past) /\ Len(past) \in Nat /\ DOMAIN past = 1..Len(past)
  BY <1>2, EventTyped
<1>5. \A s \in Of(past, "step") : Shown(view, s) /\ past[s].request.trigger <= i - 1
  BY <1>3 DEF TailState, WalkIsTraced
<1>6. ASSUME NEW a \in Of(past, "attempt"), i < a, Known(view.commands[past[a].command])
      PROVE  Shown(view, past[a].cause)
  <2>1. PICK c, e : c = past[a].command /\ e = past[a].cause
    OBVIOUS
  <2>2. a \in DOMAIN past /\ past[a].kind = "attempt"
    BY DEF Of
  <2>3. e \in 1..a - 1 /\ EligibleBy(past, e, c)
    BY <1>2, <2>1 DEF AttemptsGrounded
  <2>4. c \in Commands /\ a \in Nat
    BY <1>2, <2>1, <2>2, EventTyped, EventFields DEF AboutCommand
  <2>5. e \in DOMAIN past /\ e \in Nat
    BY <1>4, <2>2, <2>3
  <2>6. CASE past[e].kind = "step"
    <3>1. e \in Of(past, "step")
      BY <2>5, <2>6 DEF Of
    <3> QED
      BY <1>5, <2>1, <3>1
  <2>7. CASE past[e].kind # "step"
    <3>1. past[e].kind = "grant" /\ past[e].command = c
      BY <2>3, <2>7 DEF EligibleBy
    <3>2. e <= i
      <4> SUFFICES ASSUME i < e PROVE FALSE
        BY <1>4, <2>5
      <4>1. PICK s : s = past[e].cause
        OBVIOUS
      <4>2. s \in 1..e - 1 /\ past[s].kind = "step" /\ c \in past[s].commands \cap NeedsAuthorization
        BY <1>2, <2>5, <3>1, <4>1 DEF VerdictsGrounded
      <4>3. s \in Of(past, "step")
        BY <1>4, <2>5, <4>2 DEF Of
      <4>4. past[s].request.trigger < i
        <5>1. past[s].request.trigger \in Int
          BY <1>2, <4>3, EventTyped, EventFields DEF Of, Requests, Positions
        <5> QED
          BY <1>4, <1>5, <4>3, <5>1
      <4>5. past[a].cause > i
        BY <1>4, <2>1, <2>5
      <4> QED
        BY <2>1, <2>2, <4>2, <4>3, <4>4, <4>5 DEF LateGrantIn
    <3>3. e \in 1..i
      BY <1>4, <2>3, <2>5, <3>2
    <3> QED
      BY <1>3, <2>1, <2>7, <3>3
  <2> QED
    BY <2>6, <2>7
<1> QED
  BY <1>1, <1>3, <1>6 DEF FollowUpsHaveSources

\* A walk that stops where no decision was taken has passed by no cancelled trigger.
LEMMA HaltsAfterCancels ==
  ASSUME NEW past, Sourced(past), NEW i \in DOMAIN past, NEW walk,
         WalkIsSound(walk, past, i - 1), WalkLeavesNothing(walk, past, i - 1),
         TailState(walk, past, i - 1), ArrivesAt(walk, past, i),
         NEW here, HereAgrees(walk, past, i, here), ~here.view.raised,
         RequiresDecision(here.view, past, i),
         StepsFor(past, i) = {}, CancelsFor(past, i) = {}
  PROVE  \A k \in Of(past, "cancel") : past[k].trigger <= i
<1> SUFFICES ASSUME NEW k \in Of(past, "cancel"), ~(past[k].trigger <= i) PROVE FALSE
  OBVIOUS
<1>1. IsLog(past) /\ IssuedOnce(past)
  BY DEF Sourced, Grounded
<1>2. PICK t, cut : t = past[k].trigger /\ WasNextIn(cut, past, t)
  BY DEF Sourced
<1>3. t \in Nat /\ i \in Nat /\ i \in Positions
  BY <1>1, <1>2, EventTyped, EventFields DEF Of, Positions
<1>4. i < t
  BY <1>2, <1>3
<1>5. Wants(past, i)
  BY <1>1, RequiredIsWanted
<1>6. PICK u \in Of(past, "step") : ShownTo(past, u, i)
  BY <1>1, <1>2, <1>4, <1>5, PassedIsAnswered
<1>7. u \in walk.applied /\ past[u].kind = "step"
  BY DEF TailState, Of
<1>8. Shown(walk.view, i)
  BY <1>3, <1>6, <1>7 DEF WalkLeavesNothing
<1> QED
  BY <1>8 DEF ArrivesAt

\* Where the walk does not arrive, there is no cancelled trigger.
LEMMA PassedIsNotCancelled ==
  ASSUME NEW past, Sourced(past), NEW i \in DOMAIN past, NEW walk,
         WalkLeavesNothing(walk, past, i - 1), GoesOn(walk), ~ArrivesAt(walk, past, i)
  PROVE  CancelsFor(past, i) = {}
<1> SUFFICES ASSUME NEW k \in CancelsFor(past, i) PROVE FALSE
  OBVIOUS
<1>1. IsLog(past) /\ IssuedOnce(past) /\ ConsumedOnce(past)
  BY DEF Sourced, Grounded
<1>2. k \in Of(past, "cancel") /\ past[k].trigger = i
  BY DEF CancelsFor
<1>3. PICK cut : WasNextIn(cut, past, i)
  BY <1>2 DEF Sourced
<1>4. ~Shown(walk.view, i)
  BY <1>1, <1>3, ConsumedIsNotShown
<1>5. past[i].kind # "step"
  <2>1. /\ IsLog(cut) /\ Begins(cut, past) /\ ~Projection(cut).raised
        /\ i = Projection(cut).next /\ i # None
    BY <1>3 DEF WasNextIn
  <2>2. i \in DOMAIN cut /\ Wants(cut, i)
    BY <1>1, <2>1, BeginsIssuedOnce, NextIsWanted
  <2>3. past[i] = cut[i]
    BY <1>1, <2>1, <2>2, BeginFacts
  <2> QED
    BY <2>2, <2>3 DEF Wants, IsExternalDecisionFact
<1> QED
  BY <1>4, <1>5 DEF ArrivesAt

\* A walk that arrives at an event goes on as it should.
LEMMA TailArrives ==
  ASSUME NEW past, Sourced(past), ~LateGrantIn(past), NEW i \in DOMAIN past, NEW operational,
         NEW walk, WalkIsSound(walk, past, i - 1), WalkLeavesNothing(walk, past, i - 1),
         WalkIsTraced(walk, past, i - 1), TailState(walk, past, i - 1), ArrivesAt(walk, past, i)
  PROVE  TailState(WalkOn(walk, past, i, operational), past, i)
<1>1. PICK here, after : here = Here(walk, past, i) /\ after = Arrive(here, past, i, operational)
  OBVIOUS
<1>2. IsLog(past) /\ Grounded(past) /\ ConsumedOnce(past)
  BY DEF Sourced
<1>3. WalkOn(walk, past, i, operational) = after /\ HereAgrees(walk, past, i, here)
  BY <1>1, <1>2, HereIsSound
<1>4. /\ here \in WalkStates /\ ViewIsTrue(here.view, past) /\ here.view.raised = FALSE
      /\ here.applied = walk.applied /\ here.halted = FALSE
  <2>1. ~ApplyRegular(walk.view, past, i).raised
    BY TailApplies
  <2>2. WalkIsSound(here, past, i) /\ here.view = ApplyRegular(walk.view, past, i)
        /\ here.applied = walk.applied /\ here.halted = FALSE
    BY <1>3 DEF HereAgrees
  <2>3. here.view.raised \in BOOLEAN
    BY <2>2 DEF WalkIsSound, ViewIsTrue, Views
  <2> QED
    BY <2>1, <2>2, <2>3 DEF WalkIsSound
<1>5. i \in Nat /\ i \in Positions /\ Len(past) \in Nat
  BY <1>2, EventTyped DEF Positions
<1>6. StepsFor(past, i) = {}
  <2> SUFFICES ASSUME NEW s \in StepsFor(past, i) PROVE FALSE
    OBVIOUS
  <2>1. s \in Of(past, "step") /\ past[s].request.trigger = i
    BY DEF StepsFor
  <2>2. past[s].request.trigger <= i - 1
    BY <2>1 DEF TailState, WalkIsTraced
  <2> QED
    BY <1>5, <2>1, <2>2
<1>7. ASSUME NEW k \in Of(past, "cancel"), past[k].trigger <= i
      PROVE  k \in walk.applied \/ k \in CancelsFor(past, i)
  <2>1. past[k].trigger \in Nat
    BY <1>2, EventTyped, EventFields DEF Of, Positions
  <2>2. past[k].trigger <= i - 1 \/ past[k].trigger = i
    BY <1>5, <1>7, <2>1
  <2> QED
    BY <2>2 DEF TailState, CancelsFor
<1>8. Of(past, "step") \subseteq walk.applied
  BY DEF TailState
<1>9. CASE CancelsFor(past, i) # {}
  <2>1. PICK k \in CancelsFor(past, i) : after = ApplyCancellation(here, past, k)
    BY <1>1, <1>4, <1>9 DEF Arrive
  <2>2. k \in DOMAIN past /\ past[k].kind = "cancel"
    BY <1>2, ConsumersTyped
  <2>3. /\ after.view = ApplyRegular(here.view, past, k) /\ after.applied = here.applied \cup {k}
        /\ after.halted = FALSE
    BY <1>4, <2>1 DEF ApplyCancellation, WalkStates
  <2>4. ApplyRegular(here.view, past, k) = Show(here.view, k)
    BY <2>2 DEF ApplyRegular, AboutCommand
  <2>5. Show(here.view, k).raised = here.view.raised
    BY <1>4 DEF Show, ViewIsTrue, Views
  <2>6. ~after.view.raised
    BY <1>4, <2>3, <2>4, <2>5
  <2>7. \A j \in CancelsFor(past, i) : j = k
    BY <1>2, <1>5, ConsumersTyped DEF ConsumedOnce
  <2>8. TailState(after, past, i)
    BY <1>4, <1>7, <1>8, <2>3, <2>6, <2>7 DEF TailState
  <2> QED
    BY <1>3, <2>8
<1>10. CASE CancelsFor(past, i) = {}
  <2>1. after = ConsiderTrigger(here, past, i, operational)
    BY <1>1, <1>4, <1>6, <1>10 DEF Arrive
  <2>2. CASE ~RequiresDecision(here.view, past, i)
    <3>1. after = here
      BY <2>1, <2>2 DEF ConsiderTrigger
    <3>2. TailState(after, past, i)
      BY <1>4, <1>7, <1>8, <1>10, <3>1 DEF TailState
    <3> QED
      BY <1>3, <3>2
  <2>3. CASE RequiresDecision(here.view, past, i)
    <3>1. PICK view : view = DecisionView(here.view, past, i, operational, Len(past))
      OBVIOUS
    <3>2. (after.view = here.view \/ after.view = view) /\ after.applied = here.applied
      BY <1>4, <2>1, <3>1 DEF ConsiderTrigger, WalkStates
    <3>3. ~view.raised
      <4>1. IsExternalDecisionFact(past, i) => FollowUpsHaveSources(here.view, past, i)
        BY <1>3, <1>4, <1>6, <1>10, TailFollowUps
      <4>2. ViewIsTraced(here.view, past)
        <5>1. /\ ~walk.view.raised /\ past[i].kind # "step" /\ ~Shown(walk.view, i)
              /\ ViewIsTrue(walk.view, past)
          BY DEF ArrivesAt, GoesOn, WalkIsSound
        <5>2. ViewIsTraced(walk.view, past)
          BY <5>1 DEF WalkIsTraced, RaisedOrTraced
        <5>3. here.view = ApplyRegular(walk.view, past, i)
          BY <1>3 DEF HereAgrees
        <5> QED
          BY <1>2, <1>4, <5>1, <5>2, <5>3, RegularIsTraced
      <4> QED
        BY <1>2, <1>4, <1>5, <3>1, <4>1, <4>2, DecisionViewApplies
    <3>4. \A k \in Of(past, "cancel") : past[k].trigger <= i
      BY <1>3, <1>4, <1>6, <1>10, <2>3, HaltsAfterCancels
    <3>5. TailState(after, past, i)
      BY <1>4, <1>7, <1>8, <1>10, <3>2, <3>3, <3>4 DEF TailState
    <3> QED
      BY <1>3, <3>5
  <2> QED
    BY <2>2, <2>3
<1> QED
  BY <1>9, <1>10

\* One more event, walked, leaves it so.
LEMMA TailStep ==
  ASSUME NEW past, Sourced(past), ~LateGrantIn(past), NEW i \in DOMAIN past, NEW operational,
         NEW walk, WalkIsSound(walk, past, i - 1), WalkIsThorough(walk, past, operational, i - 1),
         WalkIsTraced(walk, past, i - 1), TailState(walk, past, i - 1)
  PROVE  TailState(WalkOn(walk, past, i, operational), past, i)
<1>1. IsLog(past)
  BY DEF Sourced
<1>2. ~walk.view.raised /\ Of(past, "step") \subseteq walk.applied
  BY DEF TailState
<1>3. CASE ArrivesAt(walk, past, i)
  <2>1. WalkLeavesNothing(walk, past, i - 1)
    BY <1>3 DEF WalkIsThorough, ArrivesAt, GoesOn
  <2> QED
    BY <1>3, <2>1, TailArrives
<1>4. CASE ~ArrivesAt(walk, past, i)
  <2>1. WalkOn(walk, past, i, operational) = walk
    BY <1>4 DEF WalkOn, ArrivesAt, GoesOn
  <2>2. ASSUME NEW k \in Of(past, "cancel"), past[k].trigger <= i \/ walk.halted
        PROVE  k \in walk.applied
    <3>1. CASE walk.halted
      BY <3>1 DEF TailState
    <3>2. CASE ~walk.halted
      <4>1. WalkLeavesNothing(walk, past, i - 1) /\ GoesOn(walk)
        BY <1>2, <3>2 DEF WalkIsThorough, GoesOn
      <4>2. CancelsFor(past, i) = {}
        BY <1>4, <4>1, PassedIsNotCancelled
      <4>3. past[k].trigger # i
        BY <4>2 DEF CancelsFor
      <4>4. past[k].trigger \in Nat /\ i \in Nat
        BY <1>1, EventTyped, EventFields DEF Of, Positions
      <4>5. past[k].trigger <= i - 1
        BY <2>2, <3>2, <4>3, <4>4
      <4> QED
        BY <4>5 DEF TailState
    <3> QED
      BY <3>1, <3>2
  <2> QED
    BY <1>2, <2>1, <2>2 DEF TailState
<1> QED
  BY <1>3, <1>4

\* So the walk is well at its end, if it is anywhere.
LEMMA TailToEnd ==
  ASSUME NEW past, Sourced(past), ~LateGrantIn(past), NEW operational,
         NEW m \in 0..Len(past), TailState(WalkAt(past, operational, m), past, m)
  PROVE  TailState(WalkAt(past, operational, Len(past)), past, Len(past))
<1> DEFINE at(n) == WalkAt(past, operational, n)
<1>1. IsLog(past) /\ Grounded(past) /\ IssuedOnce(past)
  BY DEF Sourced, Grounded
<1>2. Len(past) \in Nat /\ DOMAIN past = 1..Len(past)
  BY <1>1 DEF IsLog
<1>3. \A n \in 1..Len(past) : at(n) = WalkOn(at(n - 1), past, n, operational)
  BY <1>1, WalkOfLog
<1>4. \A n \in 0..Len(past) : /\ WalkIsSound(at(n), past, n)
                              /\ WalkIsThorough(at(n), past, operational, n)
  BY <1>1, WalkIsThoroughAtEach
<1>5. \A n \in 0..Len(past) : WalkIsTraced(at(n), past, n)
  BY <1>1, WalkIsTracedAtEach
<1> HIDE DEF at
<1>6. TailState(at(m), past, m)
  BY DEF at
<1> DEFINE S == {n \in 0..Len(past) : m <= n => TailState(at(n), past, n)}
<1>7. 0 \in S
  <2>1. m <= 0 => m = 0
    OBVIOUS
  <2> QED
    BY <1>2, <1>6, <2>1
<1>8. ASSUME NEW n \in 0..Len(past) - 1, n \in S
      PROVE  n + 1 \in S
  <2>1. PICK i : i = n + 1
    OBVIOUS
  <2>2. i \in DOMAIN past /\ i - 1 = n /\ i \in 0..Len(past) /\ n \in 0..Len(past) /\ n \in Nat
    BY <1>2, <2>1
  <2>3. CASE ~(m <= i)
    BY <2>1, <2>2, <2>3
  <2>4. CASE m = i
    BY <1>6, <2>1, <2>2, <2>4
  <2>5. CASE m <= n
    <3>1. TailState(at(n), past, n)
      BY <1>8, <2>5
    <3>2. at(i) = WalkOn(at(n), past, i, operational)
      BY <1>2, <1>3, <2>2
    <3>3. /\ WalkIsSound(at(n), past, n) /\ WalkIsThorough(at(n), past, operational, n)
          /\ WalkIsTraced(at(n), past, n)
      BY <1>4, <1>5, <2>2
    <3>4. TailState(at(i), past, i)
      BY <2>2, <3>1, <3>2, <3>3, TailStep
    <3> QED
      BY <2>1, <2>2, <3>4
  <2>6. m <= i => m = i \/ m <= n
    BY <2>1, <2>2
  <2> QED
    BY <2>3, <2>4, <2>5, <2>6
<1> HIDE DEF S
<1>9. 0..Len(past) \subseteq S
  BY <1>2, <1>7, <1>8, Ops!UpTo
<1>10. Len(past) \in S /\ m <= Len(past)
  BY <1>2, <1>9
<1> QED
  BY <1>10 DEF S, at

-------------------------------------------------------------------------------
\* The last step replays: the walk comes to its trigger as it did when it was decided,
\* and so shows it the same frame.

\* What StaleCancel says, of any log.
StaleCancelIn(past) ==
  \E k \in Of(past, "cancel"), s \in Of(past, "step") :
    past[k].trigger < past[s].request.trigger /\ ObservedBy(past, s) < k

\* Step s decided on what was next in the cut, and its frame is the cut's.
IsCutOf(cut, past, s) ==
  /\ WasNextIn(cut, past, past[s].request.trigger)
  /\ past[s].request.frame = Projection(cut).frame
  /\ Len(cut) = ObservedBy(past, s)
  /\ ObservedBy(past, s) < s

\* No step was decided without having seen the steps before it.
DecidedInOrder(past) ==
  /\ \A s \in Of(past, "step") : \E cut : IsCutOf(cut, past, s)
  /\ \A s, t \in Of(past, "step") : s < t => s <= ObservedBy(past, t)

\* Step s is the last.
IsLastStep(past, s) == s \in Of(past, "step") /\ \A u \in Of(past, "step") : u <= s

\* What came after the cut of the last step: the step itself, and cancellations of later triggers.
LEMMA AfterLastCut ==
  ASSUME NEW past, Sourced(past), DecidedInOrder(past), ~StaleCancelIn(past),
         NEW s, IsLastStep(past, s), NEW cut, IsCutOf(cut, past, s),
         NEW t, t = past[s].request.trigger
  PROVE  /\ \A u \in Of(past, "step") : u = s \/ u \in Of(cut, "step")
         /\ \A k \in Of(past, "cancel") : k \in Of(cut, "cancel") \/ t < past[k].trigger
         /\ s \notin DOMAIN cut
         /\ StepsFor(past, t) = {s} /\ CancelsFor(past, t) = {}
<1>1. IsLog(past) /\ ConsumedOnce(past)
  BY DEF Sourced
<1>2. IsLog(cut) /\ Begins(cut, past)
  BY DEF IsCutOf, WasNextIn
<1>3. /\ DOMAIN cut = 1..Len(cut) /\ DOMAIN past = 1..Len(past) /\ Len(cut) \in Nat /\ Len(past) \in Nat
      /\ \A kind : \A i \in Of(past, kind) : i \in DOMAIN cut => i \in Of(cut, kind)
  BY <1>1, <1>2, BeginFacts
<1>4. /\ s \in Of(past, "step") /\ s \in DOMAIN past /\ past[s].kind = "step"
      /\ ObservedBy(past, s) = Len(cut) /\ Len(cut) < s
      /\ \A u \in Of(past, "step") : u <= s
  BY DEF IsLastStep, IsCutOf, Of
<1>5. t \in Positions /\ t \in Nat
  BY <1>1, <1>4, EventTyped, EventFields DEF Requests, Positions
<1>6. ASSUME NEW u \in Of(past, "step"), u # s PROVE u \in Of(cut, "step")
  <2>1. u \in 1..Len(past) /\ u <= s /\ s \in Nat
    BY <1>3, <1>4 DEF Of
  <2>2. u <= Len(cut)
    BY <1>4, <1>6, <2>1 DEF DecidedInOrder
  <2> QED
    BY <1>3, <2>1, <2>2
<1>7. s \in StepsFor(past, t)
  BY <1>4 DEF StepsFor
<1>8. StepsFor(past, t) = {s} /\ CancelsFor(past, t) = {}
  <2>1. \A u \in StepsFor(past, t) : u = s
    BY <1>1, <1>5, <1>7, ConsumersTyped DEF ConsumedOnce
  <2>2. \A k \in CancelsFor(past, t) : k = s /\ past[k].kind = "cancel"
    BY <1>1, <1>5, <1>7, ConsumersTyped DEF ConsumedOnce
  <2> QED
    BY <1>4, <1>7, <2>1, <2>2
<1>9. ASSUME NEW k \in Of(past, "cancel"), k \notin Of(cut, "cancel")
      PROVE  t < past[k].trigger
  <2>1. k \in DOMAIN past /\ k \notin DOMAIN cut /\ past[k].kind = "cancel"
    BY <1>3, <1>9 DEF Of
  <2>2. k \in Nat /\ ObservedBy(past, s) < k
    BY <1>3, <1>4, <2>1
  <2>3. ~(past[k].trigger < t)
    BY <1>4, <2>2 DEF StaleCancelIn
  <2>4. past[k].trigger # t
    BY <1>8 DEF CancelsFor
  <2>5. past[k].trigger \in Nat
    BY <1>1, <2>1, EventTyped, EventFields DEF Positions
  <2> QED
    BY <1>5, <2>3, <2>4, <2>5
<1>10. s \notin DOMAIN cut
  BY <1>3, <1>4
<1> QED
  BY <1>6, <1>8, <1>9, <1>10

\* So up to its trigger the walk over the log goes where the walk over the cut went.
LEMMA WalkedLikeCut ==
  ASSUME NEW past, Sourced(past), DecidedInOrder(past), ~StaleCancelIn(past),
         ~Operational(past).raised,
         NEW s, IsLastStep(past, s), NEW cut, IsCutOf(cut, past, s),
         NEW t, t = past[s].request.trigger
  PROVE  /\ WalkAt(past, Operational(past), t - 1) = WalkAt(cut, Operational(cut), t - 1)
         /\ ~Operational(cut).raised
<1>1. IsLog(past) /\ IssuedOnce(past)
  BY DEF Sourced, Grounded
<1>2. /\ IsLog(cut) /\ Begins(cut, past) /\ ~Projection(cut).raised
      /\ t = Projection(cut).next /\ t # None
  BY DEF IsCutOf, WasNextIn
<1>3. IssuedOnce(cut)
  BY <1>1, <1>2, BeginsIssuedOnce
<1>4. ~Operational(cut).raised
  BY <1>2 DEF Projection, Project, ProjectionOf
<1>5. t \in DOMAIN cut /\ GoesOn(WalkAt(cut, Operational(cut), t - 1))
  BY <1>2, <1>3, NextWalk
<1>6. /\ DOMAIN cut = 1..Len(cut) /\ Len(cut) \in Nat /\ Len(past) \in Nat
      /\ \A i \in DOMAIN cut : i \in DOMAIN past /\ past[i] = cut[i]
      /\ \A kind : \A i \in Of(cut, kind) : i \in Of(past, kind) /\ i \in DOMAIN cut
      /\ \A u \in DOMAIN cut : ObservedBy(past, u) = ObservedBy(cut, u)
  BY <1>1, <1>2, BeginFacts
<1>7. t - 1 \in 0..Len(cut) /\ t \in Nat
  BY <1>5, <1>6
<1>8. \A u \in Of(cut, "step") : ObservedBy(cut, u) <= Len(cut)
  <2> SUFFICES ASSUME NEW u \in Of(cut, "step") PROVE ObservedBy(cut, u) <= Len(cut)
    OBVIOUS
  <2>1. u \in Of(past, "step") /\ u \in 1..Len(cut)
    BY <1>6
  <2>2. ObservedBy(past, u) < u
    BY <2>1 DEF DecidedInOrder, IsCutOf
  <2>3. ObservedBy(cut, u) = ObservedBy(past, u) /\ ObservedBy(past, u) \in Nat
    BY <1>1, <1>6, <2>1 DEF IsLog
  <2> QED
    BY <1>6, <2>1, <2>2, <2>3
<1>9. ASSUME NEW i \in 1..t - 1 PROVE SameConsumers(cut, past, i)
  <2>1. i < t /\ i # t
    BY <1>7
  <2>2. \A u \in Of(past, "step") : u = s \/ u \in Of(cut, "step")
    BY AfterLastCut
  <2>3. \A k \in Of(past, "cancel") : k \in Of(cut, "cancel") \/ t < past[k].trigger
    BY AfterLastCut
  <2>4. StepsFor(past, i) = StepsFor(cut, i)
    BY <1>6, <2>1, <2>2 DEF StepsFor
  <2>5. CancelsFor(past, i) = CancelsFor(cut, i)
    BY <1>6, <1>7, <2>1, <2>3 DEF CancelsFor
  <2> QED
    BY <2>4, <2>5 DEF SameConsumers
<1> QED
  BY <1>1, <1>2, <1>3, <1>4, <1>5, <1>7, <1>8, <1>9, SameWalk

\* The frame of the last step is the one the walk arrives at.
LEMMA LastStepReplays ==
  ASSUME NEW past, Sourced(past), DecidedInOrder(past), ~StaleCancelIn(past),
         ~Operational(past).raised,
         NEW s, IsLastStep(past, s), NEW cut, IsCutOf(cut, past, s),
         NEW t, t = past[s].request.trigger,
         NEW prior, prior = WalkAt(past, Operational(past), t - 1),
         NEW here, HereAgrees(prior, past, t, here), here.cursor = prior.cursor,
         NEW view, view = DecisionView(here.view, past, t, Operational(past), ObservedBy(past, s))
  PROVE  /\ SameFrame(here, view, past[s].request.frame, s)
         /\ ViewIsTrue(view, cut)
<1>1. IsLog(past) /\ IssuedOnce(past)
  BY DEF Sourced, Grounded
<1>2. /\ IsLog(cut) /\ Begins(cut, past) /\ ~Projection(cut).raised
      /\ t = Projection(cut).next /\ t # None
      /\ past[s].request.frame = Projection(cut).frame
      /\ Len(cut) = ObservedBy(past, s) /\ ObservedBy(past, s) < s
  BY DEF IsCutOf, WasNextIn
<1>3. IssuedOnce(cut)
  BY <1>1, <1>2, BeginsIssuedOnce
<1>4. prior = WalkAt(cut, Operational(cut), t - 1) /\ ~Operational(cut).raised
  BY WalkedLikeCut
<1>5. PICK ops, final : ops = Operational(cut) /\ final = DecisionWalk(cut, ops)
  OBVIOUS
<1>6. t \in DOMAIN cut /\ DecidesAt(prior, cut, t, ops, final)
  BY <1>2, <1>3, <1>4, <1>5, NextWalk
<1>7. past[t] = cut[t]
  BY <1>1, <1>2, <1>6, BeginFacts
<1>8. PICK shown : shown = here.view
  OBVIOUS
<1>9. shown = ApplyRegular(prior.view, cut, t)
  BY <1>7, <1>8 DEF HereAgrees, ApplyRegular
<1>10. final.view = DecisionView(shown, cut, t, ops, Len(cut)) /\ final.cursor = prior.cursor
  BY <1>6, <1>9 DEF DecidesAt
<1>11. ViewIsTrue(shown, cut)
  <2>1. Len(cut) \in Nat /\ DOMAIN cut = 1..Len(cut)
    BY <1>2 DEF IsLog
  <2>2. t - 1 \in 0..Len(cut)
    BY <1>6, <2>1
  <2>3. WalkIsSound(prior, cut, t - 1)
    BY <1>2, <1>3, <1>4, <2>2, WalkIsThoroughAtEach
  <2>4. ViewIsTrue(prior.view, cut) /\ cut[t].kind # "step" /\ ~Shown(prior.view, t)
    BY <1>6, <2>3 DEF WalkIsSound, DecidesAt
  <2> QED
    BY <1>2, <1>6, <1>9, <2>4, ApplyRegularIsTrue
<1>12. Len(cut) \in 0..Len(cut) /\ Len(cut) \in Nat /\ DOMAIN cut = 1..Len(cut)
  BY <1>2 DEF IsLog
<1>13. view = final.view
  <2>1. PICK until : until = Len(cut)
    OBVIOUS
  <2>2. until \in 0..Len(cut)
    BY <1>12, <2>1
  <2>3. DecisionView(shown, past, t, Operational(past), until)
          = DecisionView(shown, cut, t, Operational(cut), until)
    BY <1>1, <1>2, <1>4, <1>6, <1>11, <2>2, SameDecisionView
  <2>4. view = DecisionView(shown, past, t, Operational(past), until)
    BY <1>2, <1>8, <2>1
  <2> QED
    BY <1>5, <1>10, <2>1, <2>3, <2>4
<1>14. ViewIsTrue(view, cut)
  <2>1. FollowedUp(shown, cut, t, Len(cut), final.view)
    BY <1>2, <1>6, <1>10, <1>11, <1>12, DecisionViewIsTrue
  <2> QED
    BY <1>13, <2>1 DEF FollowedUp
<1>15. /\ ~final.view.raised
       /\ past[s].request.frame = [cursor |-> final.cursor + 1, basis |-> final.view.visible,
                                   observed |-> Len(cut)]
  BY <1>2, <1>5 DEF Projection, Project, ProjectionOf
<1>16. \A n \in DOMAIN view.visible : view.visible[n] <= Len(cut)
  <2>1. \A n \in DOMAIN view.visible : view.visible[n] \in DOMAIN cut
    BY <1>14 DEF ViewIsTrue, Shown
  <2> QED
    BY <1>12, <2>1
<1>17. SameFrame(here, view, past[s].request.frame, s)
  <2>1. PICK frame : frame = past[s].request.frame
    OBVIOUS
  <2>2. /\ frame.cursor = final.cursor + 1 /\ frame.basis = final.view.visible
        /\ frame.observed = Len(cut)
    BY <1>15, <2>1
  <2>3. frame.cursor = here.cursor + 1 /\ frame.observed < s
    BY <1>2, <1>10, <2>2
  <2> QED
    BY <1>13, <1>15, <1>16, <2>1, <2>2, <2>3 DEF SameFrame
<1> QED
  BY <1>14, <1>17

\* A step issues only commands that are new to the view it was decided in.
LEMMA LastStepIssues ==
  ASSUME NEW past, IsLog(past), IssuedOnce(past), NEW cut, IsLog(cut), Begins(cut, past),
         NEW s \in Of(past, "step"), s \notin DOMAIN cut,
         NEW view, ViewIsTrue(view, cut), ~view.raised
  PROVE  ~ApplyStep(view, past, s).raised
<1>1. ASSUME NEW c \in past[s].commands PROVE ~Known(view.commands[c])
  <2> SUFFICES ASSUME Known(view.commands[c]) PROVE FALSE
    OBVIOUS
  <2>1. c \in Commands
    BY EventTyped, EventFields DEF Of
  <2>2. PICK u : u = view.commands[c].issued
    OBVIOUS
  <2>3. u \in Positions
    BY <2>1, <2>2 DEF ViewIsTrue, Views, CommandStates, Known
  <2>4. Shown(view, u) /\ cut[u].kind = "step" /\ c \in cut[u].commands
    BY <2>1, <2>2, <2>3 DEF ViewIsTrue, StateIsTrue
  <2>5. u \in DOMAIN cut
    BY <2>4 DEF ViewIsTrue
  <2>6. u \in Of(past, "step") /\ past[u] = cut[u]
    BY <2>4, <2>5, BeginFacts DEF Of
  <2> QED
    BY <2>4, <2>5, <2>6 DEF IssuedOnce
<1>2. PICK after : after = [view EXCEPT !.commands =
               [c \in Commands |-> IF c \in past[s].commands THEN Issued(c, s) ELSE @[c]]]
  OBVIOUS
<1>3. ApplyStep(view, past, s) = Show(after, s)
  BY <1>1, <1>2 DEF ApplyStep
<1>4. after.raised = view.raised /\ Show(after, s).raised = after.raised
  BY <1>2 DEF ViewIsTrue, Views, Show
<1> QED
  BY <1>3, <1>4

\* When the walk has applied the last step, it is well.
LEMMA LastStepApplied ==
  ASSUME NEW past, Sourced(past), DecidedInOrder(past), ~StaleCancelIn(past),
         ~Operational(past).raised,
         NEW s, IsLastStep(past, s), NEW t, t = past[s].request.trigger
  PROVE  t \in 0..Len(past) /\ TailState(WalkAt(past, Operational(past), t), past, t)
<1>1. IsLog(past) /\ IssuedOnce(past)
  BY DEF Sourced, Grounded
<1>2. PICK cut : IsCutOf(cut, past, s)
  BY DEF DecidedInOrder, IsLastStep
<1>3. /\ IsLog(cut) /\ Begins(cut, past) /\ ~Projection(cut).raised
      /\ t = Projection(cut).next /\ t # None
  BY <1>2 DEF IsCutOf, WasNextIn
<1>4. IssuedOnce(cut)
  BY <1>1, <1>3, BeginsIssuedOnce
<1>5. PICK operational, prior :
        operational = Operational(past) /\ prior = WalkAt(past, operational, t - 1)
  OBVIOUS
<1>6. prior = WalkAt(cut, Operational(cut), t - 1)
  BY <1>2, <1>5, WalkedLikeCut
<1>7. /\ t \in DOMAIN cut /\ GoesOn(prior)
      /\ DecidesAt(prior, cut, t, Operational(cut), DecisionWalk(cut, Operational(cut)))
      /\ Of(cut, "step") \cup Of(cut, "cancel") \subseteq prior.applied
  BY <1>3, <1>4, <1>6, NextWalk
<1>8. t \in DOMAIN past /\ past[t] = cut[t]
  BY <1>1, <1>3, <1>7, BeginFacts
<1>9. t \in 1..Len(past) /\ t - 1 \in 0..Len(past) /\ t \in 0..Len(past) /\ Len(past) \in Nat
  <2>1. t \in 1..Len(past) /\ Len(past) \in Nat
    BY <1>1, <1>8 DEF IsLog
  <2> QED
    BY <2>1
<1>10. WalkIsSound(prior, past, t - 1)
  BY <1>1, <1>5, <1>9, WalkIsThoroughAtEach
<1>11. PICK after : after = WalkAt(past, operational, t)
  OBVIOUS
<1>12. after = WalkOn(prior, past, t, operational)
  BY <1>1, <1>5, <1>9, <1>11, WalkOfLog
<1>13. ArrivesAt(prior, past, t)
  BY <1>7, <1>8 DEF ArrivesAt, DecidesAt
<1>14. PICK here : here = Here(prior, past, t)
  OBVIOUS
<1>15. after = Arrive(here, past, t, operational) /\ HereAgrees(prior, past, t, here)
  BY <1>1, <1>8, <1>10, <1>12, <1>13, <1>14, HereIsSound
<1>16. here.cursor = prior.cursor
  BY <1>10, <1>14 DEF Here, WalkIsSound, WalkStates
<1>17. /\ here \in WalkStates /\ here.applied = prior.applied /\ here.halted = FALSE
       /\ here.view = ApplyRegular(prior.view, past, t)
  BY <1>15 DEF HereAgrees, WalkIsSound
<1>18. ~here.view.raised
  BY <1>7, <1>8, <1>17 DEF DecidesAt, ApplyRegular
<1>19. /\ \A u \in Of(past, "step") : u = s \/ u \in Of(cut, "step")
       /\ \A k \in Of(past, "cancel") : k \in Of(cut, "cancel") \/ t < past[k].trigger
       /\ s \notin DOMAIN cut
       /\ StepsFor(past, t) = {s} /\ CancelsFor(past, t) = {}
  BY <1>2, AfterLastCut
<1>20. after = ApplyDecision(here, past, t, s, operational)
  <2>1. StepsFor(past, t) # {} /\ (CHOOSE u \in StepsFor(past, t) : TRUE) = s
    BY <1>19
  <2> QED
    BY <1>15, <1>18, <1>19, <2>1 DEF Arrive
<1>21. PICK view : view = DecisionView(here.view, past, t, operational, ObservedBy(past, s))
  OBVIOUS
<1>22. SameFrame(here, view, past[s].request.frame, s) /\ ViewIsTrue(view, cut)
  BY <1>2, <1>5, <1>15, <1>16, <1>21, LastStepReplays
<1>23. PICK stepped : stepped = ApplyStep(view, past, s)
  OBVIOUS
<1>24. ~stepped.raised
  BY <1>1, <1>3, <1>19, <1>22, <1>23, LastStepIssues DEF SameFrame, IsLastStep
<1>25. after = [here EXCEPT !.view = stepped, !.cursor = @ + 1, !.applied = @ \cup {s}]
  <2>1. ShownUntil(past, past[s].request.frame) = ObservedBy(past, s)
    BY DEF ShownUntil, ObservedBy
  <2>2. after = Decided(here, view, past, s)
    BY <1>20, <1>21, <2>1 DEF ApplyDecision
  <2> QED
    BY <1>22, <1>23, <2>2 DEF Decided
<1>26. after.view = stepped /\ after.applied = prior.applied \cup {s} /\ after.halted = FALSE
  BY <1>17, <1>25 DEF WalkStates
<1>27. Of(past, "step") \subseteq after.applied
  BY <1>7, <1>19, <1>26
<1>28. ASSUME NEW k \in Of(past, "cancel"), past[k].trigger <= t PROVE k \in after.applied
  <2>1. past[k].trigger \in Nat /\ t \in Nat
    BY <1>1, <1>8, EventTyped, EventFields DEF Of, Positions
  <2>2. ~(t < past[k].trigger)
    BY <1>28, <2>1
  <2> QED
    BY <1>7, <1>19, <1>26, <2>2
<1>29. TailState(after, past, t)
  BY <1>24, <1>26, <1>27, <1>28 DEF TailState
<1> QED
  BY <1>5, <1>9, <1>11, <1>29

\* The last of some positions.
LEMMA LastStepExists ==
  ASSUME NEW past, IsLog(past), Of(past, "step") # {}
  PROVE  \E s : IsLastStep(past, s)
<1>1. Of(past, "step") \in SUBSET (1..Len(past)) /\ Len(past) \in Nat
  BY DEF IsLog, Of
<1> QED
  BY <1>1, Ops!GreatestPosition DEF IsLastStep

\* A log whose steps were decided in order, without a late grant and without a stale
\* cancellation, has a projection.
THEOREM LogReplays ==
  ASSUME NEW past, Sourced(past), DecidedInOrder(past), Indexable(past),
         ~Operational(past).raised, ~LateGrantIn(past), ~StaleCancelIn(past)
  PROVE  ~Projection(past).raised
<1>1. IsLog(past)
  BY DEF Sourced
<1>2. PICK operational, length : operational = Operational(past) /\ length = Len(past)
  OBVIOUS
<1>3. length \in Nat /\ DOMAIN past = 1..length
  BY <1>1, <1>2 DEF IsLog
<1>4. \E m \in 0..length : TailState(WalkAt(past, operational, m), past, m)
  <2>1. CASE Of(past, "step") = {}
    <3>1. WalkAt(past, operational, 0) = NewWalk
      BY <1>1, WalkOfLog
    <3>2. NewWalk.view.raised = FALSE /\ NewWalk.halted = FALSE
      BY DEF NewWalk, EmptyView
    <3>3. ASSUME NEW k \in Of(past, "cancel") PROVE ~(past[k].trigger <= 0)
      BY <1>1, EventTyped, EventFields DEF Of, Positions
    <3>4. TailState(NewWalk, past, 0)
      BY <2>1, <3>2, <3>3 DEF TailState
    <3> QED
      BY <1>3, <3>1, <3>4
  <2>2. CASE Of(past, "step") # {}
    <3>1. PICK s : IsLastStep(past, s)
      BY <1>1, <2>2, LastStepExists
    <3> QED
      BY <1>2, <3>1, LastStepApplied
  <2> QED
    BY <2>1, <2>2
<1>5. PICK walk : walk = WalkAt(past, operational, length)
  OBVIOUS
<1>6. TailState(walk, past, length)
  BY <1>2, <1>4, <1>5, TailToEnd
<1>7. Of(past, "step") \cup Of(past, "cancel") \subseteq walk.applied
  <2>1. ASSUME NEW k \in Of(past, "cancel") PROVE past[k].trigger <= length
    <3>1. past[k].trigger < k /\ k \in 1..length
      BY <1>3 DEF Indexable, Of
    <3>2. past[k].trigger \in Nat
      BY <1>1, EventTyped, EventFields DEF Of, Positions
    <3> QED
      BY <1>3, <3>1, <3>2
  <2> QED
    BY <1>6, <2>1 DEF TailState
<1>8. walk = DecisionWalk(past, operational)
  BY <1>1, <1>2, <1>5, WalkOfLog
<1>9. ~walk.view.raised
  BY <1>6 DEF TailState
<1> QED
  BY <1>2, <1>7, <1>8, <1>9 DEF Projection, Project, ProjectionOf

-------------------------------------------------------------------------------
\* What the events of a log justify next, and what stays true as it grows.

\* The events of a log justify another.
Justifies(past, e) ==
  \/ e.kind \in {"fact", "stop", "cancel"}
  \/ e.kind = "step" /\ \A s \in Of(past, "step") : \A c \in e.commands : c \notin past[s].commands
  \/ /\ e.kind \in {"grant", "reject"}
     /\ e.cause \in Of(past, "step")
     /\ e.command \in past[e.cause].commands \cap NeedsAuthorization
     /\ \A g \in DOMAIN past : past[g].kind \in {"grant", "reject"} => past[g].command # e.command
  \/ /\ e.kind = "attempt"
     /\ e.number = 1
     /\ e.cause \in DOMAIN past
     /\ EligibleBy(past, e.cause, e.command)
     /\ \A a \in Of(past, "attempt") : past[a].command # e.command
  \/ /\ e.kind = "outcome"
     /\ e.attempt \in Of(past, "attempt")
     /\ past[e.attempt].command = e.command
     /\ \A o \in Of(past, "outcome") : past[o].attempt # e.attempt

\* A log stays grounded when it grows by an event it justifies.
LEMMA GroundedAppend ==
  ASSUME NEW past \in Seq(Events), Grounded(past), NEW e \in Events, Justifies(past, e),
         NEW after, after = Append(past, e)
  PROVE  Grounded(after)
<1>1. PICK new : new = Len(past) + 1
  OBVIOUS
<1>2. /\ Len(past) \in Nat /\ DOMAIN past = 1..Len(past) /\ DOMAIN after = 1..new
      /\ \A i \in DOMAIN past : i \in DOMAIN after /\ after[i] = past[i] /\ i < new
      /\ \A i \in DOMAIN after : i \in DOMAIN past \/ i = new
      /\ after[new] = e /\ new \in DOMAIN after
  BY <1>1
<1>3. \A kind : \A i \in Of(after, kind) :
        \/ i \in Of(past, kind) /\ after[i] = past[i]
        \/ i = new /\ e.kind = kind
  BY <1>2 DEF Of
<1>4. IssuedOnce(after)
  <2>1. e.kind = "step" => \A r \in Of(past, "step") : \A d \in e.commands : d \notin past[r].commands
    BY DEF Justifies
  <2>2. ASSUME NEW s \in Of(after, "step"), NEW t \in Of(after, "step"), s # t
        PROVE  after[s].commands \cap after[t].commands = {}
    <3>1. CASE s \in Of(past, "step") /\ after[s] = past[s]
      <4>1. CASE t \in Of(past, "step") /\ after[t] = past[t]
        BY <2>2, <3>1, <4>1 DEF Grounded, IssuedOnce
      <4>2. CASE t = new /\ e.kind = "step"
        BY <1>2, <2>1, <3>1, <4>2
      <4> QED
        BY <1>3, <4>1, <4>2
    <3>2. CASE s = new /\ e.kind = "step"
      <4>1. CASE t \in Of(past, "step") /\ after[t] = past[t]
        BY <1>2, <2>1, <3>2, <4>1
      <4> QED
        BY <1>3, <2>2, <3>2, <4>1
    <3> QED
      BY <1>3, <3>1, <3>2
  <2> QED
    BY <2>2 DEF IssuedOnce
<1>5. VerdictsGrounded(after)
  <2>1. e.kind \in {"grant", "reject"} =>
          /\ e.cause \in Of(past, "step")
          /\ e.command \in past[e.cause].commands \cap NeedsAuthorization
          /\ \A g \in DOMAIN past : past[g].kind \in {"grant", "reject"} => past[g].command # e.command
    BY DEF Justifies
  <2>2. ASSUME NEW g \in DOMAIN after, after[g].kind \in {"grant", "reject"}
        PROVE  /\ after[g].cause \in 1..g - 1
               /\ after[after[g].cause].kind = "step"
               /\ after[g].command \in after[after[g].cause].commands \cap NeedsAuthorization
    <3>1. CASE g \in DOMAIN past
      <4>1. /\ past[g].cause \in 1..g - 1 /\ past[past[g].cause].kind = "step"
            /\ past[g].command \in past[past[g].cause].commands \cap NeedsAuthorization
        BY <1>2, <2>2, <3>1 DEF Grounded, VerdictsGrounded
      <4>2. past[g].cause \in DOMAIN past
        BY <1>2, <3>1, <4>1
      <4> QED
        BY <1>2, <3>1, <4>1, <4>2
    <3>2. CASE g = new
      <4>1. /\ e.cause \in DOMAIN past /\ past[e.cause].kind = "step"
            /\ e.command \in past[e.cause].commands \cap NeedsAuthorization
        BY <1>2, <2>1, <2>2, <3>2 DEF Of
      <4> QED
        BY <1>1, <1>2, <3>2, <4>1
    <3> QED
      BY <1>2, <3>1, <3>2
  <2>3. ASSUME NEW g \in DOMAIN after, NEW h \in DOMAIN after, after[g].kind \in {"grant", "reject"},
               after[h].kind \in {"grant", "reject"}, after[g].command = after[h].command
        PROVE  g = h
    <3>1. CASE g \in DOMAIN past /\ h \in DOMAIN past
      BY <1>2, <2>3, <3>1 DEF Grounded, VerdictsGrounded
    <3>2. CASE g = new
      BY <1>2, <2>1, <2>3, <3>2
    <3>3. CASE h = new
      BY <1>2, <2>1, <2>3, <3>3
    <3> QED
      BY <1>2, <3>1, <3>2, <3>3
  <2> QED
    BY <2>2, <2>3 DEF VerdictsGrounded
<1>6. AttemptsGrounded(after)
  <2>1. e.kind = "attempt" =>
          /\ e.number = 1 /\ e.cause \in DOMAIN past /\ EligibleBy(past, e.cause, e.command)
          /\ \A a \in Of(past, "attempt") : past[a].command # e.command
    BY DEF Justifies
  <2>2. ASSUME NEW a \in Of(after, "attempt")
        PROVE  /\ after[a].number = 1
               /\ after[a].cause \in 1..a - 1
               /\ EligibleBy(after, after[a].cause, after[a].command)
    <3>1. PICK x : x = after[a]
      OBVIOUS
    <3>2. x.number = 1 /\ x.cause \in 1..a - 1 /\ EligibleBy(past, x.cause, x.command)
      <4>1. CASE a \in Of(past, "attempt") /\ after[a] = past[a]
        BY <3>1, <4>1 DEF Grounded, AttemptsGrounded
      <4>2. CASE a = new /\ e.kind = "attempt"
        BY <1>1, <1>2, <2>1, <3>1, <4>2
      <4> QED
        BY <1>3, <4>1, <4>2
    <3>3. x.cause \in DOMAIN past
      BY <1>2, <2>2, <3>2 DEF Of
    <3>4. after[x.cause] = past[x.cause]
      BY <1>2, <3>3
    <3> QED
      BY <3>1, <3>2, <3>4 DEF EligibleBy
  <2>3. ASSUME NEW a \in Of(after, "attempt"), NEW b \in Of(after, "attempt"),
               after[a].command = after[b].command
        PROVE  a = b
    <3>1. CASE a = new /\ e.kind = "attempt"
      <4>1. CASE b \in Of(past, "attempt") /\ after[b] = past[b]
        BY <1>2, <2>1, <2>3, <3>1, <4>1
      <4> QED
        BY <1>3, <3>1, <4>1
    <3>2. CASE a \in Of(past, "attempt") /\ after[a] = past[a]
      <4>1. CASE b = new /\ e.kind = "attempt"
        BY <1>2, <2>1, <2>3, <3>2, <4>1
      <4>2. CASE b \in Of(past, "attempt") /\ after[b] = past[b]
        BY <2>3, <3>2, <4>2 DEF Grounded, AttemptsGrounded
      <4> QED
        BY <1>3, <4>1, <4>2
    <3> QED
      BY <1>3, <3>1, <3>2
  <2> QED
    BY <2>2, <2>3 DEF AttemptsGrounded
<1>7. OutcomesGrounded(after)
  <2>1. e.kind = "outcome" =>
          /\ e.attempt \in Of(past, "attempt") /\ past[e.attempt].command = e.command
          /\ \A o \in Of(past, "outcome") : past[o].attempt # e.attempt
    BY DEF Justifies
  <2>2. ASSUME NEW o \in Of(after, "outcome")
        PROVE  /\ after[o].attempt \in 1..o - 1
               /\ after[after[o].attempt].kind = "attempt"
               /\ after[after[o].attempt].command = after[o].command
    <3>1. PICK x : x = after[o]
      OBVIOUS
    <3>2. x.attempt \in 1..o - 1 /\ past[x.attempt].kind = "attempt" /\ past[x.attempt].command = x.command
      <4>1. CASE o \in Of(past, "outcome") /\ after[o] = past[o]
        BY <3>1, <4>1 DEF Grounded, OutcomesGrounded
      <4>2. CASE o = new /\ e.kind = "outcome"
        BY <1>1, <1>2, <2>1, <3>1, <4>2 DEF Of
      <4> QED
        BY <1>3, <4>1, <4>2
    <3>3. x.attempt \in DOMAIN past
      BY <1>2, <2>2, <3>2 DEF Of
    <3>4. after[x.attempt] = past[x.attempt]
      BY <1>2, <3>3
    <3> QED
      BY <3>1, <3>2, <3>4
  <2>3. ASSUME NEW o \in Of(after, "outcome"), NEW p \in Of(after, "outcome"),
               after[o].attempt = after[p].attempt
        PROVE  o = p
    <3>1. CASE o = new /\ e.kind = "outcome"
      <4>1. CASE p \in Of(past, "outcome") /\ after[p] = past[p]
        BY <1>2, <2>1, <2>3, <3>1, <4>1
      <4> QED
        BY <1>3, <3>1, <4>1
    <3>2. CASE o \in Of(past, "outcome") /\ after[o] = past[o]
      <4>1. CASE p = new /\ e.kind = "outcome"
        BY <1>2, <2>1, <2>3, <3>2, <4>1
      <4>2. CASE p \in Of(past, "outcome") /\ after[p] = past[p]
        BY <2>3, <3>2, <4>2 DEF Grounded, OutcomesGrounded
      <4> QED
        BY <1>3, <4>1, <4>2
    <3> QED
      BY <1>3, <3>1, <3>2
  <2> QED
    BY <2>2, <2>3 DEF OutcomesGrounded
<1> QED
  BY <1>4, <1>5, <1>6, <1>7 DEF Grounded

\* After n events of the log, t was next.
WasNext(past, n, t) ==
  /\ n \in 0..Len(past)
  /\ ~Projection(SubSeq(past, 1, n)).raised
  /\ Projection(SubSeq(past, 1, n)).next = t /\ t # None

\* It was next whatever is written after it.
LEMMA WasNextStays ==
  ASSUME NEW E, NEW past \in Seq(E), NEW e \in E, NEW n, NEW t, WasNext(past, n, t)
  PROVE  WasNext(Append(past, e), n, t)
<1>1. n \in 0..Len(past)
  BY DEF WasNext
<1>2. SubSeq(Append(past, e), 1, n) = SubSeq(past, 1, n) /\ n \in 0..Len(Append(past, e))
  BY <1>1
<1> QED
  BY <1>2 DEF WasNext

\* Where it was next, a beginning of the log says so.
LEMMA CutsBegin ==
  ASSUME NEW past, IsLog(past), NEW n, NEW t, WasNext(past, n, t)
  PROVE  \E cut : WasNextIn(cut, past, t)
<1>1. n \in 0..Len(past) /\ past \in Seq(Events) /\ Len(past) \in Nat /\ Len(past) <= MaxEvents
  BY DEF WasNext, IsLog
<1>2. PICK cut : cut = SubSeq(past, 1, n)
  OBVIOUS
<1>3. /\ cut \in Seq(Events) /\ Len(cut) = n /\ DOMAIN cut = 1..n
      /\ \A i \in 1..n : i \in DOMAIN past /\ cut[i] = past[i]
  BY <1>1, <1>2
<1>4. \A s \in Of(cut, "step") : ObservedBy(cut, s) \in Nat
  <2> SUFFICES ASSUME NEW s \in Of(cut, "step") PROVE ObservedBy(cut, s) \in Nat
    OBVIOUS
  <2>1. s \in Of(past, "step") /\ cut[s] = past[s]
    BY <1>3 DEF Of
  <2> QED
    BY <2>1 DEF IsLog, ObservedBy
<1>5. Len(cut) <= MaxEvents
  BY <1>1, <1>3, BoundAssumption
<1>6. IsLog(cut)
  BY <1>3, <1>4, <1>5 DEF IsLog
<1>7. Begins(cut, past)
  BY <1>1, <1>3 DEF Begins
<1> QED
  BY <1>2, <1>6, <1>7 DEF WasNext, WasNextIn

===============================================================================
