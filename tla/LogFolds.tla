------------------------------- MODULE LogFolds -------------------------------
(***************************************************************************)
(* What a left fold over the positions of a log computes, as a chain of    *)
(* views: the view after n events is one step from the view after n - 1.   *)
(* A module with a fold instantiates Step and Base with the fold's own     *)
(* step and start; p stands for whatever these depend on.                  *)
(***************************************************************************)
EXTENDS SequencesExt, WellFoundedInduction, TLAPS

CONSTANTS
  Base(_),      \* where the fold starts, given p
  Step(_, _, _) \* the view that event n leaves of a view, given p: Step(p, view, n)

\* The fold, as SequencesExt defines it.
Fold(p, log) ==
  LET Apply(view, n) == Step(p, view, n) IN FoldLeftDomain(Apply, Base(p), log)

\* The views after 0, 1, ..., length events.
Chain(p, length) ==
  CHOOSE views :
    views = [n \in 0..length |-> IF n = 0 THEN Base(p) ELSE Step(p, views[n - 1], n)]

-------------------------------------------------------------------------------
\* Induction, as a fact about sets: every inhabited set of numbers has a least
\* member.
LEMMA LeastNumber ==
  ASSUME NEW T \in SUBSET Nat, T # {}
  PROVE  \E n \in T : \A m \in T : n <= m
<1> DEFINE Less == {ss \in Nat \X Nat : ss[1] < ss[2]}
<1>1. IsWellFoundedOn(Less, Nat)
  BY NatLessThanWellFounded DEF OpToRel
<1> HIDE DEF Less
<1>2. PICK n \in T : \A m \in T : <<m, n>> \notin Less
  BY <1>1, WFMin
<1>3. \A m \in T : ~(m < n)
  BY <1>2 DEF Less
<1> QED
  BY <1>3

\* A set of numbers that has 0 and, up to a bound, the next of each, has all up to it.
LEMMA UpTo ==
  ASSUME NEW length \in Nat, NEW S, 0 \in S,
         \A n \in 0..length - 1 : n \in S => n + 1 \in S
  PROVE  0..length \subseteq S
<1> SUFFICES ASSUME ~(0..length \subseteq S) PROVE FALSE
  OBVIOUS
<1> DEFINE T == {n \in 0..length : n \notin S}
<1>1. T \in SUBSET Nat /\ T # {}
  OBVIOUS
<1>2. PICK n \in T : \A m \in T : n <= m
  BY <1>1, LeastNumber
<1>3. n # 0 /\ n - 1 \in 0..length - 1 /\ n - 1 \notin T
  BY <1>2
<1> QED
  BY <1>3

-------------------------------------------------------------------------------
\* A chain of every length exists.
LEMMA ChainDefined ==
  ASSUME NEW p, NEW length \in Nat
  PROVE  Chain(p, length) =
           [n \in 0..length |-> IF n = 0 THEN Base(p) ELSE Step(p, Chain(p, length)[n - 1], n)]
<1> DEFINE IsChain(views, m) ==
             views = [n \in 0..m |-> IF n = 0 THEN Base(p) ELSE Step(p, views[n - 1], n)]
           S == {m \in Nat : \E views : IsChain(views, m)}
<1>1. 0 \in S
  <2>1. IsChain([n \in 0..0 |-> Base(p)], 0)
    OBVIOUS
  <2> QED
    BY <2>1
<1>2. ASSUME NEW m \in 0..length - 1, m \in S
      PROVE  m + 1 \in S
  <2>1. PICK views : IsChain(views, m)
    BY <1>2
  <2> DEFINE longer == [n \in 0..m + 1 |-> IF n <= m THEN views[n] ELSE Step(p, views[m], n)]
  <2>2. \A n \in 0..m : longer[n] = views[n]
    OBVIOUS
  <2>3. \A n \in 0..m + 1 :
          longer[n] = IF n = 0 THEN Base(p) ELSE Step(p, longer[n - 1], n)
    <3> SUFFICES ASSUME NEW n \in 0..m + 1
                 PROVE  longer[n] = IF n = 0 THEN Base(p) ELSE Step(p, longer[n - 1], n)
      OBVIOUS
    <3>1. CASE n <= m
      <4>1. views[n] = IF n = 0 THEN Base(p) ELSE Step(p, views[n - 1], n)
        BY <2>1, <3>1
      <4>2. n # 0 => longer[n - 1] = views[n - 1]
        BY <2>2, <3>1
      <4> QED
        BY <2>2, <3>1, <4>1, <4>2
    <3>2. CASE n = m + 1
      BY <2>2, <3>2
    <3> QED
      BY <3>1, <3>2
  <2>4. IsChain(longer, m + 1)
    BY <2>3
  <2> HIDE DEF IsChain, longer
  <2>5. m + 1 \in Nat
    OBVIOUS
  <2> QED
    BY <2>4, <2>5
<1> HIDE DEF S
<1>3. length \in 0..length /\ 0..length \subseteq S
  BY <1>1, <1>2, UpTo
<1>4. \E views : IsChain(views, length)
  BY <1>3 DEF S
<1> QED
  BY <1>4 DEF Chain

\* The chain, view by view.
LEMMA ChainStep ==
  ASSUME NEW p, NEW length \in Nat
  PROVE  /\ Chain(p, length)[0] = Base(p)
         /\ \A n \in 1..length : Chain(p, length)[n] = Step(p, Chain(p, length)[n - 1], n)
BY ChainDefined

\* Two chains agree as far as their starts and steps do.
LEMMA ChainsAgree ==
  ASSUME NEW p, NEW q, NEW short \in Nat, NEW long \in Nat, short <= long,
         Base(p) = Base(q),
         \A view : \A n \in 1..short : Step(p, view, n) = Step(q, view, n)
  PROVE  \A n \in 0..short : Chain(p, short)[n] = Chain(q, long)[n]
<1> DEFINE S == {n \in 0..short : Chain(p, short)[n] = Chain(q, long)[n]}
<1>1. 0 \in S
  BY ChainStep
<1>2. ASSUME NEW n \in 0..short - 1, n \in S
      PROVE  n + 1 \in S
  <2>1. n + 1 \in 1..short /\ n + 1 \in 1..long /\ (n + 1) - 1 = n
    OBVIOUS
  <2>2. /\ Chain(p, short)[n + 1] = Step(p, Chain(p, short)[n], n + 1)
        /\ Chain(q, long)[n + 1] = Step(q, Chain(q, long)[n], n + 1)
    BY <2>1, ChainStep
  <2> QED
    BY <1>2, <2>1, <2>2
<1> HIDE DEF S
<1>3. 0..short \subseteq S
  BY <1>1, <1>2, UpTo
<1> QED
  BY <1>3 DEF S

-------------------------------------------------------------------------------
\* The fold is the last view of the chain.

\* The greatest of some of the positions up to a length.
LEMMA GreatestPosition ==
  ASSUME NEW length \in Nat, NEW s \in SUBSET (1..length), s # {}
  PROVE  Max(s) \in s /\ \A n \in s : n <= Max(s)
<1> DEFINE T == {n \in Nat : \A m \in s : m <= n}
<1>1. length \in T
  OBVIOUS
<1>2. PICK n \in T : \A m \in T : n <= m
  BY <1>1, LeastNumber
<1>3. n \in s
  <2> SUFFICES ASSUME n \notin s PROVE FALSE
    OBVIOUS
  <2>1. n # 0
    <3>1. PICK m \in s : TRUE
      OBVIOUS
    <3> QED
      BY <1>2, <3>1
  <2>2. n - 1 \in Nat /\ \A m \in s : m <= n - 1
    BY <1>2, <2>1
  <2> QED
    BY <1>2, <2>2
<1>4. \E x \in s : \A y \in s : x >= y
  BY <1>2, <1>3
<1> QED
  BY <1>4 DEF Max

\* The last index of a sequence is the greatest of any set of its indices that has it.
LEMMA LastIsGreatest ==
  ASSUME NEW length \in Nat, NEW s \in SUBSET (1..length), length \in s
  PROVE  Max(s) = length
<1>1. Max(s) \in s /\ length <= Max(s)
  BY GreatestPosition
<1>2. Max(s) \in 1..length
  BY <1>1
<1> QED
  BY <1>1, <1>2

\* The recursion of the fold goes over the sets of positions.
FoldsTo(f, p, length) ==
  f = [s \in SUBSET (1..length) |->
         IF s = {} THEN Base(p) ELSE Step(p, f[s \ {Max(s)}], Max(s))]

\* The recursive function that folds over the indices exists, which needs an induction: there is
\* no least length for which it does not.
LEMMA FoldDefined ==
  ASSUME NEW p, NEW length \in Nat
  PROVE  \E f : FoldsTo(f, p, length)
<1> DEFINE S == {m \in Nat : \E f : FoldsTo(f, p, m)}
<1>1. 0 \in S
  <2>1. SUBSET (1..0) = {{}}
    OBVIOUS
  <2>2. FoldsTo([s \in SUBSET (1..0) |-> Base(p)], p, 0)
    BY <2>1 DEF FoldsTo
  <2> QED
    BY <2>2
<1>2. ASSUME NEW m \in 0..length - 1, m \in S
      PROVE  m + 1 \in S
  <2>1. PICK f : FoldsTo(f, p, m)
    BY <1>2
  <2>0. m + 1 \in Nat
    OBVIOUS
  <2> DEFINE g == [s \in SUBSET (1..m + 1) |->
                     IF m + 1 \in s THEN Step(p, f[s \ {m + 1}], m + 1) ELSE f[s]]
  <2>2. ASSUME NEW s \in SUBSET (1..m + 1)
        PROVE  g[s] = IF s = {} THEN Base(p) ELSE Step(p, g[s \ {Max(s)}], Max(s))
    <3>1. CASE m + 1 \in s
      <4>1. Max(s) = m + 1
        BY <2>0, <3>1, LastIsGreatest
      <4>2. s \ {m + 1} \in SUBSET (1..m)
        OBVIOUS
      <4>3. g[s \ {m + 1}] = f[s \ {m + 1}]
        BY <4>2
      <4> QED
        BY <3>1, <4>1, <4>3
    <3>2. CASE m + 1 \notin s
      <4>1. s \in SUBSET (1..m)
        BY <3>2
      <4>2. f[s] = IF s = {} THEN Base(p) ELSE Step(p, f[s \ {Max(s)}], Max(s))
        BY <2>1, <4>1 DEF FoldsTo
      <4>3. s \ {Max(s)} \in SUBSET (1..m + 1) /\ m + 1 \notin s \ {Max(s)}
        BY <3>2
      <4>4. g[s \ {Max(s)}] = f[s \ {Max(s)}] /\ g[s] = f[s]
        BY <3>2, <4>3
      <4> QED
        BY <4>2, <4>4
    <3> QED
      BY <3>1, <3>2
  <2>3. FoldsTo(g, p, m + 1)
    BY <2>2 DEF FoldsTo
  <2> HIDE DEF g
  <2> QED
    BY <2>0, <2>3
<1> HIDE DEF S
<1>3. length \in 0..length /\ 0..length \subseteq S
  BY <1>1, <1>2, UpTo
<1> QED
  BY <1>3 DEF S

\* The fold of the community modules is the end of the chain of its intermediate values.
LEMMA FoldIsChain ==
  ASSUME NEW p, NEW E, NEW log \in Seq(E)
  PROVE  Fold(p, log) = Chain(p, Len(log))[Len(log)]
<1> DEFINE length == Len(log)
           IsFold(g) ==
             g = [s \in SUBSET (1..length) |->
                    IF s = {} THEN Base(p)
                    ELSE Step(p, g[s \ {Max(s)}], [n \in 1..length |-> n][Max(s)])]
           f == CHOOSE g : IsFold(g)
<1>1. length \in Nat /\ DOMAIN log = 1..length
  OBVIOUS
<1>2. Fold(p, log) = f[1..length]
  BY <1>1 DEF Fold, FoldLeftDomain, FoldLeft, MapThenFoldSet
<1>3. FoldsTo(f, p, length)
  <2> HIDE DEF length
  <2>1. ASSUME NEW g PROVE IsFold(g) <=> FoldsTo(g, p, length)
    <3>1. \A s \in SUBSET (1..length) : s # {} => [n \in 1..length |-> n][Max(s)] = Max(s)
      BY <1>1, GreatestPosition
    <3> QED
      BY <3>1 DEF FoldsTo
  <2> HIDE DEF IsFold
  <2>2. \E g : IsFold(g)
    BY <1>1, <2>1, FoldDefined
  <2> QED
    BY <2>1, <2>2
<1> HIDE DEF f, length
<1> DEFINE S == {n \in 0..length : f[1..n] = Chain(p, length)[n]}
<1>4. 0 \in S
  <2>1. 1..0 = {} /\ {} \in SUBSET (1..length)
    OBVIOUS
  <2>2. f[{}] = Base(p)
    BY <1>3, <2>1 DEF FoldsTo
  <2> QED
    BY <1>1, <2>1, <2>2, ChainStep
<1>5. ASSUME NEW n \in 0..length - 1, n \in S
      PROVE  n + 1 \in S
  <2>1. n + 1 \in Nat /\ 1..n + 1 \in SUBSET (1..length) /\ 1..n + 1 # {}
    BY <1>1
  <2>2. Max(1..n + 1) = n + 1
    BY <2>1, LastIsGreatest
  <2>3. (1..n + 1) \ {n + 1} = 1..n
    BY <2>1
  <2>4. f[1..n + 1] = Step(p, f[1..n], n + 1)
    BY <1>3, <2>1, <2>2, <2>3 DEF FoldsTo
  <2>5. n + 1 \in 1..length /\ (n + 1) - 1 = n
    BY <1>1
  <2>6. Chain(p, length)[n + 1] = Step(p, Chain(p, length)[n], n + 1)
    BY <1>1, <2>5, ChainStep
  <2> QED
    BY <1>5, <2>4, <2>5, <2>6
<1> HIDE DEF S
<1>6. length \in 0..length /\ 0..length \subseteq S
  BY <1>1, <1>4, <1>5, UpTo
<1> QED
  BY <1>2, <1>6 DEF S, length
===============================================================================
