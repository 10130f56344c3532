----------------------------- MODULE PlanningProofs -----------------------------
(***************************************************************************)
(* Readiness is what its comments define, and the plans made from it keep  *)
(* to it, for any number of issues, parents, blockers and dependencies,    *)
(* cyclic ones included.                                                   *)
(*                                                                         *)
(* The work queue of compute.  ComputeInv says what has been handed down   *)
(* to whom: the state of an issue is that of itself and of the open parents*)
(* that were handled.  An issue that is never handled has a cycle above it,*)
(* since a chain of such parents comes back to itself (WaitingIsLooped).   *)
(*                                                                         *)
(* The walk of ReadyAfter.  Its definition is recursive over calls; that   *)
(* there is a function with these values follows from the room that every  *)
(* call leaves (SolutionExists).  A memo holds true states only, because an*)
(* issue that is visited while it is being visited is in a cycle of        *)
(* parents, and so below one is everything that asked (SoundCall).         *)
(*                                                                         *)
(* The plans.  Union-find joins what is linked, so that an issue and all   *)
(* it depends on have one root, and what is done elsewhere makes no        *)
(* difference to it: tracks are independent.  A greedy pick is ready when  *)
(* its turn comes, because nothing that is done makes an issue less ready. *)
(*                                                                         *)
(* What is unblocked in the end.  The simulation with its queue stops only *)
(* when nothing can be done: a ready issue that is not done yet has a      *)
(* cause in the queue that will consider it (Awaited), or is below an issue*)
(* that is never queued because it is parked or no candidate (Hidden).     *)
(*                                                                         *)
(* Chains of blockers.  The search threads one visited set through its     *)
(* calls, so it reaches everything behind the issue once (SoundSearch),    *)
(* and depths are memoized; a memo holds true depths only, because whoever *)
(* is visited while being visited is in a cycle, and outside cycles less   *)
(* is behind a blocker than behind what it blocks (LessIsBehind,           *)
(* WalkExists).                                                            *)
(***************************************************************************)
EXTENDS Planning, TreeViewProofs

-----------------------------------------------------------------------------
(* The lineage of an issue *)

\* A row of the table names issues.
Tabled == \A i \in Id : issues[i].parents \subseteq Id /\ issues[i].blockers \subseteq Id

\* The lineage of an issue is the least set that holds the issue and the open parents of
\* its members, whatever is done.
LEMMA LineageIsClosed ==
    ASSUME Tabled, NEW D, NEW i \in Id
    PROVE  /\ Lineage(i, D) \subseteq Id /\ i \in Lineage(i, D)
           /\ \A k \in Lineage(i, D) : OpenParents(k, D) \subseteq Lineage(i, D)
           /\ OpenParents(i, D) \subseteq Id
           /\ \A S \in SUBSET Id :
                  i \in S /\ (\A k \in S : OpenParents(k, D) \subseteq S) => Lineage(i, D) \subseteq S
<1> DEFINE Holds(S) == i \in S /\ \A k \in S : OpenParents(k, D) \subseteq S
           line == Lineage(i, D)
<1>1. \A k \in Id : OpenParents(k, D) \subseteq Id
  BY DEF OpenParents, Tabled
<1>2. line = {j \in Id : \A S \in SUBSET Id : Holds(S) => j \in S}
  BY DEF Lineage
<1> HIDE DEF line
<1>3. \A k \in line : OpenParents(k, D) \subseteq line
  <2> SUFFICES ASSUME NEW k \in line, NEW p \in OpenParents(k, D) PROVE p \in line
    OBVIOUS
  <2>1. k \in Id /\ p \in Id
    BY <1>1, <1>2
  <2>2. ASSUME NEW S \in SUBSET Id, Holds(S) PROVE p \in S
    <3>1. k \in S
      BY <1>2, <2>2
    <3> QED
      BY <2>2, <3>1
  <2> HIDE DEF Holds
  <2> QED
    BY <1>2, <2>1, <2>2
<1>4. line \subseteq Id /\ i \in line /\ \A S \in SUBSET Id : Holds(S) => line \subseteq S
  BY <1>2
<1> QED
  BY <1>1, <1>3, <1>4 DEF line

\* An issue and the lineages of its open parents.
LEMMA LineageUnfolds ==
    ASSUME Tabled, NEW D, NEW i \in Id
    PROVE  Lineage(i, D) = {i} \cup UNION {Lineage(p, D) : p \in OpenParents(i, D)}
<1> DEFINE R == {i} \cup UNION {Lineage(p, D) : p \in OpenParents(i, D)}
<1>1. /\ OpenParents(i, D) \subseteq Id /\ i \in Lineage(i, D) /\ Lineage(i, D) \subseteq Id
      /\ \A k \in Lineage(i, D) : OpenParents(k, D) \subseteq Lineage(i, D)
  BY LineageIsClosed
<1>2. \A p \in OpenParents(i, D) : Lineage(p, D) \subseteq Lineage(i, D)
  <2> SUFFICES ASSUME NEW p \in OpenParents(i, D) PROVE Lineage(p, D) \subseteq Lineage(i, D)
    OBVIOUS
  <2>1. p \in Id /\ p \in Lineage(i, D)
    BY <1>1
  <2> QED
    BY <1>1, <2>1, LineageIsClosed
<1>3. \A p \in OpenParents(i, D) :
          /\ p \in Lineage(p, D) /\ Lineage(p, D) \subseteq Id
          /\ \A k \in Lineage(p, D) : OpenParents(k, D) \subseteq Lineage(p, D)
  BY <1>1, LineageIsClosed
<1>4. \A k \in R : OpenParents(k, D) \subseteq R
  <2> SUFFICES ASSUME NEW k \in R, NEW q \in OpenParents(k, D) PROVE q \in R
    OBVIOUS
  <2>1. CASE k = i
    BY <1>3, <2>1
  <2>2. CASE k # i
    <3>1. PICK p \in OpenParents(i, D) : k \in Lineage(p, D)
      BY <2>2
    <3>2. q \in Lineage(p, D)
      BY <1>3, <3>1
    <3> QED
      BY <3>1, <3>2
  <2> QED
    BY <2>1, <2>2
<1>5. R \subseteq Id /\ i \in R
  BY <1>3
<1>6. Lineage(i, D) \subseteq R
  <2> HIDE DEF R
  <2> QED
    BY <1>4, <1>5, LineageIsClosed
<1> QED
  BY <1>1, <1>2, <1>6

Ups(i) == OpenParents(i, {})
Line(i) == Lineage(i, {})
Looped(i) == InParentCycle(i, {})

\* What a set of issues that holds the open parents of its members is.
Closed(S) == \A k \in S : Ups(k) \subseteq S

\* The same of the issues as they are.
LEMMA LineIsClosed ==
    ASSUME Tabled, NEW i \in Id
    PROVE  /\ Line(i) \subseteq Id /\ i \in Line(i) /\ Closed(Line(i))
           /\ Ups(i) \subseteq Id
           /\ \A S \in SUBSET Id : i \in S /\ Closed(S) => Line(i) \subseteq S
BY LineageIsClosed DEF Line, Ups, Closed

\* The same of the issues as they are.
LEMMA LineUnfolds ==
    ASSUME Tabled, NEW i \in Id
    PROVE  Line(i) = {i} \cup UNION {Line(p) : p \in Ups(i)}
BY LineageUnfolds DEF Line, Ups

\* Whoever waits for an issue that waits has a cycle above it.
LEMMA WaitingIsLooped ==
    ASSUME Tabled, NEW U \in SUBSET Id, \A u \in U : \E p \in Ups(u) : p \in U, NEW i \in U
    PROVE  \E k \in Line(i) : Looped(k)
<1>0. IsFiniteSet(Id)
  BY FS_Interval, ReadinessAssumption DEF Id
<1>1. \A k \in Id : IsFiniteSet(Line(k)) /\ Cardinality(Line(k)) \in Nat
  BY <1>0, LineIsClosed, FS_Subset, FS_CardinalityType
<1> DEFINE W == Line(i) \cap U
           Sizes == {Cardinality(Line(k)) : k \in W}
<1>2. i \in W /\ Closed(Line(i))
  BY LineIsClosed
<1>3. Sizes \in SUBSET Nat /\ Sizes # {}
  BY <1>1, <1>2
<1>4. PICK m \in Sizes : \A n \in Sizes : m <= n
  <2> DEFINE R == {p \in Nat \X Nat : p[1] < p[2]}
  <2>1. IsWellFoundedOn(R, Nat)
    BY NatLessThanWellFounded DEF OpToRel
  <2>2. \A x, y \in Nat : x < y => <<x, y>> \in R
    OBVIOUS
  <2> HIDE DEF R, Sizes
  <2>3. PICK x \in Sizes : \A y \in Sizes : ~(<<y, x>> \in R)
    BY <1>3, <2>1, WFMin
  <2>4. \A y \in Sizes : x <= y
    <3> SUFFICES ASSUME NEW y \in Sizes PROVE x <= y
      OBVIOUS
    <3>1. x \in Nat /\ y \in Nat /\ ~(y < x)
      BY <1>3, <2>2, <2>3
    <3> QED
      BY <3>1
  <2> QED
    BY <2>4
<1>5. PICK k \in W : m = Cardinality(Line(k))
  OBVIOUS
<1>6. PICK p \in Ups(k) : p \in U
  OBVIOUS
<1>7. p \in W
  BY <1>2, <1>6 DEF Closed
<1>8. k \in Id /\ p \in Id
  BY <1>5, <1>6
<1>9. CASE k \in Line(p)
  BY <1>6, <1>9 DEF Looped, InParentCycle, Line, Ups
<1>10. CASE k \notin Line(p)
  <2>1. Line(p) \subseteq Line(k) /\ k \in Line(k)
    BY <1>6, <1>8, LineUnfolds
  <2>2. /\ Cardinality(Line(p)) <= Cardinality(Line(k))
        /\ Cardinality(Line(k)) = Cardinality(Line(p)) => Line(k) = Line(p)
    BY <1>1, <1>8, <2>1, FS_Subset
  <2>3. Cardinality(Line(k)) <= Cardinality(Line(p))
    BY <1>4, <1>5, <1>7
  <2> QED
    BY <1>1, <1>8, <1>10, <2>1, <2>2, <2>3
<1> QED
  BY <1>9, <1>10

-----------------------------------------------------------------------------
(* The state of an issue from those of its open parents *)

Val(missing, blocked) ==
    IF missing THEN Unknown ELSE IF blocked THEN Unsatisfied ELSE Satisfied

OwnMissing(i) == \E d \in issues[i].blockers \cup issues[i].parents : ~exists(d)
OwnBlocked(i) == \E b \in issues[i].blockers : isOpen(b)

Missing(i) == \E k \in Line(i) : Looped(k) \/ OwnMissing(k)
Blocked(i) == \E k \in Line(i) : OwnBlocked(k)

\* Without an ancestor to ask, an issue is undone when it is open.
LEMMA UndoneIsOpen == \A i : undone(i, {}) <=> isOpen(i)
BY DEF undone

\* The reference in these terms.
LEMMA TrueStateIs ==
    ASSUME NEW i \in Id
    PROVE  TrueState(i, {}) = IF ~exists(i) THEN Unknown
                              ELSE IF ~isOpen(i) THEN Satisfied ELSE Val(Missing(i), Blocked(i))
<1>1. (\E k \in Line(i) : InParentCycle(k, {})
                            \/ \E d \in issues[k].blockers \cup issues[k].parents : ~exists(d))
      <=> Missing(i)
  BY DEF Missing, Looped, OwnMissing
<1>2. (\E k \in Line(i) : \E b \in issues[k].blockers : undone(b, {})) <=> Blocked(i)
  BY UndoneIsOpen DEF Blocked, OwnBlocked
<1>3. undone(i, {}) <=> isOpen(i)
  BY UndoneIsOpen
<1> QED
  BY <1>1, <1>2, <1>3 DEF TrueState, Val, Line

\* What a lineage lacks is the issue's own or of an open parent's lineage.
LEMMA MissingUnfolds ==
    ASSUME Tabled, NEW i \in Id
    PROVE  /\ Missing(i) <=> Looped(i) \/ OwnMissing(i) \/ \E p \in Ups(i) : Missing(p)
           /\ Blocked(i) <=> OwnBlocked(i) \/ \E p \in Ups(i) : Blocked(p)
BY LineUnfolds DEF Missing, Blocked

\* What compute makes of the states handed down, of the blockers and of a missing parent.
LEMMA Combined ==
    ASSUME NEW a \in BOOLEAN, NEW b \in BOOLEAN, NEW c \in BOOLEAN, NEW d \in BOOLEAN
    PROVE  combineDependencyState(Val(a, b), Val(c, d)) = Val(a \/ c, b \/ d)
BY DEF combineDependencyState, Val, Unknown, Unsatisfied, Satisfied

-----------------------------------------------------------------------------
(* The work queue *)

\* The issues whose state has been handed down.
Handled == {i \in Id : isOpen(i) /\ pending[i] = 0 /\ i \notin queue}

MissingSoFar(i) == OwnMissing(i) \/ \E p \in Ups(i) \cap Handled : Missing(p)
BlockedSoFar(i) == OwnBlocked(i) \/ \E p \in Ups(i) \cap Handled : Blocked(p)

QueueInv ==
    /\ Tabled /\ states \in [Id -> DependencyStates] /\ pending \in [Id -> Nat] /\ queue \subseteq Id
    /\ computed \in BOOLEAN
    /\ \A i \in Id : ~isOpen(i) => pending[i] = 0 /\ states[i] = Satisfied
    /\ \A i \in queue : isOpen(i) /\ pending[i] = 0
    /\ \A i \in Id : isOpen(i) => pending[i] = Cardinality(Ups(i) \ Handled)
    /\ \A i \in Id : isOpen(i) /\ pending[i] = 0 => ~Looped(i)

StatesInv ==
    \A i \in Id : isOpen(i) =>
        states[i] = IF computed THEN Val(Missing(i), Blocked(i))
                    ELSE Val(MissingSoFar(i), BlockedSoFar(i))

ComputeInv == QueueInv /\ (computed => queue = {}) /\ StatesInv

\* Open parents are finitely many, and none is left where nothing is pending.
LEMMA PendingCounts ==
    ASSUME QueueInv, NEW i \in Id
    PROVE  /\ IsFiniteSet(Ups(i) \ Handled)
           /\ isOpen(i) => (pending[i] = 0 <=> Ups(i) \subseteq Handled)
<1>1. IsFiniteSet(Id)
  BY FS_Interval, ReadinessAssumption DEF Id
<1>2. Ups(i) \ Handled \in SUBSET Id
  BY LineIsClosed DEF QueueInv
<1>3. IsFiniteSet(Ups(i) \ Handled)
  BY <1>1, <1>2, FS_Subset
<1>4. Cardinality(Ups(i) \ Handled) = 0 <=> Ups(i) \ Handled = {}
  BY <1>3, FS_EmptySet
<1> QED
  BY <1>3, <1>4 DEF QueueInv

\* The table does not change, nor what is said of it alone.
LEMMA TableStays ==
    ASSUME issues' = issues
    PROVE  /\ \A i \in Id : /\ (isOpen(i)' <=> isOpen(i)) /\ Ups(i)' = Ups(i) /\ (Looped(i)' <=> Looped(i))
                           /\ (OwnMissing(i)' <=> OwnMissing(i)) /\ (OwnBlocked(i)' <=> OwnBlocked(i))
                           /\ (Missing(i)' <=> Missing(i)) /\ (Blocked(i)' <=> Blocked(i))
           /\ Tabled' <=> Tabled
<1>1. /\ \A i : (isOpen(i)' <=> isOpen(i)) /\ (exists(i)' <=> exists(i)) /\ Ups(i)' = Ups(i) /\ Line(i)' = Line(i)
      /\ Tabled' <=> Tabled
  BY DEF isOpen, exists, closed, Ups, OpenParents, undone, Line, Lineage, Tabled
<1>2. \A i : Looped(i)' <=> Looped(i)
  BY DEF Looped, InParentCycle, OpenParents, undone, isOpen, exists, closed, Lineage
<1>3. \A i : (OwnMissing(i)' <=> OwnMissing(i)) /\ (OwnBlocked(i)' <=> OwnBlocked(i))
  BY DEF OwnMissing, OwnBlocked, exists, isOpen, closed
<1>4. \A i : (Missing(i)' <=> Missing(i)) /\ (Blocked(i)' <=> Blocked(i))
  BY <1>1, <1>2, <1>3 DEF Missing, Blocked
<1> QED
  BY <1>1, <1>2, <1>3, <1>4

\* An issue out of the queue joins those whose state has been handed down.
LEMMA HandedDown ==
    ASSUME QueueInv, NEW i \in Id, HandDown(i)
    PROVE  /\ \A c \in Id : c \in openChildren(i) <=> isOpen(c) /\ i \in Ups(c)
           /\ i \notin openChildren(i) /\ Ups(i) \subseteq Handled
           /\ \A c \in openChildren(i) : pending[c] \in Nat \ {0} /\ c \notin Handled
           /\ Handled' = Handled \cup {i}
<1>1. i \in queue /\ isOpen(i) /\ pending[i] = 0 /\ i \notin Handled
  BY DEF HandDown, QueueInv, Handled
<1>2. \A c \in Id : c \in openChildren(i) <=> isOpen(c) /\ i \in Ups(c)
  BY <1>1 DEF openChildren, Ups, OpenParents, undone
<1>3. Ups(i) \subseteq Handled
  BY <1>1, PendingCounts
<1>4. i \notin openChildren(i)
  BY <1>1, <1>2, <1>3
<1>5. \A c \in openChildren(i) : pending[c] \in Nat \ {0} /\ c \notin Handled
  <2> SUFFICES ASSUME NEW c \in openChildren(i) PROVE pending[c] \in Nat \ {0} /\ c \notin Handled
    OBVIOUS
  <2>1. c \in Id /\ isOpen(c) /\ i \in Ups(c)
    BY <1>2 DEF openChildren
  <2>2. pending[c] # 0 /\ pending[c] \in Nat
    BY <1>1, <2>1, PendingCounts DEF QueueInv
  <2> QED
    BY <2>2 DEF Handled
<1>6. ASSUME NEW c \in Id PROVE c \in Handled' <=> c \in Handled \cup {i}
  <2>1. /\ pending'[c] = IF c \in openChildren(i) THEN pending[c] - 1 ELSE pending[c]
        /\ queue' = (queue \ {i}) \cup {d \in openChildren(i) : pending[d] = 1}
        /\ isOpen(c)' <=> isOpen(c)
    BY <1>6, TableStays DEF HandDown
  <2>2. c \in Handled' <=> isOpen(c) /\ pending'[c] = 0 /\ c \notin queue'
    BY <1>6, <2>1 DEF Handled
  <2>3. CASE c \in openChildren(i)
    <3>1. pending'[c] = 0 => c \in queue'
      BY <1>5, <2>1, <2>3
    <3> QED
      BY <1>4, <1>5, <2>2, <2>3, <3>1
  <2>4. CASE c = i
    BY <1>1, <1>4, <2>1, <2>2, <2>4
  <2>5. CASE c # i /\ c \notin openChildren(i)
    <3>1. pending'[c] = pending[c] /\ (c \in queue' <=> c \in queue)
      BY <2>1, <2>5
    <3> QED
      BY <1>6, <2>2, <2>5, <3>1 DEF Handled
  <2> QED
    BY <2>3, <2>4, <2>5
<1>7. Handled' \subseteq Id /\ Handled \subseteq Id
  BY DEF Handled
<1> QED
  BY <1>2, <1>3, <1>4, <1>5, <1>6, <1>7

\* The queue after it.
LEMMA HandDownQueue ==
    ASSUME QueueInv, NEW i \in Id, HandDown(i)
    PROVE  QueueInv'
<1>1. /\ \A c \in Id : c \in openChildren(i) <=> isOpen(c) /\ i \in Ups(c)
      /\ i \notin openChildren(i) /\ Ups(i) \subseteq Handled
      /\ \A c \in openChildren(i) : pending[c] \in Nat \ {0} /\ c \notin Handled
      /\ Handled' = Handled \cup {i}
  BY HandedDown
<1>2. /\ states' = [c \in Id |-> IF c \in openChildren(i)
                               THEN combineDependencyState(states[c], states[i]) ELSE states[c]]
      /\ pending' = [c \in Id |-> IF c \in openChildren(i) THEN pending[c] - 1 ELSE pending[c]]
      /\ queue' = (queue \ {i}) \cup {c \in openChildren(i) : pending[c] = 1}
      /\ computed' = computed /\ issues' = issues /\ i \in queue
  BY DEF HandDown
<1>3. /\ \A c \in Id : (isOpen(c)' <=> isOpen(c)) /\ Ups(c)' = Ups(c) /\ (Looped(c)' <=> Looped(c))
      /\ Tabled'
  BY <1>2, TableStays DEF QueueInv
<1>4. openChildren(i) \subseteq Id /\ isOpen(i) /\ pending[i] = 0 /\ i \notin Handled
  BY <1>2 DEF openChildren, QueueInv, Handled
<1>5. states' \in [Id -> DependencyStates]
  <2>1. states \in [Id -> DependencyStates]
    BY DEF QueueInv
  <2>2. \A a, b : combineDependencyState(a, b) \in DependencyStates
    BY DEF combineDependencyState, DependencyStates
  <2> QED
    BY <1>2, <2>1, <2>2
<1>6. pending' \in [Id -> Nat] /\ queue' \subseteq Id /\ computed' \in BOOLEAN
  <2>1. pending \in [Id -> Nat] /\ queue \subseteq Id /\ computed \in BOOLEAN
    BY DEF QueueInv
  <2>2. \A c \in openChildren(i) : pending[c] - 1 \in Nat
    BY <1>1
  <2> QED
    BY <1>2, <1>4, <2>1, <2>2
<1>7. \A c \in Id : ~isOpen(c) => pending'[c] = 0 /\ states'[c] = Satisfied
  BY <1>1, <1>2 DEF QueueInv
<1>8. \A c \in queue' : isOpen(c) /\ pending'[c] = 0
  <2> SUFFICES ASSUME NEW c \in queue' PROVE isOpen(c) /\ pending'[c] = 0
    OBVIOUS
  <2>1. c \in Id
    BY <1>6
  <2>2. CASE c \in openChildren(i)
    <3>1. c \notin queue
      BY <1>1, <2>2 DEF QueueInv
    <3>2. pending[c] = 1
      BY <1>2, <3>1
    <3> QED
      BY <1>1, <1>2, <2>1, <2>2, <3>2
  <2>3. CASE c \notin openChildren(i)
    <3>1. c \in queue
      BY <1>2, <2>3
    <3> QED
      BY <1>2, <2>1, <2>3, <3>1 DEF QueueInv
  <2> QED
    BY <2>2, <2>3
<1>9. \A c \in Id : isOpen(c) => pending'[c] = Cardinality(Ups(c) \ Handled')
  <2> SUFFICES ASSUME NEW c \in Id, isOpen(c) PROVE pending'[c] = Cardinality(Ups(c) \ Handled')
    OBVIOUS
  <2>1. pending[c] = Cardinality(Ups(c) \ Handled) /\ IsFiniteSet(Ups(c) \ Handled)
    BY PendingCounts DEF QueueInv
  <2>2. Ups(c) \ Handled' = (Ups(c) \ Handled) \ {i}
    BY <1>1
  <2>3. Cardinality((Ups(c) \ Handled) \ {i}) =
          IF i \in Ups(c) \ Handled THEN Cardinality(Ups(c) \ Handled) - 1 ELSE Cardinality(Ups(c) \ Handled)
    BY <2>1, FS_RemoveElement
  <2>4. c \in openChildren(i) <=> i \in Ups(c) \ Handled
    BY <1>1, <1>4
  <2> QED
    BY <1>2, <2>1, <2>2, <2>3, <2>4
<1>10. \A c \in Id : isOpen(c) /\ pending'[c] = 0 => ~Looped(c)
  <2> SUFFICES ASSUME NEW c \in Id, isOpen(c), pending'[c] = 0 PROVE ~Looped(c)
    OBVIOUS
  <2>1. CASE c \in openChildren(i)
    <3>1. c \notin Handled' /\ Handled' \subseteq Id
      BY <1>1, <2>1 DEF Handled
    <3>2. Closed(Handled')
      <4> SUFFICES ASSUME NEW k \in Handled' PROVE Ups(k) \subseteq Handled'
        BY DEF Closed
      <4>1. CASE k = i
        BY <1>1, <4>1
      <4>2. CASE k \in Handled
        <5>1. Ups(k) \subseteq Handled
          BY <4>2, PendingCounts DEF Handled
        <5> QED
          BY <1>1, <5>1
      <4> QED
        BY <1>1, <4>1, <4>2
    <3>3. pending'[c] = Cardinality(Ups(c) \ Handled')
      BY <1>9
    <3>4. IsFiniteSet(Ups(c) \ Handled')
      <4>1. Ups(c) \ Handled' = (Ups(c) \ Handled) \ {i}
        BY <1>1
      <4> QED
        BY <4>1, PendingCounts, FS_RemoveElement
    <3>5. Ups(c) \subseteq Handled'
      BY <3>3, <3>4, FS_EmptySet
    <3>6. \A p \in Ups(c) : Line(p) \subseteq Handled'
      <4> SUFFICES ASSUME NEW p \in Ups(c) PROVE Line(p) \subseteq Handled'
        OBVIOUS
      <4>1. p \in Id /\ p \in Handled'
        BY <3>1, <3>5
      <4> QED
        BY <3>1, <3>2, <4>1, LineIsClosed DEF QueueInv
    <3> QED
      BY <3>1, <3>6 DEF Looped, InParentCycle, Ups, Line
  <2>2. CASE c \notin openChildren(i)
    BY <1>2, <2>2 DEF QueueInv
  <2> QED
    BY <2>1, <2>2
<1> QED
  BY <1>3, <1>5, <1>6, <1>7, <1>8, <1>9, <1>10 DEF QueueInv

\* The states after it.
LEMMA HandDownStates ==
    ASSUME ComputeInv, NEW i \in Id, HandDown(i)
    PROVE  StatesInv'
<1>0. QueueInv /\ StatesInv
  BY DEF ComputeInv
<1>1. /\ \A c \in Id : c \in openChildren(i) <=> isOpen(c) /\ i \in Ups(c)
      /\ Ups(i) \subseteq Handled /\ Handled' = Handled \cup {i}
  BY <1>0, HandedDown
<1>2. /\ i \in queue /\ ~computed /\ ~computed' /\ issues' = issues
      /\ \A c \in Id : states'[c] = IF c \in openChildren(i)
                               THEN combineDependencyState(states[c], states[i]) ELSE states[c]
  BY DEF HandDown, ComputeInv
<1>3. isOpen(i) /\ ~Looped(i)
  BY <1>0, <1>2 DEF QueueInv
<1>4. \A c \in Id : /\ (isOpen(c)' <=> isOpen(c)) /\ Ups(c)' = Ups(c)
                   /\ (OwnMissing(c)' <=> OwnMissing(c)) /\ (OwnBlocked(c)' <=> OwnBlocked(c))
                   /\ (Missing(c)' <=> Missing(c)) /\ (Blocked(c)' <=> Blocked(c))
  BY <1>2, TableStays
<1>5. \A c \in Id : isOpen(c) => states[c] = Val(MissingSoFar(c), BlockedSoFar(c))
  BY <1>0, <1>2 DEF StatesInv
<1>6. (MissingSoFar(i) <=> Missing(i)) /\ (BlockedSoFar(i) <=> Blocked(i))
  <2>1. Ups(i) \cap Handled = Ups(i)
    BY <1>1
  <2> QED
    BY <1>0, <1>3, <2>1, MissingUnfolds DEF MissingSoFar, BlockedSoFar, QueueInv
<1>7. states[i] = Val(Missing(i), Blocked(i))
  BY <1>3, <1>5, <1>6 DEF Val
<1>8. ASSUME NEW c \in Id, isOpen(c) PROVE states'[c] = Val(MissingSoFar(c)', BlockedSoFar(c)')
  <2>0. Ups(c) \subseteq Id
    BY <1>0, LineIsClosed DEF QueueInv
  <2>1. CASE c \in openChildren(i)
    <3>1. i \in Ups(c)
      BY <1>1, <1>8, <2>1
    <3>2. (MissingSoFar(c)' <=> MissingSoFar(c) \/ Missing(i))
      BY <1>1, <1>4, <1>8, <2>0, <3>1 DEF MissingSoFar
    <3>3. (BlockedSoFar(c)' <=> BlockedSoFar(c) \/ Blocked(i))
      BY <1>1, <1>4, <1>8, <2>0, <3>1 DEF BlockedSoFar
    <3>4. states'[c] = combineDependencyState(Val(MissingSoFar(c), BlockedSoFar(c)), Val(Missing(i), Blocked(i)))
      BY <1>2, <1>5, <1>7, <1>8, <2>1
    <3>5. /\ MissingSoFar(c) \in BOOLEAN /\ BlockedSoFar(c) \in BOOLEAN
          /\ Missing(i) \in BOOLEAN /\ Blocked(i) \in BOOLEAN
      BY DEF MissingSoFar, BlockedSoFar, Missing, Blocked
    <3>6. states'[c] = Val(MissingSoFar(c) \/ Missing(i), BlockedSoFar(c) \/ Blocked(i))
      BY <3>4, <3>5, Combined
    <3> QED
      BY <3>2, <3>3, <3>6 DEF Val
  <2>2. CASE c \notin openChildren(i)
    <3>1. i \notin Ups(c)
      BY <1>1, <1>8, <2>2
    <3>2. (MissingSoFar(c)' <=> MissingSoFar(c)) /\ (BlockedSoFar(c)' <=> BlockedSoFar(c))
      BY <1>1, <1>4, <1>8, <2>0, <3>1 DEF MissingSoFar, BlockedSoFar
    <3>3. states'[c] = Val(MissingSoFar(c), BlockedSoFar(c))
      BY <1>2, <1>5, <1>8, <2>2
    <3> QED
      BY <3>2, <3>3 DEF Val
  <2> QED
    BY <2>1, <2>2
<1> QED
  BY <1>2, <1>4, <1>8 DEF StatesInv

\* What still waits when the queue is empty is unknown, by a cycle above it.
LEMMA FinishInv ==
    ASSUME ComputeInv, Finish
    PROVE  ComputeInv'
<1>0. QueueInv /\ StatesInv /\ ~computed /\ queue = {}
  BY DEF ComputeInv, Finish
<1>1. /\ computed' = TRUE /\ queue' = queue /\ issues' = issues /\ pending' = pending
      /\ states' = [i \in Id |-> IF pending[i] > 0 THEN Unknown ELSE states[i]]
  BY DEF Finish
<1>2. /\ \A i \in Id : (isOpen(i)' <=> isOpen(i)) /\ Ups(i)' = Ups(i) /\ (Looped(i)' <=> Looped(i))
                       /\ (Missing(i)' <=> Missing(i)) /\ (Blocked(i)' <=> Blocked(i))
      /\ Tabled' <=> Tabled
  BY <1>1, TableStays
<1>3. Handled' = Handled
  BY <1>1, <1>2 DEF Handled
<1>4. states' \in [Id -> DependencyStates] /\ \A i \in Id : ~isOpen(i) => states'[i] = Satisfied
  <2>1. states \in [Id -> DependencyStates] /\ Unknown \in DependencyStates
    BY <1>0 DEF QueueInv, DependencyStates
  <2>2. \A i \in Id : ~isOpen(i) => pending[i] = 0 /\ states[i] = Satisfied
    BY <1>0 DEF QueueInv
  <2> QED
    BY <1>1, <2>1, <2>2
<1>5. QueueInv'
  BY <1>0, <1>1, <1>2, <1>3, <1>4 DEF QueueInv
<1>6. \A i \in Id : isOpen(i) => states[i] = Val(MissingSoFar(i), BlockedSoFar(i))
  BY <1>0 DEF StatesInv
<1>7. ASSUME NEW i \in Id, isOpen(i), pending[i] = 0
      PROVE  states'[i] = Val(Missing(i), Blocked(i))
  <2>1. Ups(i) \subseteq Handled /\ ~Looped(i)
    BY <1>0, <1>7, PendingCounts DEF QueueInv
  <2>2. Ups(i) \cap Handled = Ups(i)
    BY <2>1
  <2>3. (MissingSoFar(i) <=> Missing(i)) /\ (BlockedSoFar(i) <=> Blocked(i))
    BY <1>0, <2>1, <2>2, MissingUnfolds DEF MissingSoFar, BlockedSoFar, QueueInv
  <2>4. states'[i] = Val(MissingSoFar(i), BlockedSoFar(i))
    BY <1>1, <1>6, <1>7
  <2> QED
    BY <2>3, <2>4 DEF Val
<1>8. ASSUME NEW i \in Id, isOpen(i), pending[i] # 0
      PROVE  states'[i] = Val(Missing(i), Blocked(i))
  <2> DEFINE U == {u \in Id : isOpen(u) /\ pending[u] # 0}
  <2>1. \A u \in U : \E p \in Ups(u) : p \in U
    <3> SUFFICES ASSUME NEW u \in U PROVE \E p \in Ups(u) : p \in U
      OBVIOUS
    <3>1. PICK p \in Ups(u) : p \notin Handled
      BY <1>0, PendingCounts
    <3>2. p \in Id /\ isOpen(p)
      BY <1>0, <3>1, LineIsClosed DEF QueueInv, Ups, OpenParents, undone
    <3>3. p \in U
      BY <1>0, <3>1, <3>2 DEF Handled
    <3> QED
      BY <3>1, <3>3
  <2>2. i \in U /\ U \in SUBSET Id
    BY <1>8
  <2> HIDE DEF U
  <2>3. \E k \in Line(i) : Looped(k)
    BY <1>0, <2>1, <2>2, WaitingIsLooped DEF QueueInv
  <2>4. Missing(i)
    BY <2>3 DEF Missing
  <2>5. pending[i] > 0
    BY <1>0, <1>8 DEF QueueInv
  <2> QED
    BY <1>1, <1>8, <2>4, <2>5 DEF Val
<1>9. \A i \in Id : isOpen(i)' => states'[i] = Val(Missing(i)', Blocked(i)')
  BY <1>2, <1>7, <1>8 DEF Val
<1> QED
  BY <1>0, <1>1, <1>5, <1>9 DEF ComputeInv, StatesInv

\* The tables name issues; at first nothing has been handed down.
LEMMA ComputeInit ==
    ASSUME ReadinessInit
    PROVE  ComputeInv
<1>1. issues \in [Id -> Row]
  BY DEF ReadinessInit, Tables
<1>2. Tabled
  BY <1>1 DEF Tabled, Row, Named
<1>3. Handled = {} /\ ~computed
  BY DEF ReadinessInit, Handled
<1>4. \A i \in Id : pending[i] = IF ~isOpen(i) THEN 0 ELSE Cardinality(Ups(i))
  BY UndoneIsOpen DEF ReadinessInit, Ups, OpenParents
<1>5. ASSUME NEW i \in Id PROVE IsFiniteSet(Ups(i)) /\ Cardinality(Ups(i)) \in Nat
  <2>1. Ups(i) \in SUBSET Id /\ IsFiniteSet(Id)
    BY <1>2, LineIsClosed, FS_Interval, ReadinessAssumption DEF Id
  <2> QED
    BY <2>1, FS_Subset, FS_CardinalityType
<1>6. /\ pending \in [Id -> Nat] /\ queue \subseteq Id
      /\ \A i \in queue : isOpen(i) /\ pending[i] = 0
      /\ pending = [i \in Id |-> pending[i]]
  <2>1. pending = [i \in Id |-> pending[i]]
    BY DEF ReadinessInit
  <2> QED
    BY <1>4, <1>5, <2>1 DEF ReadinessInit
<1>7. \A i \in Id : states[i] = OwnState(i)
  BY DEF ReadinessInit
<1>8. states \in [Id -> DependencyStates]
  <2>1. states = [i \in Id |-> OwnState(i)]
    BY DEF ReadinessInit
  <2>2. \A i \in Id : OwnState(i) \in DependencyStates
    BY DEF OwnState, DependencyStates
  <2> QED
    BY <2>1, <2>2
<1>9. \A i \in Id : ~isOpen(i) => pending[i] = 0 /\ states[i] = Satisfied
  BY <1>4, <1>7 DEF OwnState
<1>10. \A i \in Id : isOpen(i) => pending[i] = Cardinality(Ups(i) \ Handled)
  <2>1. \A i \in Id : Ups(i) \ Handled = Ups(i)
    BY <1>3
  <2> QED
    BY <1>4, <2>1
<1>11. \A i \in Id : isOpen(i) /\ pending[i] = 0 => ~Looped(i)
  <2> SUFFICES ASSUME NEW i \in Id, isOpen(i), pending[i] = 0 PROVE ~Looped(i)
    OBVIOUS
  <2>1. Ups(i) = {}
    BY <1>4, <1>5, FS_EmptySet
  <2> QED
    BY <2>1 DEF Looped, InParentCycle, Ups
<1>12. \A i \in Id : isOpen(i) => states[i] = Val(MissingSoFar(i), BlockedSoFar(i))
  <2> SUFFICES ASSUME NEW i \in Id, isOpen(i) PROVE states[i] = Val(MissingSoFar(i), BlockedSoFar(i))
    OBVIOUS
  <2>1. (MissingSoFar(i) <=> OwnMissing(i)) /\ (BlockedSoFar(i) <=> OwnBlocked(i))
    BY <1>3 DEF MissingSoFar, BlockedSoFar
  <2>2. OwnState(i) = Val(OwnMissing(i), OwnBlocked(i))
    BY DEF OwnState, Val, OwnMissing, OwnBlocked
  <2> QED
    BY <1>7, <2>1, <2>2 DEF Val
<1>13. computed = FALSE
  BY DEF ReadinessInit
<1> QED
  BY <1>2, <1>6, <1>8, <1>9, <1>10, <1>11, <1>12, <1>13 DEF ComputeInv, QueueInv, StatesInv

\* One step of compute keeps the invariant.
LEMMA ComputeStep == ComputeInv /\ [ReadinessNext]_readyVars => ComputeInv'
<1> SUFFICES ASSUME ComputeInv, [ReadinessNext]_readyVars PROVE ComputeInv'
  OBVIOUS
<1>1. CASE UNCHANGED readyVars
  <2>1. issues' = issues /\ states' = states /\ pending' = pending /\ queue' = queue /\ computed' = computed
    BY <1>1 DEF readyVars
  <2>2. \A i \in Id : /\ (isOpen(i)' <=> isOpen(i)) /\ Ups(i)' = Ups(i) /\ (Looped(i)' <=> Looped(i))
                     /\ (OwnMissing(i)' <=> OwnMissing(i)) /\ (OwnBlocked(i)' <=> OwnBlocked(i))
                     /\ (Missing(i)' <=> Missing(i)) /\ (Blocked(i)' <=> Blocked(i))
    BY <2>1, TableStays
  <2>3. Tabled' <=> Tabled
    BY <2>1, TableStays
  <2>4. Handled' = Handled
    BY <2>1, <2>2 DEF Handled
  <2>5. QueueInv'
    BY <2>1, <2>2, <2>3, <2>4 DEF ComputeInv, QueueInv
  <2>6. \A i \in Id : Ups(i) \subseteq Id
    BY LineIsClosed DEF ComputeInv, QueueInv
  <2>7. \A i \in Id : (MissingSoFar(i)' <=> MissingSoFar(i)) /\ (BlockedSoFar(i)' <=> BlockedSoFar(i))
    BY <2>2, <2>4, <2>6 DEF MissingSoFar, BlockedSoFar
  <2>8. StatesInv'
    BY <2>1, <2>2, <2>7 DEF ComputeInv, StatesInv, Val
  <2> QED
    BY <2>1, <2>5, <2>8 DEF ComputeInv
<1>2. CASE Finish
  BY <1>2, FinishInv
<1>3. ASSUME NEW i \in Id, HandDown(i) PROVE ComputeInv'
  <2>1. QueueInv' /\ StatesInv'
    BY <1>3, HandDownQueue, HandDownStates DEF ComputeInv
  <2>2. ~computed'
    BY <1>3 DEF HandDown, ComputeInv
  <2> QED
    BY <2>1, <2>2 DEF ComputeInv
<1> QED
  BY <1>1, <1>2, <1>3 DEF ReadinessNext

\* The inductive invariant of compute holds in every reachable state.
THEOREM ComputeInvariant == ReadinessSpec => []ComputeInv
<1>1. ReadinessInit => ComputeInv
  BY ComputeInit
<1> QED
  BY <1>1, ComputeStep, PTL DEF ReadinessSpec

\* What compute has left is the reference.
LEMMA ComputedIsTrue ==
    ASSUME ComputeInv
    PROVE  ComputeIsExact
<1> SUFFICES ASSUME computed, NEW i \in Id
             PROVE  /\ DependencyState(i) = TrueState(i, {})
                    /\ isOpen(i) => (DependencyState(i) = Satisfied <=> Blockers(i) = {})
  BY DEF ComputeIsExact
<1>1. QueueInv /\ Tabled
  BY DEF ComputeInv, QueueInv
<1>2. \A k \in Id : isOpen(k) => states[k] = Val(Missing(k), Blocked(k))
  BY DEF ComputeInv, StatesInv
<1>3. \A k \in Id : DependencyState(k) = TrueState(k, {})
  <2> SUFFICES ASSUME NEW k \in Id PROVE DependencyState(k) = TrueState(k, {})
    OBVIOUS
  <2>1. ~isOpen(k) => states[k] = Satisfied
    BY <1>1 DEF QueueInv
  <2>2. isOpen(k) => exists(k)
    BY DEF isOpen
  <2> QED
    BY <1>2, <2>1, <2>2, TrueStateIs DEF DependencyState
<1>4. ASSUME isOpen(i) PROVE DependencyState(i) = Satisfied <=> Blockers(i) = {}
  <2>1. DependencyState(i) = Satisfied <=> ~Missing(i) /\ ~Blocked(i)
    BY <1>2, <1>3, <1>4 DEF DependencyState, isOpen, Val, Satisfied, Unknown, Unsatisfied
  <2>2. \A p \in issues[i].parents : p \in Id
    BY <1>1 DEF Tabled
  <2>3. \A p \in Id : DependencyState(p) = Satisfied <=>
              exists(p) /\ (isOpen(p) => ~Missing(p) /\ ~Blocked(p))
    BY <1>3, TrueStateIs DEF Val, Satisfied, Unknown, Unsatisfied
  <2>4. \A p : p \in Ups(i) <=> p \in issues[i].parents /\ isOpen(p)
    BY DEF Ups, OpenParents, undone
  <2>5. \A p : isOpen(p) <=> exists(p) /\ ~closed(p)
    BY DEF isOpen
  <2>6. \A p : closed(p) => exists(p)
    BY DEF closed, exists
  <2>7. Blockers(i) = {} <=> /\ \A b \in issues[i].blockers : closed(b)
                             /\ \A p \in issues[i].parents : DependencyState(p) = Satisfied
    BY <1>4 DEF Blockers
  <2>8. (\A b \in issues[i].blockers : closed(b)) <=>
            /\ ~OwnBlocked(i) /\ \A b \in issues[i].blockers : exists(b)
    BY <2>5, <2>6 DEF OwnBlocked
  <2>9. (\A p \in issues[i].parents : DependencyState(p) = Satisfied) <=>
            /\ \A p \in issues[i].parents : exists(p)
            /\ \A p \in Ups(i) : ~Missing(p) /\ ~Blocked(p)
    BY <2>2, <2>3, <2>4
  <2>10. Blockers(i) = {} <=> /\ ~OwnBlocked(i) /\ ~OwnMissing(i)
                              /\ \A p \in Ups(i) : ~Missing(p) /\ ~Blocked(p)
    BY <2>7, <2>8, <2>9 DEF OwnMissing
  <2>11. Looped(i) => \E p \in Ups(i) : Missing(p)
    <3> SUFFICES ASSUME Looped(i) PROVE \E p \in Ups(i) : Missing(p)
      OBVIOUS
    <3>1. PICK p \in Ups(i) : i \in Line(p)
      BY DEF Looped, InParentCycle, Ups, Line
    <3> QED
      BY <3>1 DEF Missing
  <2>12. /\ Missing(i) <=> Looped(i) \/ OwnMissing(i) \/ \E p \in Ups(i) : Missing(p)
         /\ Blocked(i) <=> OwnBlocked(i) \/ \E p \in Ups(i) : Blocked(p)
    BY <1>1, MissingUnfolds
  <2> QED
    BY <2>1, <2>10, <2>11, <2>12
<1> QED
  BY <1>3, <1>4

\* When compute is done, every issue is ready, blocked or in a cycle exactly when the
\* definition over the whole table says so, for any number of issues, parents, blockers and
\* dependencies, cyclic ones included (ReadinessIndex.compute).
THEOREM ComputeIsExactHolds == ReadinessSpec => []ComputeIsExact
<1>1. ComputeInv => ComputeIsExact
  BY ComputedIsTrue
<1> QED
  BY <1>1, ComputeInvariant, PTL

-----------------------------------------------------------------------------
(* The walk of ReadyAfter *)

Lacks(i, D) == \E k \in Lineage(i, D) : InParentCycle(k, D) \/ OwnMissing(k)
Waits(i, D) == \E k \in Lineage(i, D) : \E b \in issues[k].blockers : undone(b, D)

\* The reference, and what an open issue takes over from its open parents.
LEMMA StateUnfolds ==
    ASSUME Tabled, NEW D, NEW i \in Id, undone(i, D)
    PROVE  /\ TrueState(i, D) = Val(Lacks(i, D), Waits(i, D))
           /\ InParentCycle(i, D) => Lacks(i, D)
           /\ Lacks(i, D) <=> OwnMissing(i) \/ \E p \in OpenParents(i, D) : Lacks(p, D)
           /\ Waits(i, D) <=> \/ \E b \in issues[i].blockers : undone(b, D)
                              \/ \E p \in OpenParents(i, D) : Waits(p, D)
<1>1. (\E k \in Lineage(i, D) : InParentCycle(k, D)
                            \/ \E d \in issues[k].blockers \cup issues[k].parents : ~exists(d))
      <=> Lacks(i, D)
  BY DEF Lacks, OwnMissing
<1>2. exists(i)
  BY DEF undone, isOpen
<1>3. TrueState(i, D) = Val(Lacks(i, D), Waits(i, D))
  BY <1>1, <1>2 DEF TrueState, Val, Waits
<1>4. i \in Lineage(i, D) /\ OpenParents(i, D) \subseteq Id
  BY LineageIsClosed
<1>5. InParentCycle(i, D) => Lacks(i, D)
  BY <1>4 DEF Lacks
<1>6. Lacks(i, D) <=> InParentCycle(i, D) \/ OwnMissing(i) \/ \E p \in OpenParents(i, D) : Lacks(p, D)
  BY LineageUnfolds DEF Lacks
<1>7. InParentCycle(i, D) => \E p \in OpenParents(i, D) : Lacks(p, D)
  <2> SUFFICES ASSUME NEW p \in OpenParents(i, D), i \in Lineage(p, D), InParentCycle(i, D) PROVE Lacks(p, D)
    BY DEF InParentCycle
  <2> QED
    BY DEF Lacks
<1>8. Waits(i, D) <=> \/ \E b \in issues[i].blockers : undone(b, D)
                      \/ \E p \in OpenParents(i, D) : Waits(p, D)
  BY LineageUnfolds DEF Waits
<1> QED
  BY <1>3, <1>5, <1>6, <1>7, <1>8

Memo == [Id -> DependencyStates \cup {NotSeen}]
Result == [state : DependencyStates, memo : Memo]

\* The call for the parent n, from the call c.
upCall(n, c, memo) == call(n, c.visiting \cup {c.issue}, memo)

\* v has results for the parents of c.
VisitsParents(v, c) == \A n \in Id, memo \in Memo : v[upCall(n, c, memo)] \in Result

\* The state and the memo after the parent n.
AfterParent(v, c, n, before) ==
    LET r == v[upCall(n, c, before.memo)]
    IN  IF n \notin issues[c.issue].parents THEN before
        ELSE visited(combineDependencyState(before.state, r.state), r.memo)

\* The states of readiness are closed under what is done with them.
LEMMA StatesCombine ==
    /\ \A a, b \in DependencyStates : combineDependencyState(a, b) \in DependencyStates
    /\ \A D, i : blockerState(i, D) \in DependencyStates
    /\ Unknown \in DependencyStates /\ Satisfied \in DependencyStates
    /\ NotSeen \notin DependencyStates
BY DEF combineDependencyState, blockerState, DependencyStates, Unknown, Unsatisfied, Satisfied, NotSeen

\* The parents are visited one after the other.
LEMMA ParentsAre ==
    ASSUME NEW D, NEW v, NEW c \in Call, VisitsParents(v, c)
    PROVE  LET up == visitParents(v, c, D)
           IN  /\ up \in [0 .. MaxId -> Result]
               /\ up[0] = visited(blockerState(c.issue, D), c.memo)
               /\ \A n \in 1 .. MaxId : up[n] = AfterParent(v, c, n, up[n - 1])
<1> DEFINE first == visited(blockerState(c.issue, D), c.memo)
           G == [x \in (1 .. MaxId) \X Result |-> AfterParent(v, c, x[1], x[2])]
           Body(up, n) ==
               IF n = 0 THEN first
               ELSE LET before == up[n - 1]
                        r == v[call(n, c.visiting \cup {c.issue}, before.memo)]
                    IN  IF n \notin issues[c.issue].parents THEN before
                        ELSE visited(combineDependencyState(before.state, r.state), r.memo)
           Is(up) == up = [n \in 0 .. MaxId |-> Body(up, n)]
<1>0. MaxId \in Nat /\ Id = 1 .. MaxId
  BY ReadinessAssumption DEF Id
<1>1. first \in Result
  BY StatesCombine DEF visited, Result, Memo, Call
<1>2. \A n \in 1 .. MaxId, b \in Result : AfterParent(v, c, n, b) \in Result
  <2> SUFFICES ASSUME NEW n \in 1 .. MaxId, NEW b \in Result PROVE AfterParent(v, c, n, b) \in Result
    OBVIOUS
  <2>1. v[upCall(n, c, b.memo)] \in Result
    BY <1>0 DEF VisitsParents, Result
  <2> QED
    BY <2>1, StatesCombine DEF AfterParent, Result, visited
<1>3. G \in [(1 .. MaxId) \X Result -> Result]
  BY <1>2
<1>4. \A n \in 1 .. MaxId, b \in Result : G[<<n, b>>] = AfterParent(v, c, n, b)
  OBVIOUS
<1> HIDE DEF G, first
<1>5. PICK f : Unfolds(f, MaxId, Result, first, G)
  BY <1>0, <1>1, <1>3, Recursion
<1>6. Is(f)
  <2>1. f \in [0 .. MaxId -> Result] /\ f[0] = first /\ \A n \in 1 .. MaxId : f[n] = G[<<n, f[n - 1]>>]
    BY <1>5 DEF Unfolds
  <2>2. \A n \in 1 .. MaxId : f[n - 1] \in Result /\ f[n] = AfterParent(v, c, n, f[n - 1])
    <3> SUFFICES ASSUME NEW n \in 1 .. MaxId
                 PROVE  f[n - 1] \in Result /\ f[n] = AfterParent(v, c, n, f[n - 1])
      OBVIOUS
    <3>1. n - 1 \in 0 .. MaxId
      BY <1>0
    <3> QED
      BY <1>4, <2>1, <3>1
  <2>3. \A n \in 0 .. MaxId : f[n] = Body(f, n)
    <3> SUFFICES ASSUME NEW n \in 0 .. MaxId PROVE f[n] = Body(f, n)
      OBVIOUS
    <3>1. CASE n = 0
      BY <2>1, <3>1
    <3>2. CASE n # 0
      <4>1. n \in 1 .. MaxId
        BY <1>0, <3>2
      <4> QED
        BY <2>2, <3>2, <4>1 DEF AfterParent, upCall
    <3> QED
      BY <3>1, <3>2
  <2> HIDE DEF Body
  <2> QED
    BY <2>1, <2>3
<1> DEFINE up == visitParents(v, c, D)
<1>7. up = CHOOSE u : Is(u)
  BY DEF visitParents, first
<1>8. Is(up)
  <2> HIDE DEF Is, up
  <2> QED
    BY <1>6, <1>7
<1> HIDE DEF up
<1>9. up[0] = first /\ \A n \in 1 .. MaxId : up[n] = AfterParent(v, c, n, up[n - 1])
  <2>1. \A n \in 0 .. MaxId : up[n] = Body(up, n)
    BY <1>8
  <2>2. up[0] = first
    BY <1>0, <2>1
  <2>3. ASSUME NEW n \in 1 .. MaxId PROVE up[n] = AfterParent(v, c, n, up[n - 1])
    <3>1. n \in 0 .. MaxId /\ n # 0
      BY <1>0
    <3> QED
      BY <2>1, <3>1 DEF AfterParent, upCall
  <2> QED
    BY <2>2, <2>3
<1>10. \A n \in 0 .. MaxId : up[n] \in Result
  <2> DEFINE Bad == {n \in 0 .. MaxId : up[n] \notin Result}
  <2> SUFFICES ASSUME Bad # {} PROVE FALSE
    OBVIOUS
  <2>1. Bad \in SUBSET Nat
    BY <1>0
  <2>2. PICK n \in Bad : \A m \in Bad : n <= m
    BY <2>1, LeastOf
  <2>3. n # 0
    BY <1>1, <1>9
  <2>4. n \in 1 .. MaxId /\ n - 1 \in 0 .. MaxId /\ ~(n <= n - 1)
    BY <1>0, <2>3
  <2>5. up[n - 1] \in Result
    BY <2>2, <2>4
  <2> QED
    BY <1>2, <1>9, <2>4, <2>5
<1>11. up = [n \in 0 .. MaxId |-> Body(up, n)]
  BY <1>8
<1>12. up \in [0 .. MaxId -> Result]
  <2> HIDE DEF Body
  <2> QED
    BY <1>10, <1>11
<1> QED
  BY <1>9, <1>12 DEF up, first

\* What v and w make of the parents is the same if they agree on them.
LEMMA ParentsAgree ==
    ASSUME NEW D, NEW v, NEW w, NEW c \in Call, VisitsParents(v, c),
           \A n \in Id, memo \in Memo : v[upCall(n, c, memo)] = w[upCall(n, c, memo)]
    PROVE  visitParents(v, c, D)[MaxId] = visitParents(w, c, D)[MaxId]
<1> DEFINE up == visitParents(v, c, D)
           wp == visitParents(w, c, D)
           Bad == {n \in 0 .. MaxId : up[n] # wp[n]}
<1>0. MaxId \in Nat /\ Id = 1 .. MaxId
  BY ReadinessAssumption DEF Id
<1>1. VisitsParents(w, c)
  BY DEF VisitsParents
<1>2. /\ up \in [0 .. MaxId -> Result]
      /\ up[0] = visited(blockerState(c.issue, D), c.memo)
      /\ \A n \in 1 .. MaxId : up[n] = AfterParent(v, c, n, up[n - 1])
  BY ParentsAre
<1>3. /\ wp[0] = visited(blockerState(c.issue, D), c.memo)
      /\ \A n \in 1 .. MaxId : wp[n] = AfterParent(w, c, n, wp[n - 1])
  BY <1>1, ParentsAre
<1> HIDE DEF up, wp
<1>4. SUFFICES ASSUME Bad # {} PROVE FALSE
  <2>1. MaxId \in 0 .. MaxId
    BY <1>0
  <2> QED
    BY <1>4, <2>1 DEF up, wp
<1>5. Bad \in SUBSET Nat
  BY <1>0
<1>6. PICK n \in Bad : \A m \in Bad : n <= m
  BY <1>4, <1>5, LeastOf
<1>7. n # 0
  BY <1>2, <1>3
<1>8. n \in 1 .. MaxId /\ n - 1 \in 0 .. MaxId /\ ~(n <= n - 1)
  BY <1>0, <1>7
<1>9. up[n - 1] = wp[n - 1] /\ up[n - 1] \in Result
  BY <1>2, <1>6, <1>8
<1>10. AfterParent(v, c, n, up[n - 1]) = AfterParent(w, c, n, wp[n - 1])
  <2>1. up[n - 1].memo \in Memo /\ n \in Id
    BY <1>0, <1>8, <1>9 DEF Result
  <2> QED
    BY <1>9, <2>1 DEF AfterParent
<1> QED
  BY <1>2, <1>3, <1>6, <1>8, <1>10

\* visit returns a state and the memo.
LEMMA OneIsTyped ==
    ASSUME NEW D, NEW v, NEW c \in Call, c.issue \notin c.visiting => VisitsParents(v, c)
    PROVE  visitOne(v, c, D) \in Result
<1>1. c.issue \in Id /\ c.memo \in Memo
  BY DEF Call, Memo
<1>2. \A s \in DependencyStates, m \in Memo : visited(s, m) \in Result
  BY DEF visited, Result
<1>3. CASE ~exists(c.issue) \/ c.issue \in c.visiting
  BY <1>1, <1>2, <1>3, StatesCombine DEF visitOne, stateOfLoop
<1>4. CASE /\ ~(~exists(c.issue) \/ c.issue \in c.visiting)
           /\ c.issue \in D \/ closed(c.issue) \/ c.memo[c.issue] # NotSeen
  <2>1. c.memo[c.issue] # NotSeen => c.memo[c.issue] \in DependencyStates
    BY <1>1 DEF Memo
  <2> QED
    BY <1>1, <1>2, <1>4, <2>1, StatesCombine DEF visitOne
<1>5. CASE /\ ~(~exists(c.issue) \/ c.issue \in c.visiting)
           /\ ~(c.issue \in D \/ closed(c.issue) \/ c.memo[c.issue] # NotSeen)
  <2> DEFINE last == visitParents(v, c, D)[MaxId]
  <2>1. MaxId \in 0 .. MaxId
    BY ReadinessAssumption
  <2>2. last \in Result
    <3>1. VisitsParents(v, c)
      BY <1>5
    <3>2. visitParents(v, c, D) \in [0 .. MaxId -> Result]
      BY <3>1, ParentsAre
    <3> QED
      BY <2>1, <3>2
  <2>3. visitOne(v, c, D) = visited(last.state, [last.memo EXCEPT ![c.issue] = last.state])
    BY <1>5 DEF visitOne
  <2> HIDE DEF last
  <2>4. last.state \in DependencyStates /\ [last.memo EXCEPT ![c.issue] = last.state] \in Memo
    BY <2>2 DEF Result, Memo
  <2> QED
    BY <1>2, <2>3, <2>4
<1> QED
  BY <1>3, <1>4, <1>5

\* visit does the same with v and w if they agree on the parents.
LEMMA OneAgrees ==
    ASSUME NEW D, NEW v, NEW w, NEW c \in Call,
           c.issue \notin c.visiting =>
               /\ VisitsParents(v, c)
               /\ \A n \in Id, memo \in Memo : v[upCall(n, c, memo)] = w[upCall(n, c, memo)]
    PROVE  visitOne(v, c, D) = visitOne(w, c, D)
<1>1. CASE c.issue \in c.visiting
  BY <1>1 DEF visitOne
<1>2. CASE c.issue \notin c.visiting
  <2>1. visitParents(v, c, D)[MaxId] = visitParents(w, c, D)[MaxId]
    BY <1>2, ParentsAgree
  <2> QED
    BY <2>1 DEF visitOne
<1> QED
  BY <1>1, <1>2

\* How deep visit can go from a call.
Room(c) == MaxId + 1 - Cardinality(c.visiting)

\* A call for a parent has less room.
LEMMA RoomShrinks ==
    ASSUME NEW c \in Call
    PROVE  /\ Room(c) \in 1 .. MaxId + 1
           /\ \A n \in Id, memo \in Memo :
                 /\ upCall(n, c, memo) \in Call
                 /\ c.issue \notin c.visiting => Room(upCall(n, c, memo)) = Room(c) - 1
<1>1. MaxId \in Nat /\ IsFiniteSet(Id) /\ Cardinality(Id) = MaxId
  BY ReadinessAssumption, FS_Interval DEF Id
<1>2. c.visiting \in SUBSET Id /\ c.issue \in Id
  BY DEF Call
<1>3. IsFiniteSet(c.visiting) /\ Cardinality(c.visiting) <= MaxId /\ Cardinality(c.visiting) \in Nat
  BY <1>1, <1>2, FS_Subset, FS_CardinalityType
<1>4. ASSUME NEW n \in Id, NEW memo \in Memo
      PROVE  /\ upCall(n, c, memo) \in Call
             /\ c.issue \notin c.visiting => Room(upCall(n, c, memo)) = Room(c) - 1
  <2>1. upCall(n, c, memo) = [issue |-> n, visiting |-> c.visiting \cup {c.issue}, memo |-> memo]
    BY DEF upCall, call
  <2>2. c.visiting \cup {c.issue} \in SUBSET Id
    BY <1>2
  <2>3. upCall(n, c, memo) \in Call
    BY <2>1, <2>2 DEF Call, Memo
  <2>4. c.issue \notin c.visiting => Cardinality(c.visiting \cup {c.issue}) = Cardinality(c.visiting) + 1
    BY <1>3, FS_AddElement
  <2>5. upCall(n, c, memo).visiting = c.visiting \cup {c.issue}
    BY <2>1
  <2> QED
    BY <1>1, <1>3, <2>3, <2>4, <2>5 DEF Room
<1> QED
  BY <1>1, <1>3, <1>4 DEF Room

\* What visit is defined to be.
Solves(v, D) == v = [c \in Call |-> visitOne(v, c, D)]

\* Every solution returns a state and a memo.
LEMMA SolutionIsTyped ==
    ASSUME NEW D, NEW v, Solves(v, D)
    PROVE  v \in [Call -> Result]
<1> DEFINE Bad == {n \in Nat : \E c \in Call : Room(c) = n /\ v[c] \notin Result}
<1>1. \A c \in Call : v[c] = visitOne(v, c, D)
  BY DEF Solves
<1>2. Bad = {}
  <2> SUFFICES ASSUME Bad # {} PROVE FALSE
    OBVIOUS
  <2>1. Bad \in SUBSET Nat
    OBVIOUS
  <2>2. PICK n \in Bad : \A m \in Bad : n <= m
    BY <2>1, LeastOf
  <2>3. PICK c \in Call : Room(c) = n /\ v[c] \notin Result
    OBVIOUS
  <2>4. ASSUME c.issue \notin c.visiting PROVE VisitsParents(v, c)
    <3> SUFFICES ASSUME NEW p \in Id, NEW memo \in Memo, v[upCall(p, c, memo)] \notin Result PROVE FALSE
      BY DEF VisitsParents
    <3>1. /\ upCall(p, c, memo) \in Call /\ Room(upCall(p, c, memo)) = n - 1
          /\ n \in 1 .. MaxId + 1 /\ Room(upCall(p, c, memo)) \in 1 .. MaxId + 1
      BY <2>3, <2>4, RoomShrinks
    <3>2. MaxId \in Nat
      BY ReadinessAssumption
    <3>3. n - 1 \in Nat /\ ~(n <= n - 1)
      BY <3>1, <3>2
    <3>4. n - 1 \in Bad
      BY <3>1, <3>3
    <3> QED
      BY <2>2, <3>3, <3>4
  <2> QED
    BY <1>1, <2>3, <2>4, OneIsTyped
<1>3. \A c \in Call : v[c] \in Result
  <2> SUFFICES ASSUME NEW c \in Call, v[c] \notin Result PROVE FALSE
    OBVIOUS
  <2>1. Room(c) \in Nat
    BY RoomShrinks, ReadinessAssumption
  <2> QED
    BY <1>2, <2>1
<1>4. v = [c \in Call |-> v[c]]
  <2>1. \A c \in Call : v[c] = visitOne(v, c, D)
    BY DEF Solves
  <2> QED
    BY <2>1 DEF Solves
<1> QED
  BY <1>3, <1>4

\* There is a solution: the calls with least room first.
LEMMA SolutionExists ==
    ASSUME NEW D
    PROVE  \E v : Solves(v, D)
<1> DEFINE A == [Call -> Result]
           a == [c \in Call |-> visited(Unknown, c.memo)]
           G == [x \in (1 .. MaxId + 1) \X A |-> [c \in Call |-> visitOne(x[2], c, D)]]
<1>0. MaxId \in Nat /\ MaxId + 1 \in Nat
  BY ReadinessAssumption
<1>1. a \in A
  BY StatesCombine DEF visited, Result, Memo, Call
<1>2. \A w \in A : \A c \in Call : VisitsParents(w, c)
  BY RoomShrinks DEF VisitsParents
<1>3. \A w \in A : [c \in Call |-> visitOne(w, c, D)] \in A
  BY <1>2, OneIsTyped
<1>4. G \in [(1 .. MaxId + 1) \X A -> A]
  BY <1>3
<1>5. \A n \in 1 .. MaxId + 1, w \in A : G[<<n, w>>] = [c \in Call |-> visitOne(w, c, D)]
  OBVIOUS
<1> HIDE DEF G, a
<1>6. PICK f : Unfolds(f, MaxId + 1, A, a, G)
  BY <1>0, <1>1, <1>4, Recursion
<1>7. /\ f \in [0 .. MaxId + 1 -> A]
      /\ \A n \in 1 .. MaxId + 1 : f[n] = G[<<n, f[n - 1]>>]
  BY <1>6 DEF Unfolds
<1> DEFINE v == [c \in Call |-> f[Room(c)][c]]
<1>8. \A c \in Call : v[c] \in Result
  <2> SUFFICES ASSUME NEW c \in Call PROVE v[c] \in Result
    OBVIOUS
  <2>1. Room(c) \in 0 .. MaxId + 1
    BY <1>0, RoomShrinks
  <2> QED
    BY <1>7, <2>1
<1>9. ASSUME NEW c \in Call PROVE v[c] = visitOne(v, c, D)
  <2> DEFINE n == Room(c)
  <2>1. n \in 1 .. MaxId + 1 /\ n \in 0 .. MaxId + 1 /\ n - 1 \in 0 .. MaxId + 1
    BY <1>0, RoomShrinks
  <2> HIDE DEF n
  <2>2. f[n - 1] \in A /\ f[n] = [d \in Call |-> visitOne(f[n - 1], d, D)]
    BY <1>5, <1>7, <2>1
  <2>3. v[c] = visitOne(f[n - 1], c, D)
    BY <2>2 DEF n
  <2>4. ASSUME c.issue \notin c.visiting, NEW p \in Id, NEW memo \in Memo
        PROVE  f[n - 1][upCall(p, c, memo)] = v[upCall(p, c, memo)]
    BY <2>4, RoomShrinks DEF n
  <2>5. VisitsParents(f[n - 1], c)
    BY <1>2, <2>2
  <2> HIDE DEF v
  <2>6. visitOne(f[n - 1], c, D) = visitOne(v, c, D)
    BY <2>4, <2>5, OneAgrees
  <2> QED
    BY <2>3, <2>6
<1>10. v = [c \in Call |-> visitOne(v, c, D)]
  <2>1. v = [c \in Call |-> v[c]]
    OBVIOUS
  <2> HIDE DEF v
  <2> QED
    BY <1>9, <2>1
<1> QED
  BY <1>10 DEF Solves

\* The state of any issue, open or not.
LEMMA StateIs ==
    ASSUME Tabled, NEW D, NEW i \in Id
    PROVE  /\ TrueState(i, D) = Val(~exists(i) \/ (undone(i, D) /\ Lacks(i, D)),
                                    undone(i, D) /\ Waits(i, D))
           /\ TrueState(i, D) \in DependencyStates
           /\ blockerState(i, D) = Val(\E b \in issues[i].blockers : ~exists(b),
                                       \E b \in issues[i].blockers : undone(b, D))
<1>1. undone(i, D) => exists(i)
  BY DEF undone, isOpen
<1>2. CASE undone(i, D)
  <2>1. TrueState(i, D) = Val(Lacks(i, D), Waits(i, D))
    BY <1>2, StateUnfolds
  <2> QED
    BY <1>1, <1>2, <2>1 DEF Val, DependencyStates, blockerState, undone
<1>3. CASE ~undone(i, D)
  BY <1>3 DEF TrueState, Val, DependencyStates, blockerState, undone
<1> QED
  BY <1>2, <1>3

\* What a memo may hold, and who may be visited already, when visit is called.
SoundMemo(m, D) == m \in Memo /\ \A j \in Id : m[j] \in {NotSeen, TrueState(j, D)}

SoundCall(c, D) ==
    /\ SoundMemo(c.memo, D)
    /\ \A k \in c.visiting :
          /\ undone(k, D)
          /\ undone(c.issue, D) => \E p \in OpenParents(k, D) : c.issue \in Lineage(p, D)

\* What visit promises.
Exact(r, i, D) == r.state = TrueState(i, D) /\ SoundMemo(r.memo, D)

\* What the blockers and the parents up to n lack, and what they wait for.
LacksTo(i, n, D) ==
    \/ \E b \in issues[i].blockers : ~exists(b)
    \/ \E p \in issues[i].parents : p <= n /\ (~exists(p) \/ (undone(p, D) /\ Lacks(p, D)))
WaitsTo(i, n, D) ==
    \/ \E b \in issues[i].blockers : undone(b, D)
    \/ \E p \in issues[i].parents : p <= n /\ undone(p, D) /\ Waits(p, D)

\* The parents of an open issue, one after the other, add up to its state.
LEMMA ParentsAddUp ==
    ASSUME Tabled, NEW D, NEW v, NEW c \in Call, SoundMemo(c.memo, D), undone(c.issue, D),
           VisitsParents(v, c),
           \A p \in issues[c.issue].parents, memo \in Memo :
               SoundMemo(memo, D) => Exact(v[upCall(p, c, memo)], p, D)
    PROVE  Exact(visitParents(v, c, D)[MaxId], c.issue, D)
<1> DEFINE i == c.issue
           up == visitParents(v, c, D)
           Right(n) == up[n].state = Val(LacksTo(i, n, D), WaitsTo(i, n, D)) /\ SoundMemo(up[n].memo, D)
           Bad == {n \in 0 .. MaxId : ~Right(n)}
<1>0. MaxId \in Nat /\ Id = 1 .. MaxId /\ i \in Id
  BY ReadinessAssumption DEF Id, Call
<1>1. issues[i].parents \subseteq 1 .. MaxId
  BY <1>0 DEF Tabled
<1>2. /\ up \in [0 .. MaxId -> Result]
      /\ up[0] = visited(blockerState(i, D), c.memo)
      /\ \A n \in 1 .. MaxId : up[n] = AfterParent(v, c, n, up[n - 1])
  BY ParentsAre
<1> HIDE DEF up, i
<1>3. Right(0)
  <2>1. \A p \in issues[i].parents : ~(p <= 0)
    BY <1>0, <1>1
  <2>2. LacksTo(i, 0, D) <=> \E b \in issues[i].blockers : ~exists(b)
    BY <2>1 DEF LacksTo
  <2>3. WaitsTo(i, 0, D) <=> \E b \in issues[i].blockers : undone(b, D)
    BY <2>1 DEF WaitsTo
  <2>4. up[0].state = blockerState(i, D) /\ up[0].memo = c.memo
    BY <1>2 DEF visited
  <2>5. blockerState(i, D) = Val(\E b \in issues[i].blockers : ~exists(b),
                                 \E b \in issues[i].blockers : undone(b, D))
    BY <1>0, StateIs
  <2> QED
    BY <2>2, <2>3, <2>4, <2>5 DEF Val
<1>4. ASSUME NEW n \in 1 .. MaxId, Right(n - 1) PROVE Right(n)
  <2>1. n - 1 \in 0 .. MaxId /\ n \in Id
    BY <1>0
  <2>2. up[n - 1] \in Result /\ up[n] = AfterParent(v, c, n, up[n - 1])
    BY <1>2, <2>1
  <2>3. \A p \in issues[i].parents : p <= n <=> p <= n - 1 \/ p = n
    BY <1>0, <1>1
  <2>4. CASE n \notin issues[i].parents
    <3>1. LacksTo(i, n, D) <=> LacksTo(i, n - 1, D)
      BY <2>3, <2>4 DEF LacksTo
    <3>2. WaitsTo(i, n, D) <=> WaitsTo(i, n - 1, D)
      BY <2>3, <2>4 DEF WaitsTo
    <3>3. up[n] = up[n - 1]
      BY <2>2, <2>4 DEF AfterParent, i
    <3> QED
      BY <1>4, <3>1, <3>2, <3>3 DEF Val
  <2>5. CASE n \in issues[i].parents
    <3> DEFINE r == v[upCall(n, c, up[n - 1].memo)]
               l == ~exists(n) \/ (undone(n, D) /\ Lacks(n, D))
               w == undone(n, D) /\ Waits(n, D)
    <3>1. up[n - 1].memo \in Memo /\ SoundMemo(up[n - 1].memo, D)
      BY <1>4, <2>2 DEF Result
    <3>2. Exact(r, n, D)
      BY <2>5, <3>1 DEF i
    <3> HIDE DEF r
    <3>3. up[n].state = combineDependencyState(up[n - 1].state, r.state) /\ up[n].memo = r.memo
      BY <2>2, <2>5 DEF AfterParent, visited, r, i
    <3>4. r.state = Val(l, w)
      BY <2>1, <3>2, StateIs DEF Exact
    <3>5. LacksTo(i, n, D) <=> LacksTo(i, n - 1, D) \/ l
      BY <2>3, <2>5 DEF LacksTo
    <3>6. WaitsTo(i, n, D) <=> WaitsTo(i, n - 1, D) \/ w
      BY <2>3, <2>5 DEF WaitsTo
    <3>7. up[n - 1].state = Val(LacksTo(i, n - 1, D), WaitsTo(i, n - 1, D))
      BY <1>4
    <3> HIDE DEF l, w
    <3>8. combineDependencyState(up[n - 1].state, r.state) = Val(LacksTo(i, n, D), WaitsTo(i, n, D))
      BY <3>4, <3>5, <3>6, <3>7 DEF combineDependencyState, Val, Unknown, Unsatisfied, Satisfied
    <3> QED
      BY <3>2, <3>3, <3>8 DEF Exact
  <2> QED
    BY <2>4, <2>5
<1>5. Bad = {}
  <2> SUFFICES ASSUME Bad # {} PROVE FALSE
    OBVIOUS
  <2>1. Bad \in SUBSET Nat
    BY <1>0
  <2>2. PICK n \in Bad : \A m \in Bad : n <= m
    BY <2>1, LeastOf
  <2>3. n # 0 /\ n \in 0 .. MaxId /\ ~Right(n)
    BY <1>3
  <2>4. n \in 1 .. MaxId /\ n - 1 \in 0 .. MaxId /\ ~(n <= n - 1)
    BY <1>0, <2>3
  <2> HIDE DEF Right
  <2>5. Right(n - 1)
    BY <2>2, <2>4
  <2> QED
    BY <1>4, <2>3, <2>4, <2>5
<1>6. Right(MaxId)
  <2>1. MaxId \in 0 .. MaxId
    BY <1>0
  <2> HIDE DEF Right
  <2> QED
    BY <1>5, <2>1
<1>7. \A p \in issues[i].parents : p <= MaxId
  BY <1>0, <1>1
<1>8. LacksTo(i, MaxId, D) <=> Lacks(i, D)
  <2>1. LacksTo(i, MaxId, D) <=>
            \/ OwnMissing(i)
            \/ \E p \in issues[i].parents : undone(p, D) /\ Lacks(p, D)
    BY <1>7 DEF LacksTo, OwnMissing
  <2>2. Lacks(i, D) <=> OwnMissing(i) \/ \E p \in OpenParents(i, D) : Lacks(p, D)
    BY <1>0, StateUnfolds DEF i
  <2> QED
    BY <2>1, <2>2 DEF OpenParents
<1>9. WaitsTo(i, MaxId, D) <=> Waits(i, D)
  <2>1. WaitsTo(i, MaxId, D) <=>
            \/ \E b \in issues[i].blockers : undone(b, D)
            \/ \E p \in issues[i].parents : undone(p, D) /\ Waits(p, D)
    BY <1>7 DEF WaitsTo
  <2>2. Waits(i, D) <=> \/ \E b \in issues[i].blockers : undone(b, D)
                        \/ \E p \in OpenParents(i, D) : Waits(p, D)
    BY <1>0, StateUnfolds DEF i
  <2> QED
    BY <2>1, <2>2 DEF OpenParents
<1>10. TrueState(i, D) = Val(Lacks(i, D), Waits(i, D))
  BY <1>0, StateUnfolds DEF i
<1>11. up[MaxId].state = TrueState(i, D)
  BY <1>6, <1>8, <1>9, <1>10 DEF Val
<1> QED
  BY <1>6, <1>11 DEF Exact, up, i

\* A call for a parent is sound if the call was.
LEMMA UpIsSound ==
    ASSUME Tabled, NEW D, NEW c \in Call, SoundCall(c, D), undone(c.issue, D),
           NEW p \in issues[c.issue].parents, NEW memo \in Memo, SoundMemo(memo, D)
    PROVE  SoundCall(upCall(p, c, memo), D)
<1> DEFINE i == c.issue
           u == upCall(p, c, memo)
<1>1. i \in Id /\ p \in Id /\ c.visiting \subseteq Id
  BY DEF Call, Tabled
<1>2. u.issue = p /\ u.visiting = c.visiting \cup {i} /\ u.memo = memo
  BY DEF upCall, call
<1>3. ASSUME NEW k \in c.visiting \cup {i}
      PROVE  undone(k, D) /\ (undone(p, D) => \E q \in OpenParents(k, D) : p \in Lineage(q, D))
  <2>1. undone(k, D)
    BY <1>3 DEF SoundCall
  <2> SUFFICES ASSUME undone(p, D) PROVE \E q \in OpenParents(k, D) : p \in Lineage(q, D)
    BY <2>1
  <2>2. p \in OpenParents(i, D)
    BY DEF OpenParents
  <2>3. CASE k = i
    BY <1>1, <2>2, <2>3, LineageIsClosed
  <2>4. CASE k # i
    <3>1. PICK q \in OpenParents(k, D) : i \in Lineage(q, D)
      BY <1>3, <2>4 DEF SoundCall
    <3>2. q \in Id
      BY <1>1, <2>4, LineageIsClosed
    <3>3. p \in Lineage(q, D)
      BY <2>2, <3>1, <3>2, LineageIsClosed
    <3> QED
      BY <3>1, <3>3
  <2> QED
    BY <2>3, <2>4
<1> HIDE DEF u, i
<1>4. /\ SoundMemo(u.memo, D)
      /\ \A k \in u.visiting :
            /\ undone(k, D)
            /\ undone(u.issue, D) => \E q \in OpenParents(k, D) : u.issue \in Lineage(q, D)
  BY <1>2, <1>3
<1> QED
  BY <1>4 DEF SoundCall, u

\* visit returns the state of the issue, and leaves a true memo.
LEMMA VisitIsExact ==
    ASSUME Tabled, NEW D, NEW v, Solves(v, D), NEW c \in Call, SoundCall(c, D)
    PROVE  Exact(v[c], c.issue, D)
<1> DEFINE Wrong(d) == SoundCall(d, D) /\ ~Exact(v[d], d.issue, D)
           Bad == {n \in Nat : \E d \in Call : Room(d) = n /\ Wrong(d)}
<1>0. MaxId \in Nat
  BY ReadinessAssumption
<1>1. SUFFICES Bad = {}
  <2>1. Room(c) \in Nat
    BY <1>0, RoomShrinks
  <2> QED
    BY <1>1, <2>1
<1> SUFFICES ASSUME Bad # {} PROVE FALSE
  OBVIOUS
<1>2. Bad \in SUBSET Nat
  OBVIOUS
<1>3. PICK n \in Bad : \A m \in Bad : n <= m
  BY <1>2, LeastOf
<1>4. PICK d \in Call : Room(d) = n /\ Wrong(d)
  OBVIOUS
<1> DEFINE i == d.issue
<1>5. i \in Id /\ SoundMemo(d.memo, D) /\ v[d] = visitOne(v, d, D)
  BY <1>4 DEF Call, SoundCall, Solves
<1>6. \A s, m : visited(s, m).state = s /\ visited(s, m).memo = m
  BY DEF visited
<1>7. CASE ~exists(i)
  <2>1. v[d] = visited(Unknown, d.memo) /\ TrueState(i, D) = Unknown
    BY <1>5, <1>7 DEF visitOne, stateOfLoop, TrueState
  <2> QED
    BY <1>4, <1>5, <1>6, <2>1 DEF Exact
<1>8. CASE exists(i) /\ i \in d.visiting
  <2>1. v[d] = visited(Unknown, d.memo)
    BY <1>5, <1>8 DEF visitOne, stateOfLoop
  <2>2. undone(i, D) /\ InParentCycle(i, D)
    BY <1>4, <1>8 DEF SoundCall, InParentCycle
  <2>3. TrueState(i, D) = Unknown
    BY <1>5, <2>2, StateUnfolds DEF Val
  <2> QED
    BY <1>4, <1>5, <1>6, <2>1, <2>3 DEF Exact
<1>9. CASE exists(i) /\ i \notin d.visiting /\ (i \in D \/ closed(i))
  <2>1. v[d] = visited(Satisfied, d.memo)
    BY <1>5, <1>9 DEF visitOne
  <2>2. TrueState(i, D) = Satisfied
    BY <1>9 DEF TrueState, undone, isOpen
  <2> QED
    BY <1>4, <1>5, <1>6, <2>1, <2>2 DEF Exact
<1>10. CASE exists(i) /\ i \notin d.visiting /\ ~(i \in D \/ closed(i)) /\ d.memo[i] # NotSeen
  <2>1. v[d] = visited(d.memo[i], d.memo)
    BY <1>5, <1>10 DEF visitOne
  <2>2. d.memo[i] = TrueState(i, D)
    BY <1>5, <1>10 DEF SoundMemo
  <2> QED
    BY <1>4, <1>5, <1>6, <2>1, <2>2 DEF Exact
<1>11. CASE exists(i) /\ i \notin d.visiting /\ ~(i \in D \/ closed(i)) /\ d.memo[i] = NotSeen
  <2> DEFINE last == visitParents(v, d, D)[MaxId]
  <2>1. v[d] = visited(last.state, [last.memo EXCEPT ![i] = last.state])
    BY <1>5, <1>11 DEF visitOne
  <2>2. undone(i, D)
    BY <1>11 DEF undone, isOpen
  <2>3. v \in [Call -> Result]
    BY SolutionIsTyped
  <2>4. VisitsParents(v, d)
    BY <2>3, RoomShrinks DEF VisitsParents
  <2>5. ASSUME NEW p \in issues[i].parents, NEW memo \in Memo, SoundMemo(memo, D)
        PROVE  Exact(v[upCall(p, d, memo)], p, D)
    <3>1. p \in Id
      BY <1>5 DEF Tabled
    <3>2. SoundCall(upCall(p, d, memo), D)
      BY <1>4, <2>2, <2>5, UpIsSound
    <3>3. /\ upCall(p, d, memo) \in Call /\ Room(upCall(p, d, memo)) = n - 1
          /\ Room(upCall(p, d, memo)) \in 1 .. MaxId + 1 /\ n \in 1 .. MaxId + 1
      BY <1>4, <1>11, <3>1, RoomShrinks
    <3>4. n - 1 \in Nat /\ ~(n <= n - 1)
      BY <1>0, <3>3
    <3>5. n - 1 \notin Bad
      <4> HIDE DEF Bad
      <4> QED
        BY <1>3, <3>4
    <3>6. upCall(p, d, memo).issue = p
      BY DEF upCall, call
    <3> QED
      BY <3>2, <3>3, <3>4, <3>5, <3>6
  <2>6. Exact(last, i, D)
    BY <1>5, <2>2, <2>4, <2>5, ParentsAddUp
  <2> HIDE DEF last
  <2>7. SoundMemo([last.memo EXCEPT ![i] = last.state], D)
    <3>1. TrueState(i, D) \in DependencyStates
      BY <1>5, StateIs
    <3> QED
      BY <1>5, <2>6, <3>1 DEF Exact, SoundMemo, Memo
  <2> QED
    BY <1>4, <1>6, <2>1, <2>6, <2>7 DEF Exact
<1> QED
  BY <1>7, <1>8, <1>9, <1>10, <1>11

\* ReadyAfter is exact once compute is.
LEMMA AfterIsExact ==
    ASSUME Tabled, ComputeIsExact, computed, NEW i \in Id, NEW D \in SUBSET Id
    PROVE  ReadyAfter(i, D) <=> workable(i) /\ undone(i, D) /\ TrueState(i, D) = Satisfied
<1>0. workable(i) => isOpen(i)
  BY DEF workable, isOpen, exists, closed
<1>1. CASE D = {}
  <2>1. DependencyState(i) = TrueState(i, {})
    BY DEF ComputeIsExact
  <2> QED
    BY <1>0, <1>1, <2>1 DEF ReadyAfter, Ready, undone
<1>2. CASE D # {}
  <2> DEFINE start == call(i, {}, [k \in Id |-> NotSeen])
  <2>1. PICK s : Solves(s, D)
    BY SolutionExists
  <2> DEFINE v == CHOOSE w : Solves(w, D)
  <2>2. Solves(v, D)
    BY <2>1
  <2>3. visit(i, D) = v[start].state
    BY DEF visit, Solves
  <2> HIDE DEF v
  <2>4. start \in Call /\ start.issue = i /\ SoundCall(start, D)
    BY DEF call, Call, SoundCall, SoundMemo, Memo
  <2> HIDE DEF start
  <2>5. v[start].state = TrueState(i, D)
    BY <2>2, <2>4, VisitIsExact DEF Exact
  <2> QED
    BY <1>0, <1>2, <2>3, <2>5 DEF ReadyAfter, undone
<1> QED
  BY <1>1, <1>2

\* Both indexes of readiness are exact.
LEMMA InvariantIsExact == ComputeInv => ReadinessIsExact
<1> SUFFICES ASSUME ComputeInv PROVE ComputeIsExact /\ ReadyAfterIsExact
  BY DEF ReadinessIsExact
<1>1. Tabled /\ ComputeIsExact
  BY ComputedIsTrue DEF ComputeInv, QueueInv
<1>2. \A i \in Id : workable(i) => isOpen(i)
  BY DEF workable, isOpen, exists, closed
<1> QED
  BY <1>1, <1>2, AfterIsExact DEF ReadyAfterIsExact, undone

\* The index that compute fills and the walk of ReadyAfter both give the states that the
\* comments of readiness.go define, for any table of issues.
THEOREM ReadinessIsExactHolds == ReadinessSpec => []ReadinessIsExact
<1> QED
  BY InvariantIsExact, ComputeInvariant, PTL

-----------------------------------------------------------------------------
(* More is done *)

\* Induction over 0 .. N.
LEMMA Upward ==
    ASSUME NEW N \in Nat, NEW S, 0 \in S, \A n \in 1 .. N : n - 1 \in S => n \in S
    PROVE  0 .. N \subseteq S
<1> DEFINE Bad == {n \in 0 .. N : n \notin S}
<1> SUFFICES ASSUME Bad # {} PROVE FALSE
  OBVIOUS
<1>1. Bad \in SUBSET Nat
  OBVIOUS
<1>2. PICK n \in Bad : \A m \in Bad : n <= m
  BY <1>1, LeastOf
<1>3. n # 0
  OBVIOUS
<1>4. n \in 1 .. N /\ n - 1 \in 0 .. N /\ ~(n <= n - 1)
  BY <1>3
<1>5. n - 1 \in S
  BY <1>2, <1>4
<1> QED
  BY <1>4, <1>5

\* What an issue of C needs, that is ready when D is done, is within C done in E as well.
LEMMA StaysReady ==
    ASSUME Tabled, NEW C \in SUBSET Id, NEW i \in C, NEW D, NEW E,
           undone(i, D), TrueState(i, D) = Satisfied, undone(i, E),
           \A k \in C : \A d \in issues[k].blockers \cup issues[k].parents :
               undone(d, E) => d \in C /\ undone(d, D)
    PROVE  TrueState(i, E) = Satisfied
<1>1. ASSUME NEW k \in C PROVE Lineage(k, E) \subseteq Lineage(k, D) \cap C
  <2> DEFINE S == Lineage(k, D) \cap C
  <2>1. k \in Id
    BY <1>1
  <2>2. k \in S /\ S \in SUBSET Id
    BY <1>1, <2>1, LineageIsClosed
  <2>3. ASSUME NEW x \in S, NEW p \in OpenParents(x, E) PROVE p \in S
    <3>1. p \in C /\ undone(p, D) /\ p \in issues[x].parents
      BY <2>3 DEF OpenParents
    <3>2. p \in OpenParents(x, D)
      BY <3>1 DEF OpenParents
    <3>3. p \in Lineage(k, D)
      BY <2>1, <3>2, LineageIsClosed
    <3> QED
      BY <3>1, <3>3
  <2> HIDE DEF S
  <2>4. Lineage(k, E) \subseteq S
    BY <2>1, <2>2, <2>3, LineageIsClosed
  <2> QED
    BY <2>4 DEF S
<1>2. ~Lacks(i, D) /\ ~Waits(i, D)
  BY StateUnfolds DEF Val, Satisfied, Unknown, Unsatisfied
<1>3. ~Lacks(i, E)
  <2> SUFFICES ASSUME NEW x \in Lineage(i, E), InParentCycle(x, E) \/ OwnMissing(x) PROVE Lacks(i, D)
    BY <1>2 DEF Lacks
  <2>1. x \in Lineage(i, D) /\ x \in C
    BY <1>1
  <2>2. CASE OwnMissing(x)
    BY <2>1, <2>2 DEF Lacks
  <2>3. CASE InParentCycle(x, E)
    <3>1. PICK p \in OpenParents(x, E) : x \in Lineage(p, E)
      BY <2>3 DEF InParentCycle
    <3>2. p \in C /\ undone(p, D) /\ p \in issues[x].parents
      BY <2>1 DEF OpenParents
    <3>3. p \in OpenParents(x, D) /\ x \in Lineage(p, D)
      BY <1>1, <3>1, <3>2 DEF OpenParents
    <3> QED
      BY <2>1, <3>3 DEF Lacks, InParentCycle
  <2> QED
    BY <2>2, <2>3
<1>4. ~Waits(i, E)
  <2> SUFFICES ASSUME NEW x \in Lineage(i, E), NEW b \in issues[x].blockers, undone(b, E)
               PROVE  Waits(i, D)
    BY <1>2 DEF Waits
  <2>1. x \in Lineage(i, D) /\ x \in C
    BY <1>1
  <2>2. undone(b, D)
    BY <2>1
  <2> QED
    BY <2>1, <2>2 DEF Waits
<1> QED
  BY <1>3, <1>4, StateUnfolds DEF Val

\* What is done makes nothing unready but itself.
LEMMA MoreIsReady ==
    ASSUME Tabled, ComputeIsExact, computed, NEW i \in Id, NEW D \in SUBSET Id, NEW E \in SUBSET Id,
           D \subseteq E, ReadyAfter(i, D)
    PROVE  i \in E \/ ReadyAfter(i, E)
<1> SUFFICES ASSUME i \notin E PROVE ReadyAfter(i, E)
  OBVIOUS
<1>1. workable(i) /\ undone(i, D) /\ TrueState(i, D) = Satisfied
  BY AfterIsExact
<1>2. undone(i, E)
  BY <1>1 DEF undone
<1>3. \A k \in Id : \A d \in issues[k].blockers \cup issues[k].parents :
          undone(d, E) => d \in Id /\ undone(d, D)
  BY DEF Tabled, undone
<1>4. TrueState(i, E) = Satisfied
  BY <1>1, <1>2, <1>3, StaysReady
<1> QED
  BY <1>1, <1>2, <1>4, AfterIsExact

\* The issues that can be worked on, as sets.
LEMMA ActionableGrows ==
    ASSUME Tabled, ComputeIsExact, computed, NEW D \in SUBSET Id
    PROVE  /\ Actionable(D) \subseteq Id \ D /\ Actionable(D) \subseteq Open /\ IsFiniteSet(Actionable(D))
           /\ \A E \in SUBSET Id : D \subseteq E => Actionable(D) \subseteq E \cup Actionable(E)
<1>1. IsFiniteSet(Id)
  BY FS_Interval, ReadinessAssumption DEF Id
<1>2. Actionable(D) \in SUBSET Id
  BY DEF Actionable
<1>3. IsFiniteSet(Actionable(D))
  BY <1>1, <1>2, FS_Subset
<1>4. \A i \in Actionable(D) : i \notin D /\ isOpen(i)
  BY AfterIsExact DEF Actionable, undone
<1>5. ASSUME NEW E \in SUBSET Id, D \subseteq E PROVE Actionable(D) \subseteq E \cup Actionable(E)
  BY <1>5, MoreIsReady DEF Actionable
<1> QED
  BY <1>2, <1>3, <1>4, <1>5 DEF Open

-----------------------------------------------------------------------------
(* Union-find *)

\* A union-find structure over N: every node but the roots points to a lesser one, and u
\* gives the root of each.
Roots(p, N, u) == u \in [N -> N] /\ \A y \in N : u[y] = IF p[y] = y THEN y ELSE u[p[y]]

Rooted(N) == {p \in [N -> N] : (\A y \in N : p[y] <= y) /\ \E u : Roots(p, N, u)}

\* find follows the pointers to the root.
LEMMA FindIs ==
    ASSUME NEW N \in SUBSET Id, NEW p \in Rooted(N), NEW u, Roots(p, N, u), NEW x \in N
    PROVE  find(p, x) = u[x] /\ p[u[x]] = u[x] /\ u[x] \in N
<1> DEFINE Is(w) == w = [y \in DOMAIN p |-> IF p[y] = y THEN y ELSE w[p[y]]]
           up == CHOOSE w : Is(w)
           Bad == {y \in N : up[y] # u[y] \/ p[u[y]] # u[y]}
<1>0. N \subseteq Nat
  BY DEF Id
<1>1. p \in [N -> N] /\ (\A y \in N : p[y] <= y) /\ DOMAIN p = N
  BY DEF Rooted
<1>2. u \in [N -> N] /\ \A y \in N : u[y] = IF p[y] = y THEN y ELSE u[p[y]]
  BY DEF Roots
<1>3. Is(u)
  BY <1>1, <1>2
<1>4. Is(up)
  <2> HIDE DEF Is
  <2> QED
    BY <1>3
<1>5. find(p, x) = up[x]
  BY DEF find
<1> HIDE DEF up
<1>6. \A y \in N : up[y] = IF p[y] = y THEN y ELSE up[p[y]]
  BY <1>1, <1>4
<1>7. Bad = {}
  <2> SUFFICES ASSUME Bad # {} PROVE FALSE
    OBVIOUS
  <2>1. Bad \in SUBSET Nat
    BY <1>0
  <2>2. PICK y \in Bad : \A z \in Bad : y <= z
    BY <2>1, LeastOf
  <2>3. y \in N
    OBVIOUS
  <2>4. p[y] # y
    BY <1>2, <1>6
  <2>5. p[y] \in N /\ p[y] <= y /\ ~(y <= p[y])
    <3>1. p[y] \in N /\ p[y] <= y
      BY <1>1, <2>3
    <3>2. p[y] \in Nat /\ y \in Nat
      BY <1>0, <2>3, <3>1
    <3> QED
      BY <2>4, <3>1, <3>2
  <2>6. up[p[y]] = u[p[y]] /\ p[u[p[y]]] = u[p[y]]
    BY <2>2, <2>5
  <2>7. up[y] = u[y] /\ p[u[y]] = u[y]
    BY <1>2, <1>6, <2>3, <2>4, <2>6
  <2> QED
    BY <2>2, <2>7
<1> QED
  BY <1>2, <1>5, <1>7

\* union gives two nodes the same root, parts none that had one, and changes no other.
LEMMA UnionJoins ==
    ASSUME NEW N \in SUBSET Id, NEW p \in Rooted(N), NEW e \in N \X N
    PROVE  /\ union(e, p) \in Rooted(N)
           /\ find(union(e, p), e[1]) = find(union(e, p), e[2])
           /\ \A x, y \in N : find(p, x) = find(p, y) => find(union(e, p), x) = find(union(e, p), y)
           /\ \A x \in N : \/ find(union(e, p), x) = find(p, x)
                           \/ {find(p, x), find(union(e, p), x)} \subseteq {find(p, e[1]), find(p, e[2])}
<1>0. N \subseteq Nat /\ e[1] \in N /\ e[2] \in N
  BY DEF Id
<1>1. PICK u : Roots(p, N, u)
  BY DEF Rooted
<1> DEFINE px == u[e[1]]
           py == u[e[2]]
           m == IF px < py THEN px ELSE py
           q == union(e, p)
           w == [y \in N |-> IF u[y] \in {px, py} THEN m ELSE u[y]]
<1>2. \A x \in N : find(p, x) = u[x] /\ p[u[x]] = u[x] /\ u[x] \in N
  BY <1>1, FindIs
<1>3. q = IF px < py THEN [p EXCEPT ![py] = px] ELSE [p EXCEPT ![px] = py]
  BY <1>0, <1>2 DEF union
<1>4. p \in [N -> N] /\ \A y \in N : p[y] <= y
  BY DEF Rooted
<1>5. u \in [N -> N] /\ \A y \in N : u[y] = IF p[y] = y THEN y ELSE u[p[y]]
  BY <1>1 DEF Roots
<1>6. px \in N /\ py \in N /\ m \in {px, py} /\ px \in Nat /\ py \in Nat /\ p[px] = px /\ p[py] = py
  BY <1>0, <1>2
<1>7. u[px] = px /\ u[py] = py
  BY <1>5, <1>6
<1> DEFINE h == IF px < py THEN py ELSE px
<1>8. q = [p EXCEPT ![h] = m] /\ h \in N /\ m \in N /\ m <= h /\ {h, m} = {px, py} /\ m \in Nat /\ h \in Nat
  <2> HIDE DEF px, py, q
  <2>1. CASE px < py
    BY <1>3, <1>6, <2>1
  <2>2. CASE ~(px < py)
    <3>1. h = px /\ m = py /\ m <= h
      BY <1>6, <2>2
    <3>2. q = [p EXCEPT ![px] = py]
      BY <1>3, <2>2
    <3> HIDE DEF h, m
    <3> QED
      BY <1>6, <3>1, <3>2
  <2> QED
    BY <2>1, <2>2
<1> HIDE DEF q, px, py, m, h
<1>9. q \in [N -> N] /\ \A y \in N : q[y] <= y
  BY <1>4, <1>8
<1>10. w \in [N -> N]
  BY <1>5, <1>8
<1>11. u[h] = h /\ u[m] = m /\ p[h] = h /\ p[m] = m
  BY <1>6, <1>7, <1>8
<1>12. ASSUME NEW y \in N PROVE w[y] = IF q[y] = y THEN y ELSE w[q[y]]
  <2>1. CASE y = h
    <3>1. u[h] \in {px, py} /\ u[m] \in {px, py}
      BY <1>8, <1>11
    <3>2. w[h] = m /\ w[m] = m
      BY <1>8, <3>1
    <3>3. q[h] = m
      BY <1>4, <1>8
    <3> QED
      BY <2>1, <3>2, <3>3
  <2>2. CASE y # h
    <3>1. q[y] = p[y] /\ p[y] \in N
      BY <1>4, <1>8, <2>2
    <3>2. CASE p[y] = y
      <4>1. u[y] = y
        BY <1>5, <3>2
      <4>2. w[y] = y
        BY <1>8, <2>2, <4>1
      <4> QED
        BY <3>1, <3>2, <4>2
    <3>3. CASE p[y] # y
      <4>1. u[y] = u[p[y]]
        BY <1>5, <3>3
      <4> QED
        BY <3>1, <3>3, <4>1
    <3> QED
      BY <3>2, <3>3
  <2> QED
    BY <2>1, <2>2
<1>13. Roots(q, N, w)
  <2> HIDE DEF w
  <2> QED
    BY <1>10, <1>12 DEF Roots
<1>14. q \in Rooted(N)
  <2> HIDE DEF w
  <2> QED
    BY <1>9, <1>13 DEF Rooted
<1>15. \A x \in N : find(q, x) = w[x]
  <2> HIDE DEF w
  <2> QED
    BY <1>13, <1>14, FindIs
<1>16. w[e[1]] = w[e[2]]
  BY <1>0 DEF px, py
<1>17. \A x, y \in N : u[x] = u[y] => w[x] = w[y]
  OBVIOUS
<1>18. \A x \in N : w[x] = u[x] \/ {u[x], w[x]} \subseteq {px, py}
  BY <1>6
<1> HIDE DEF w
<1>19. find(q, e[1]) = find(q, e[2])
  BY <1>0, <1>15, <1>16
<1>20. \A x, y \in N : find(p, x) = find(p, y) => find(q, x) = find(q, y)
  BY <1>2, <1>15, <1>17
<1>21. px = find(p, e[1]) /\ py = find(p, e[2])
  BY <1>0, <1>2 DEF px, py
<1>22. \A x \in N : find(q, x) = find(p, x) \/ {find(p, x), find(q, x)} \subseteq {find(p, e[1]), find(p, e[2])}
  BY <1>2, <1>15, <1>18, <1>21
<1> QED
  BY <1>14, <1>19, <1>20, <1>22 DEF q

\* All edges in turn: what is linked has one root, and a root is linked to what it stands for.
LEMMA GroupedJoins ==
    ASSUME NEW N \in SUBSET Id, NEW E \in SUBSET (N \X N)
    PROVE  /\ grouped(N, E) \in Rooted(N)
           /\ \A e \in E : find(grouped(N, E), e[1]) = find(grouped(N, E), e[2])
           /\ \A kind : (\A e \in E : kind[e[1]] = kind[e[2]]) =>
                  \A x \in N : kind[find(grouped(N, E), x)] = kind[x]
<1> DEFINE base == [x \in N |-> x]
           one(s) == CHOOSE y \in s : TRUE
           Body(it, s) == IF s = {} THEN base ELSE union(one(s), it[s \ {one(s)}])
           Is(it) == it = [s \in SUBSET E |-> Body(it, s)]
           size(s) == Cardinality(s)
<1>0. IsFiniteSet(E)
  <2>1. IsFiniteSet(Id)
    BY FS_Interval, ReadinessAssumption DEF Id
  <2>2. IsFiniteSet(N)
    BY <2>1, FS_Subset
  <2>3. IsFiniteSet(N \X N)
    BY <2>2, FS_Product
  <2> QED
    BY <2>3, FS_Subset
<1>1. \A s \in SUBSET E : IsFiniteSet(s) /\ size(s) \in Nat /\ size(s) <= size(E)
  BY <1>0, FS_Subset, FS_CardinalityType
<1>2. \A s \in SUBSET E : s # {} => /\ one(s) \in s /\ s \ {one(s)} \in SUBSET E
                                    /\ size(s \ {one(s)}) = size(s) - 1 /\ size(s) # 0
  <2> SUFFICES ASSUME NEW s \in SUBSET E, s # {}
               PROVE  /\ one(s) \in s /\ s \ {one(s)} \in SUBSET E
                      /\ size(s \ {one(s)}) = size(s) - 1 /\ size(s) # 0
    OBVIOUS
  <2>1. one(s) \in s
    OBVIOUS
  <2> HIDE DEF one
  <2> QED
    BY <1>1, <2>1, FS_RemoveElement, FS_EmptySet
<1>3. size({}) = 0
  BY FS_EmptySet
<1> HIDE DEF one, size
<1>4. base \in Rooted(N)
  <2>1. Roots(base, N, base)
    BY DEF Roots
  <2>2. \A y \in N : base[y] <= y
    BY DEF Id
  <2> HIDE DEF base
  <2>3. base \in [N -> N]
    BY DEF base
  <2> QED
    BY <2>1, <2>2, <2>3 DEF Rooted
<1> HIDE DEF base
<1>5. \A s \in SUBSET E : s # {} => one(s) \in N \X N
  BY <1>2
<1>6. \E it : Is(it)
  <2> DEFINE A == [SUBSET E -> Rooted(N)]
             n == size(E)
             a == [s \in SUBSET E |-> base]
             G == [x \in (1 .. n) \X A |-> [s \in SUBSET E |-> Body(x[2], s)]]
  <2>1. n \in Nat /\ a \in A
    BY <1>1, <1>4
  <2>2. \A it \in A, s \in SUBSET E : Body(it, s) \in Rooted(N)
    BY <1>2, <1>4, <1>5, UnionJoins
  <2> HIDE DEF Body
  <2>3. G \in [(1 .. n) \X A -> A]
    BY <2>2
  <2>4. \A k \in 1 .. n, it \in A : G[<<k, it>>] = [s \in SUBSET E |-> Body(it, s)]
    OBVIOUS
  <2> HIDE DEF G, n
  <2>5. PICK f : Unfolds(f, n, A, a, G)
    BY <2>1, <2>3, Recursion
  <2>6. f \in [0 .. n -> A] /\ f[0] = a /\ \A k \in 1 .. n : f[k] = G[<<k, f[k - 1]>>]
    BY <2>5 DEF Unfolds
  <2> DEFINE it == [s \in SUBSET E |-> f[size(s)][s]]
  <2>7. ASSUME NEW s \in SUBSET E PROVE it[s] = Body(it, s)
    <3>1. CASE s = {}
      BY <1>3, <2>6, <3>1 DEF Body
    <3>2. CASE s # {}
      <4> DEFINE k == size(s)
                 t == s \ {one(s)}
      <4>1. k \in 1 .. n /\ k - 1 \in 0 .. n /\ t \in SUBSET E /\ size(t) = k - 1
        BY <1>1, <1>2, <2>1, <3>2 DEF n
      <4> HIDE DEF k, t
      <4>2. f[k] = [r \in SUBSET E |-> Body(f[k - 1], r)]
        BY <2>4, <2>6, <4>1
      <4>3. it[s] = Body(f[k - 1], s)
        BY <4>2 DEF k
      <4>4. it[t] = f[k - 1][t]
        BY <4>1
      <4> HIDE DEF it
      <4> QED
        BY <3>2, <4>3, <4>4 DEF Body, t
    <3> QED
      BY <3>1, <3>2
  <2>8. it = [s \in SUBSET E |-> it[s]]
    OBVIOUS
  <2> HIDE DEF it
  <2> QED
    BY <2>7, <2>8
<1> DEFINE it == CHOOSE w : Is(w)
<1>7. Is(it)
  <2> HIDE DEF Is
  <2> QED
    BY <1>6
<1>8. grouped(N, E) = it[E]
  BY DEF grouped, FoldSet, MapThenFoldSet, base, one
<1> HIDE DEF it
<1>9. \A s \in SUBSET E : it[s] = Body(it, s)
  BY <1>7
<1> DEFINE Joins(s) == it[s] \in Rooted(N) /\ \A e \in s : find(it[s], e[1]) = find(it[s], e[2])
           Bad == {k \in Nat : \E s \in SUBSET E : size(s) = k /\ ~Joins(s)}
<1>10. Bad = {}
  <2> SUFFICES ASSUME Bad # {} PROVE FALSE
    OBVIOUS
  <2>1. Bad \in SUBSET Nat
    OBVIOUS
  <2>2. PICK k \in Bad : \A l \in Bad : k <= l
    BY <2>1, LeastOf
  <2>3. PICK s \in SUBSET E : size(s) = k /\ ~Joins(s)
    OBVIOUS
  <2>4. s # {}
    BY <1>4, <1>9, <2>3
  <2> DEFINE t == s \ {one(s)}
             p == it[t]
  <2>5. /\ t \in SUBSET E /\ size(t) \in Nat /\ ~(k <= size(t))
        /\ one(s) \in N \X N /\ s = t \cup {one(s)}
    BY <1>1, <1>2, <1>5, <2>3, <2>4
  <2>6. Joins(t)
    <3> HIDE DEF Joins, t
    <3> QED
      BY <2>2, <2>5
  <2>7. it[s] = union(one(s), p)
    BY <1>9, <2>4
  <2> HIDE DEF t, p
  <2>8. p \in Rooted(N) /\ \A e \in t : find(p, e[1]) = find(p, e[2])
    BY <2>6 DEF p
  <2>9. /\ it[s] \in Rooted(N) /\ find(it[s], one(s)[1]) = find(it[s], one(s)[2])
        /\ \A x, y \in N : find(p, x) = find(p, y) => find(it[s], x) = find(it[s], y)
    BY <2>5, <2>7, <2>8, UnionJoins
  <2>10. \A e \in t : e[1] \in N /\ e[2] \in N
    BY <2>5
  <2> QED
    BY <2>3, <2>5, <2>8, <2>9, <2>10
<1>11. Joins(E)
  <2> HIDE DEF Joins
  <2>1. E \in SUBSET E /\ size(E) \in Nat
    BY <1>1
  <2> QED
    BY <1>10, <2>1
<1>12. \A s \in SUBSET E : it[s] \in Rooted(N)
  <2> SUFFICES ASSUME NEW s \in SUBSET E PROVE it[s] \in Rooted(N)
    OBVIOUS
  <2>1. size(s) \in Nat
    BY <1>1
  <2> QED
    BY <1>10, <2>1
<1>13. ASSUME NEW kind, \A e \in E : kind[e[1]] = kind[e[2]]
       PROVE  \A x \in N : kind[find(it[E], x)] = kind[x]
  <2> DEFINE Keeps(s) == \A x \in N : kind[find(it[s], x)] = kind[x]
             Bads == {k \in Nat : \E s \in SUBSET E : size(s) = k /\ ~Keeps(s)}
  <2>1. Keeps({})
    <3>1. Roots(base, N, base)
      BY DEF Roots, base
    <3>2. \A x \in N : find(base, x) = base[x]
      BY <1>4, <3>1, FindIs
    <3> QED
      BY <1>9, <3>2 DEF base
  <2>2. Bads = {}
    <3> SUFFICES ASSUME Bads # {} PROVE FALSE
      OBVIOUS
    <3>1. Bads \in SUBSET Nat
      OBVIOUS
    <3>2. PICK k \in Bads : \A l \in Bads : k <= l
      BY <3>1, LeastOf
    <3>3. PICK s \in SUBSET E : size(s) = k /\ ~Keeps(s)
      OBVIOUS
    <3>4. s # {}
      BY <2>1, <3>3
    <3> DEFINE t == s \ {one(s)}
               p == it[t]
               e == one(s)
    <3>5. t \in SUBSET E /\ size(t) \in Nat /\ ~(k <= size(t)) /\ e \in E /\ e \in N \X N
      BY <1>1, <1>2, <1>5, <3>3, <3>4
    <3>6. Keeps(t)
      <4> HIDE DEF Keeps, t
      <4> QED
        BY <3>2, <3>5
    <3>7. it[s] = union(e, p)
      BY <1>9, <3>4
    <3>8. p \in Rooted(N) /\ \A x \in N : kind[find(p, x)] = kind[x]
      BY <1>12, <3>5, <3>6
    <3> HIDE DEF t, p, e
    <3>9. \A x \in N : \/ find(it[s], x) = find(p, x)
                       \/ {find(p, x), find(it[s], x)} \subseteq {find(p, e[1]), find(p, e[2])}
      BY <3>5, <3>7, <3>8, UnionJoins
    <3>10. e[1] \in N /\ e[2] \in N /\ kind[e[1]] = kind[e[2]]
      BY <1>13, <3>5
    <3>11. kind[find(p, e[1])] = kind[find(p, e[2])]
      BY <3>8, <3>10
    <3> QED
      BY <3>3, <3>8, <3>9, <3>11
  <2> HIDE DEF Keeps
  <2>3. E \in SUBSET E /\ size(E) \in Nat
    BY <1>1
  <2>4. Keeps(E)
    BY <2>2, <2>3
  <2> QED
    BY <2>4 DEF Keeps
<1> QED
  BY <1>8, <1>11, <1>13

-----------------------------------------------------------------------------
(* The tracks of the plan *)

\* The root of the component of an issue.
component == grouped(Known, componentLinks)
rootOf(i) == find(component, i)

\* What an issue depends on is of its component.
LEMMA ComponentsHold ==
    /\ \A i \in Known : rootOf(i) \in Known
    /\ \A i, j \in Known : j \in issues[i].blockers \cup issues[i].parents => rootOf(i) = rootOf(j)
<1>1. Known \in SUBSET Id /\ componentLinks \in SUBSET (Known \X Known)
  BY DEF Known, componentLinks, LinksAmong
<1>2. /\ component \in Rooted(Known)
      /\ \A e \in componentLinks : rootOf(e[1]) = rootOf(e[2])
  BY <1>1, GroupedJoins DEF component, rootOf
<1>3. PICK u : Roots(component, Known, u)
  BY <1>2 DEF Rooted
<1>4. \A i \in Known : rootOf(i) \in Known
  BY <1>1, <1>2, <1>3, FindIs DEF rootOf
<1>5. ASSUME NEW i \in Known, NEW j \in Known, j \in issues[i].blockers \cup issues[i].parents
      PROVE  rootOf(i) = rootOf(j)
  <2>1. <<i, j>> \in componentLinks
    BY <1>5 DEF componentLinks, LinksAmong
  <2> QED
    BY <1>2, <2>1
<1> QED
  BY <1>4, <1>5

\* What is done in other components makes no difference to an issue.
LEMMA ReadyInComponent ==
    ASSUME Tabled, NEW i \in Known, NEW D \in SUBSET Known, undone(i, D), TrueState(i, D) = Satisfied
    PROVE  LET own == {k \in D : rootOf(k) = rootOf(i)}
           IN  undone(i, own) /\ TrueState(i, own) = Satisfied
<1> DEFINE own == {k \in D : rootOf(k) = rootOf(i)}
           C == {k \in Known : rootOf(k) = rootOf(i)}
<1>1. i \in C /\ C \in SUBSET Id
  BY DEF Known
<1>2. undone(i, own)
  BY DEF undone
<1>3. ASSUME NEW k \in C, NEW d \in issues[k].blockers \cup issues[k].parents, undone(d, own)
      PROVE  d \in C /\ undone(d, D)
  <2>1. k \in Id
    BY <1>1
  <2>2. d \in Known
    BY <1>3, <2>1 DEF Tabled, undone, isOpen, Known
  <2>3. rootOf(k) = rootOf(d)
    BY <1>3, <2>2, ComponentsHold
  <2> QED
    BY <1>3, <2>2, <2>3 DEF undone
<1> HIDE DEF own, C
<1>4. TrueState(i, own) = Satisfied
  BY <1>1, <1>2, <1>3, StaysReady
<1> QED
  BY <1>2, <1>4 DEF own

\* The tracks of the plan.
LEMMA ExactTracksAreIndependent ==
    ASSUME Tabled, ComputeIsExact, computed
    PROVE  TracksAreIndependent
<1>0. Known \subseteq Id
  BY DEF Known
<1>1. Actionable({}) \subseteq Known
  BY DEF Actionable, ReadyAfter, Ready, workable, exists, Known
<1>2. buildTracks = {{i \in Actionable({}) : rootOf(i) = r} : r \in Known} \ {{}}
  BY DEF buildTracks, rootOf, component
<1>3. UNION buildTracks = Actionable({})
  <2>1. ASSUME NEW i \in Actionable({}) PROVE i \in UNION buildTracks
    <3> DEFINE t == {k \in Actionable({}) : rootOf(k) = rootOf(i)}
    <3>1. i \in t /\ rootOf(i) \in Known
      BY <1>1, <2>1, ComponentsHold
    <3>2. t \in buildTracks
      BY <1>2, <3>1
    <3> QED
      BY <3>1, <3>2
  <2> QED
    BY <1>2, <2>1
<1>4. \A t, u \in buildTracks : t # u => t \cap u = {}
  <2> SUFFICES ASSUME NEW t \in buildTracks, NEW u \in buildTracks, NEW i \in t \cap u PROVE t = u
    OBVIOUS
  <2>1. PICK r \in Known : t = {k \in Actionable({}) : rootOf(k) = r}
    BY <1>2
  <2>2. PICK s \in Known : u = {k \in Actionable({}) : rootOf(k) = s}
    BY <1>2
  <2>3. r = s
    BY <2>1, <2>2
  <2> QED
    BY <2>1, <2>2, <2>3
<1>5. ASSUME NEW i \in Known, NEW done \in SUBSET Known, ReadyAfter(i, done)
      PROVE  ReadyAfter(i, {k \in done : rootOf(k) = rootOf(i)})
  <2> DEFINE own == {k \in done : rootOf(k) = rootOf(i)}
  <2>1. i \in Id /\ done \in SUBSET Id /\ own \in SUBSET Id
    BY <1>0
  <2>2. workable(i) /\ undone(i, done) /\ TrueState(i, done) = Satisfied
    BY <1>5, <2>1, AfterIsExact
  <2>3. undone(i, own) /\ TrueState(i, own) = Satisfied
    BY <2>2, ReadyInComponent
  <2> QED
    BY <2>1, <2>2, <2>3, AfterIsExact
<1> QED
  BY <1>3, <1>4, <1>5 DEF TracksAreIndependent, rootOf, component

\* Both maps of unblocked issues hold only what is not ready now and is afterwards.
LEMMA ExactUnblocksAreNew ==
    ASSUME Tabled, ComputeIsExact, computed, NEW b \in Id
    PROVE  computeUnblocks(b) \cup UnblocksMap(b) \subseteq computeMarginalUnblocks(b, {})
<1> SUFFICES ASSUME NEW i \in computeUnblocks(b) \cup UnblocksMap(b)
             PROVE  i \in Actionable({b}) /\ ~ReadyAfter(i, {})
  BY DEF computeMarginalUnblocks, Actionable
<1>1. i \in Id /\ i \in Actionable({b})
  BY DEF computeUnblocks, UnblocksMap, Known, Open
<1>2. isOpen(i)
  BY <1>1 DEF Actionable, ReadyAfter, workable, isOpen, exists, closed
<1>3. Blockers(i) # {}
  <2>1. CASE i \in computeUnblocks(b)
    <3>1. isOpen(b) /\ b \in issues[i].blockers
      BY <2>1 DEF computeUnblocks
    <3> QED
      BY <1>2, <3>1 DEF Blockers, isOpen
  <2>2. CASE i \in UnblocksMap(b)
    BY <2>2 DEF UnblocksMap
  <2> QED
    BY <2>1, <2>2
<1>4. ~Ready(i)
  BY <1>1, <1>2, <1>3 DEF ComputeIsExact, Ready
<1> QED
  BY <1>1, <1>4 DEF ReadyAfter

-----------------------------------------------------------------------------
(* The greedy picks *)

\* Of finitely many candidates one has the greatest gain, and of those the least ID.
LEMMA BestIs ==
    ASSUME NEW D \in SUBSET Id, candidates(D) # {}
    PROVE  \E i \in Actionable(D) :
               bestOf(candidates(D)) = [id |-> i, gain |-> Cardinality(computeMarginalUnblocks(i, D))]
<1> DEFINE C == candidates(D)
           gains == {c.gain : c \in C}
           Best(c) == \A d \in C : d.gain < c.gain \/ (d.gain = c.gain /\ c.id <= d.id)
<1>1. MaxId \in Nat /\ IsFiniteSet(Id) /\ Cardinality(Id) = MaxId /\ Id \subseteq Nat
  BY FS_Interval, ReadinessAssumption DEF Id
<1>2. \A i : Cardinality(computeMarginalUnblocks(i, D)) \in 0 .. MaxId
  <2> SUFFICES ASSUME NEW i PROVE Cardinality(computeMarginalUnblocks(i, D)) \in 0 .. MaxId
    OBVIOUS
  <2>1. computeMarginalUnblocks(i, D) \in SUBSET Id
    BY DEF computeMarginalUnblocks, Actionable
  <2>2. /\ IsFiniteSet(computeMarginalUnblocks(i, D))
        /\ Cardinality(computeMarginalUnblocks(i, D)) <= Cardinality(Id)
    BY <1>1, <2>1, FS_Subset
  <2>3. Cardinality(computeMarginalUnblocks(i, D)) \in Nat
    BY <2>2, FS_CardinalityType
  <2> QED
    BY <1>1, <2>2, <2>3
<1>3. \A c \in C : c.id \in Nat /\ c.gain \in 0 .. MaxId
  BY <1>1, <1>2 DEF candidates, Actionable
<1>4. C = {[id |-> i, gain |-> Cardinality(computeMarginalUnblocks(i, D))] : i \in Actionable(D)}
  BY DEF candidates
<1>5. bestOf(C) = CHOOSE c \in C : Best(c)
  BY DEF bestOf
<1> HIDE DEF C
<1>6. gains \in SUBSET (0 .. MaxId) /\ gains # {}
  BY <1>3 DEF C
<1>7. PICK g \in gains : \A h \in gains : h <= g
  BY <1>1, <1>6, GreatestOf
<1> DEFINE ids == {c.id : c \in {d \in C : d.gain = g}}
<1>8. ids \in SUBSET Nat /\ ids # {}
  BY <1>3
<1>9. PICK x \in ids : \A y \in ids : x <= y
  BY <1>8, LeastOf
<1>10. PICK c \in C : c.gain = g /\ c.id = x
  OBVIOUS
<1>11. Best(c)
  <2> SUFFICES ASSUME NEW d \in C PROVE d.gain < g \/ (d.gain = g /\ x <= d.id)
    BY <1>10
  <2>1. d.gain <= g /\ d.gain \in Nat /\ g \in Nat
    BY <1>1, <1>3, <1>6, <1>7
  <2>2. d.gain = g => x <= d.id
    BY <1>9
  <2> QED
    BY <2>1, <2>2
<1> HIDE DEF Best
<1>12. bestOf(C) \in C
  BY <1>5, <1>10, <1>11
<1> QED
  BY <1>4, <1>12 DEF C

\* What is done or became ready on the way.
Gained(D) == (D \cup Actionable(D)) \ Actionable({})

\* Completing an issue that is ready adds what it unblocks.
LEMMA GainAdds ==
    ASSUME Tabled, ComputeIsExact, computed, NEW D \in SUBSET Id, NEW i \in Actionable(D)
    PROVE  /\ IsFiniteSet(Gained(D)) /\ Cardinality(Gained(D)) \in Nat
           /\ Cardinality(computeMarginalUnblocks(i, D)) \in Nat
           /\ Cardinality(Gained(D \cup {i})) =
                  Cardinality(Gained(D)) + Cardinality(computeMarginalUnblocks(i, D))
<1> DEFINE E == D \cup {i}
           new == computeMarginalUnblocks(i, D)
           none == {}
<1>0. IsFiniteSet(Id) /\ none \in SUBSET Id /\ none \subseteq D
  BY FS_Interval, ReadinessAssumption DEF Id
<1>1. i \in Id /\ E \in SUBSET Id /\ D \subseteq E
  BY DEF Actionable
<1>2. /\ Actionable(D) \subseteq Id \ D /\ Actionable(E) \subseteq Id \ E
      /\ Actionable(D) \subseteq E \cup Actionable(E)
      /\ Actionable(none) \subseteq D \cup Actionable(D)
      /\ Actionable(none) \subseteq E \cup Actionable(E)
  <2>1. Actionable(D) \subseteq Id \ D /\ Actionable(D) \subseteq E \cup Actionable(E)
    BY <1>1, ActionableGrows
  <2>2. Actionable(E) \subseteq Id \ E
    BY <1>1, ActionableGrows
  <2>3. \A F \in SUBSET Id : none \subseteq F => Actionable(none) \subseteq F \cup Actionable(F)
    BY <1>0, ActionableGrows
  <2> QED
    BY <1>0, <1>1, <2>1, <2>2, <2>3
<1>3. new = Actionable(E) \ Actionable(D)
  BY DEF computeMarginalUnblocks
<1> HIDE DEF new, none
<1>4. Gained(D) = (D \cup Actionable(D)) \ Actionable(none) /\ Gained(E) = (E \cup Actionable(E)) \ Actionable(none)
  BY DEF Gained, none
<1>5. Gained(E) = Gained(D) \cup new
  BY <1>2, <1>3, <1>4
<1>6. Gained(D) \cap new = {}
  BY <1>2, <1>3, <1>4
<1>7. Gained(D) \in SUBSET Id /\ new \in SUBSET Id
  BY <1>2, <1>3, <1>4
<1>8. IsFiniteSet(Gained(D)) /\ IsFiniteSet(new)
  BY <1>0, <1>7, FS_Subset
<1>9. Cardinality(Gained(D)) \in Nat /\ Cardinality(new) \in Nat
  BY <1>8, FS_CardinalityType
<1>10. Cardinality(Gained(E)) = Cardinality(Gained(D)) + Cardinality(new) - Cardinality(Gained(D) \cap new)
  BY <1>5, <1>8, FS_Union
<1>11. Cardinality(Gained(D) \cap new) = 0
  BY <1>6, FS_EmptySet
<1> QED
  BY <1>8, <1>9, <1>10, <1>11 DEF new

-----------------------------------------------------------------------------
\* The picks so far.
Picks == [picks : Seq(Id), gain : Nat]

Feasible(acc) ==
    /\ \A n \in DOMAIN acc.picks : acc.picks[n] \in Actionable({acc.picks[m] : m \in 1 .. n - 1})
    /\ acc.gain = Cardinality(Gained(ToSet(acc.picks)))

\* One more pick.
LEMMA PickAdds ==
    ASSUME Tabled, ComputeIsExact, computed, NEW acc \in Picks
    PROVE  LET next == withBest(acc, candidates(ToSet(acc.picks)))
           IN  next \in Picks /\ (Feasible(acc) => Feasible(next))
<1> DEFINE D == ToSet(acc.picks)
           next == withBest(acc, candidates(D))
<1>1. D \in SUBSET Id
  BY DEF ToSet, Picks
<1>2. CASE candidates(D) = {}
  BY <1>2 DEF withBest
<1>3. CASE candidates(D) # {}
  <2>1. PICK i \in Actionable(D) :
            bestOf(candidates(D)) = [id |-> i, gain |-> Cardinality(computeMarginalUnblocks(i, D))]
    BY <1>1, <1>3, BestIs
  <2> DEFINE q == Append(acc.picks, i)
             g == Cardinality(computeMarginalUnblocks(i, D))
  <2>2. next = [picks |-> q, gain |-> acc.gain + g]
    BY <1>3, <2>1 DEF withBest
  <2>3. i \in Id /\ acc.picks \in Seq(Id) /\ acc.gain \in Nat
    BY <2>1 DEF Actionable, Picks
  <2>4. /\ q \in Seq(Id) /\ Len(acc.picks) \in Nat
        /\ DOMAIN acc.picks = 1 .. Len(acc.picks) /\ DOMAIN q = 1 .. Len(acc.picks) + 1
        /\ \A n \in 1 .. Len(acc.picks) : q[n] = acc.picks[n]
        /\ q[Len(acc.picks) + 1] = i
    BY <2>3
  <2>5. /\ Cardinality(Gained(D)) \in Nat /\ g \in Nat
        /\ Cardinality(Gained(D \cup {i})) = Cardinality(Gained(D)) + g
    BY <1>1, <2>1, GainAdds
  <2>6. ToSet(q) = D \cup {i}
    BY <2>4 DEF ToSet
  <2> HIDE DEF q, g, next
  <2>7. next \in Picks
    BY <2>2, <2>3, <2>4, <2>5 DEF Picks
  <2>8. ASSUME Feasible(acc), NEW n \in DOMAIN q PROVE q[n] \in Actionable({q[m] : m \in 1 .. n - 1})
    <3>1. CASE n \in 1 .. Len(acc.picks)
      <4>1. {q[m] : m \in 1 .. n - 1} = {acc.picks[m] : m \in 1 .. n - 1}
        <5>1. \A m \in 1 .. n - 1 : q[m] = acc.picks[m]
          BY <2>4, <3>1
        <5> QED
          BY <5>1
      <4> QED
        BY <2>4, <2>8, <3>1, <4>1 DEF Feasible
    <3>2. CASE n = Len(acc.picks) + 1
      <4>1. {q[m] : m \in 1 .. n - 1} = D
        <5>1. 1 .. n - 1 = 1 .. Len(acc.picks)
          BY <2>4, <3>2
        <5> QED
          BY <2>4, <5>1 DEF ToSet
      <4> QED
        BY <2>1, <2>4, <3>2, <4>1
    <3> QED
      BY <2>4, <2>8, <3>1, <3>2
  <2>9. Feasible(acc) => next.gain = Cardinality(Gained(ToSet(q)))
    BY <2>2, <2>5, <2>6 DEF Feasible
  <2> QED
    BY <2>2, <2>7, <2>8, <2>9 DEF Feasible, next
<1> QED
  BY <1>2, <1>3

\* The greedy sequence.
LEMMA ExactPicksAreFeasible ==
    ASSUME Tabled, ComputeIsExact, computed
    PROVE  PicksAreFeasible
<1> DEFINE none == [picks |-> <<>>, gain |-> 0]
           Step(acc) == withBest(acc, candidates(ToSet(acc.picks)))
           Is(t) == t = [n \in 0 .. MaxId |-> IF n = 0 THEN none ELSE Step(t[n - 1])]
           G == [x \in (1 .. MaxId) \X Picks |-> Step(x[2])]
<1>0. MaxId \in Nat
  BY ReadinessAssumption
<1>1. none \in Picks
  BY DEF Picks
<1>2. \A acc \in Picks : Step(acc) \in Picks /\ (Feasible(acc) => Feasible(Step(acc)))
  BY PickAdds
<1>3. Feasible(none)
  <2>1. ToSet(<<>>) = {} /\ Gained({}) = {}
    BY DEF ToSet, Gained
  <2>2. none.picks = <<>> /\ none.gain = 0
    OBVIOUS
  <2>3. DOMAIN none.picks = {}
    BY <2>2
  <2>4. Cardinality(Gained(ToSet(none.picks))) = 0
    BY <2>1, <2>2, FS_EmptySet
  <2> HIDE DEF none
  <2> QED
    BY <2>2, <2>3, <2>4 DEF Feasible
<1>4. generateTopKSet(MaxId) = (CHOOSE t : Is(t))[MaxId]
  BY DEF generateTopKSet
<1> HIDE DEF Step, none
<1>5. G \in [(1 .. MaxId) \X Picks -> Picks]
  BY <1>2
<1>6. \A n \in 1 .. MaxId, acc \in Picks : G[<<n, acc>>] = Step(acc)
  OBVIOUS
<1> HIDE DEF G
<1>7. PICK f : Unfolds(f, MaxId, Picks, none, G)
  BY <1>0, <1>1, <1>5, Recursion
<1>8. Is(f)
  <2>1. f \in [0 .. MaxId -> Picks] /\ f[0] = none /\ \A n \in 1 .. MaxId : f[n] = G[<<n, f[n - 1]>>]
    BY <1>7 DEF Unfolds
  <2>2. \A n \in 0 .. MaxId : n # 0 => n \in 1 .. MaxId /\ n - 1 \in 0 .. MaxId
    BY <1>0
  <2>3. \A n \in 0 .. MaxId : f[n] = IF n = 0 THEN none ELSE Step(f[n - 1])
    BY <1>6, <2>1, <2>2
  <2> QED
    BY <2>1, <2>3
<1> DEFINE t == CHOOSE u : Is(u)
<1>9. Is(t)
  <2> HIDE DEF Is
  <2> QED
    BY <1>8
<1> HIDE DEF t
<1>10. t[0] = none /\ \A n \in 1 .. MaxId : t[n] = Step(t[n - 1])
  <2>1. 0 \in 0 .. MaxId /\ \A n \in 1 .. MaxId : n \in 0 .. MaxId /\ n # 0
    BY <1>0
  <2> QED
    BY <1>9, <2>1
<1> DEFINE Good == {n \in 0 .. MaxId : t[n] \in Picks /\ Feasible(t[n])}
<1>11. 0 .. MaxId \subseteq Good
  <2>1. 0 \in Good
    BY <1>0, <1>1, <1>3, <1>10
  <2>2. ASSUME NEW n \in 1 .. MaxId, n - 1 \in Good PROVE n \in Good
    <3>1. n \in 0 .. MaxId
      BY <1>0
    <3> QED
      BY <1>2, <1>10, <2>2, <3>1
  <2> HIDE DEF Good
  <2> QED
    BY <1>0, <2>1, <2>2, Upward
<1>12. Feasible(t[MaxId])
  BY <1>0, <1>11
<1> QED
  BY <1>4, <1>12 DEF PicksAreFeasible, Feasible, Gained, t

-----------------------------------------------------------------------------
(* The gain in tracks *)

\* What a link, in either direction, leads to is of the set.
Whole(N, S) == \A e \in LinksAmong(N) : e[1] \in S <=> e[2] \in S

\* The issues linked to one are the least such set with it.
LEMMA TogetherIs ==
    ASSUME NEW N \in SUBSET Id, NEW x \in N
    PROVE  TogetherIn(N)[x] = {j \in Id : \A S \in SUBSET Id : x \in S /\ Whole(N, S) => j \in S}
<1>1. LinksAmong(N) \subseteq N \X N
  BY DEF LinksAmong
<1>2. ASSUME NEW S \in SUBSET Id
      PROVE  (\A k \in S : \A m \in Id : {<<k, m>>, <<m, k>>} \cap LinksAmong(N) # {} => m \in S) <=> Whole(N, S)
  <2>1. ASSUME Whole(N, S), NEW k \in S, NEW m \in Id, {<<k, m>>, <<m, k>>} \cap LinksAmong(N) # {}
        PROVE  m \in S
    <3>1. CASE <<k, m>> \in LinksAmong(N)
      BY <2>1, <3>1 DEF Whole
    <3>2. CASE <<m, k>> \in LinksAmong(N)
      BY <2>1, <3>2 DEF Whole
    <3> QED
      BY <2>1, <3>1, <3>2
  <2>2. ASSUME \A k \in S : \A m \in Id : {<<k, m>>, <<m, k>>} \cap LinksAmong(N) # {} => m \in S,
               NEW e \in LinksAmong(N)
        PROVE  e[1] \in S <=> e[2] \in S
    <3>1. e = <<e[1], e[2]>> /\ e[1] \in Id /\ e[2] \in Id
      BY <1>1
    <3>2. \A k, m : <<k, m>> = e => e \in {<<k, m>>, <<m, k>>} /\ e \in {<<m, k>>, <<k, m>>}
      OBVIOUS
    <3>3. e[1] \in S => e[2] \in S
      BY <2>2, <3>1, <3>2
    <3>4. e[2] \in S => e[1] \in S
      BY <2>2, <3>1, <3>2
    <3> QED
      BY <3>3, <3>4
  <2> QED
    BY <2>1, <2>2 DEF Whole
<1>3. TogetherIn(N)[x] =
          {j \in Id : \A S \in SUBSET Id :
              ({x} \subseteq S /\ \A k \in S : \A m \in Id : {<<k, m>>, <<m, k>>} \cap LinksAmong(N) # {} => m \in S)
                  => j \in S}
  BY DEF TogetherIn, Reached
<1> QED
  BY <1>2, <1>3

\* Linked issues are together, and together with nothing but what they are linked to.
LEMMA TogetherHolds ==
    ASSUME NEW N \in SUBSET Id
    PROVE  /\ \A x \in N : x \in TogetherIn(N)[x]
           /\ \A e \in LinksAmong(N) : TogetherIn(N)[e[1]] = TogetherIn(N)[e[2]]
           /\ \A x \in N : \A S \in SUBSET Id : x \in S /\ Whole(N, S) => TogetherIn(N)[x] \subseteq S
<1> DEFINE T == TogetherIn(N)
<1>1. \A x \in N : T[x] = {j \in Id : \A S \in SUBSET Id : x \in S /\ Whole(N, S) => j \in S}
  BY TogetherIs
<1> HIDE DEF T
<1>2. \A x \in N : x \in T[x] /\ \A S \in SUBSET Id : x \in S /\ Whole(N, S) => T[x] \subseteq S
  BY <1>1
<1>3. ASSUME NEW e \in LinksAmong(N) PROVE T[e[1]] = T[e[2]]
  <2>1. e[1] \in N /\ e[2] \in N
    BY DEF LinksAmong
  <2>2. \A S : Whole(N, S) => (e[1] \in S <=> e[2] \in S)
    BY DEF Whole
  <2> QED
    BY <1>1, <2>1, <2>2
<1> QED
  BY <1>2, <1>3 DEF T

\* Two issues have one root exactly if they are together.
LEMMA RootsAreTogether ==
    ASSUME NEW N \in SUBSET Id, NEW x \in N, NEW y \in N
    PROVE  LET p == grouped(N, LinksAmong(N))
           IN  find(p, x) = find(p, y) <=> TogetherIn(N)[x] = TogetherIn(N)[y]
<1> DEFINE E == LinksAmong(N)
           p == grouped(N, E)
           T == TogetherIn(N)
<1>1. E \in SUBSET (N \X N)
  BY DEF LinksAmong
<1>2. /\ p \in Rooted(N)
      /\ \A e \in E : find(p, e[1]) = find(p, e[2])
      /\ (\A e \in E : T[e[1]] = T[e[2]]) => \A z \in N : T[find(p, z)] = T[z]
  BY <1>1, GroupedJoins
<1>3. \A z \in N : T[find(p, z)] = T[z]
  BY <1>2, TogetherHolds
<1>4. ASSUME T[x] = T[y] PROVE find(p, x) = find(p, y)
  <2> DEFINE S == {z \in N : find(p, z) = find(p, x)}
  <2>1. S \in SUBSET Id /\ x \in S
    OBVIOUS
  <2>2. Whole(N, S)
    BY <1>1, <1>2 DEF Whole
  <2>3. T[x] \subseteq S
    BY <2>1, <2>2, TogetherHolds
  <2>4. y \in T[y]
    BY TogetherHolds
  <2> QED
    BY <1>4, <2>3, <2>4
<1> QED
  BY <1>3, <1>4

\* The tracks that are counted are the sets of issues that are together.
LEMMA TracksAreCounted ==
    ASSUME NEW x, NEW A
    PROVE  LET N == Open \ {x}
           IN  countTracks(x, A) = Cardinality({TogetherIn(N)[i] : i \in A \cap N})
<1> DEFINE N == Open \ {x}
           p == grouped(N, LinksAmong(N))
           T == TogetherIn(N)
           M == A \cap N
           roots == {find(p, i) : i \in M}
           groups == {T[i] : i \in M}
           f == [r \in roots |-> T[CHOOSE i \in M : find(p, i) = r]]
<1>1. N \in SUBSET Id
  BY DEF Open
<1>2. \A i, j \in M : find(p, i) = find(p, j) <=> T[i] = T[j]
  BY <1>1, RootsAreTogether
<1>3. countTracks(x, A) = Cardinality(roots)
  BY DEF countTracks
<1>4. IsFiniteSet(M)
  <2>1. IsFiniteSet(Id)
    BY FS_Interval, ReadinessAssumption DEF Id
  <2> QED
    BY <1>1, <2>1, FS_Subset
<1> HIDE DEF N, p, T
<1>5. IsFiniteSet(roots)
  <2> DEFINE g == [i \in M |-> find(p, i)]
  <2>1. g \in Surjection(M, roots)
    BY DEF Surjection
  <2> QED
    BY <1>4, <2>1, FS_Surjection
<1>6. \A i \in M : f[find(p, i)] = T[i]
  <2> SUFFICES ASSUME NEW i \in M PROVE f[find(p, i)] = T[i]
    OBVIOUS
  <2> DEFINE k == CHOOSE j \in M : find(p, j) = find(p, i)
  <2>1. k \in M /\ find(p, k) = find(p, i)
    OBVIOUS
  <2>2. f[find(p, i)] = T[k]
    OBVIOUS
  <2> HIDE DEF k, f
  <2> QED
    BY <1>2, <2>1, <2>2
<1>7. DOMAIN f = roots /\ f = [r \in roots |-> f[r]]
  OBVIOUS
<1> HIDE DEF f
<1>8. f \in Bijection(roots, groups)
  <2>1. f \in [roots -> groups]
    BY <1>6, <1>7
  <2>2. \A r, s \in roots : f[r] = f[s] => r = s
    BY <1>2, <1>6
  <2>3. \A t \in groups : \E r \in roots : f[r] = t
    BY <1>6
  <2> HIDE DEF roots, groups
  <2> QED
    BY <2>1, <2>2, <2>3 DEF Bijection, Injection, Surjection, IsInjective
<1>9. ExistsBijection(roots, groups)
  BY <1>8 DEF ExistsBijection
<1>10. Cardinality(groups) = Cardinality(roots)
  BY <1>5, <1>9, FS_Bijection
<1> QED
  BY <1>3, <1>10 DEF N, T

\* The gain in parallel tracks.
LEMMA ExactGainIsReal ==
    ASSUME Tabled, ComputeIsExact, computed
    PROVE  GainIsReal
<1> DEFINE none == {}
           Tracks(D) == LET left == Open \ D
                        IN  Cardinality({TogetherIn(left)[i] : i \in Actionable(D)})
<1> SUFFICES ASSUME NEW i \in Actionable({}) PROVE ParallelGain(i) = Tracks({i}) - Tracks(none)
  BY DEF GainIsReal
<1>1. i \in Id /\ {i} \in SUBSET Id /\ none \in SUBSET Id
  BY DEF Actionable
<1>2. NoId \notin Id
  BY DEF NoId, Id
<1>3. /\ Actionable(none) \subseteq Open /\ Actionable({i}) \subseteq Open /\ Actionable({i}) \subseteq Id \ {i}
      /\ Actionable(none) \subseteq {i} \cup Actionable({i})
  <2>1. Actionable(none) \subseteq Open /\ \A E \in SUBSET Id : none \subseteq E => Actionable(none) \subseteq E \cup Actionable(E)
    BY <1>1, ActionableGrows
  <2>2. Actionable({i}) \subseteq Open /\ Actionable({i}) \subseteq Id \ {i}
    BY <1>1, ActionableGrows
  <2> QED
    BY <1>1, <2>1, <2>2
<1>4. Open \ {NoId} = Open \ none /\ Actionable(none) \cap (Open \ {NoId}) = Actionable(none)
  BY <1>2, <1>3 DEF Open
<1>5. countTracks(NoId, Actionable(none)) = Tracks(none)
  BY <1>4, TracksAreCounted
<1>6. computeMarginalUnblocks(i, none) = Actionable({i}) \ Actionable(none)
  <2>1. none \cup {i} = {i}
    OBVIOUS
  <2> QED
    BY <2>1 DEF computeMarginalUnblocks
<1>7. ((Actionable(none) \ {i}) \cup computeMarginalUnblocks(i, none)) \cap (Open \ {i}) = Actionable({i})
  BY <1>3, <1>6
<1>8. countTracks(i, (Actionable(none) \ {i}) \cup computeMarginalUnblocks(i, none)) = Tracks({i})
  BY <1>7, TracksAreCounted
<1> QED
  BY <1>5, <1>8 DEF ParallelGain

-----------------------------------------------------------------------------
(* What is unblocked in the end *)

\* What becomes ready when the issues of D are done.
New(D) == Actionable(D) \ Actionable({})

\* The issues that nothing holds up, be they work to do or not, and those that are.
Free(D) == {i \in Id : undone(i, D) /\ TrueState(i, D) = Satisfied}
Fit == {i \in Id : workable(i) /\ IsCandidate(i)}

\* What can be worked on is fit for it and held up by nothing.
LEMMA ActionableIs ==
    ASSUME Tabled, ComputeIsExact, computed, NEW D \in SUBSET Id
    PROVE  Actionable(D) = Free(D) \cap Fit
BY AfterIsExact DEF Actionable, Free, Fit

\* Where the lineage of an issue goes that nothing holds up, nothing is held up.
LEMMA LineageIsReady ==
    ASSUME Tabled, NEW D \in SUBSET Id, NEW m \in Free(D)
    PROVE  /\ Lineage(m, D) \subseteq Free(D)
           /\ OpenParents(m, D) \subseteq Free(D)
           /\ ~InParentCycle(m, D) /\ ~OwnMissing(m)
           /\ \A b \in issues[m].blockers : ~undone(b, D)
<1> DEFINE U == {j \in Id : undone(j, D)}
<1>1. m \in Id /\ undone(m, D) /\ TrueState(m, D) = Satisfied
  BY DEF Free
<1>2. ~Lacks(m, D) /\ ~Waits(m, D)
  BY <1>1, StateUnfolds DEF Val, Satisfied, Unknown, Unsatisfied
<1>3. /\ Lineage(m, D) \subseteq Id /\ m \in Lineage(m, D) /\ OpenParents(m, D) \subseteq Lineage(m, D)
      /\ \A k \in Lineage(m, D) : OpenParents(k, D) \subseteq Lineage(m, D)
  BY <1>1, LineageIsClosed
<1>4. Lineage(m, D) \subseteq U
  <2>1. m \in U /\ U \in SUBSET Id
    BY <1>1
  <2>2. \A k \in U : OpenParents(k, D) \subseteq U
    BY DEF OpenParents, Tabled
  <2> HIDE DEF U
  <2> QED
    BY <1>1, <2>1, <2>2, LineageIsClosed
<1>5. ASSUME NEW k \in Lineage(m, D) PROVE k \in Free(D)
  <2>1. k \in Id /\ undone(k, D)
    BY <1>4
  <2>2. Lineage(k, D) \subseteq Lineage(m, D)
    BY <1>3, <2>1, LineageIsClosed
  <2>3. ~Lacks(k, D) /\ ~Waits(k, D)
    BY <1>2, <2>2 DEF Lacks, Waits
  <2>4. TrueState(k, D) = Satisfied
    BY <2>1, <2>3, StateUnfolds DEF Val
  <2> QED
    BY <2>1, <2>4 DEF Free
<1> QED
  BY <1>2, <1>3, <1>5 DEF Lacks, Waits

\* An issue that the completion of z frees is below one that z freed directly.
LEMMA ReadyHasCause ==
    ASSUME Tabled, NEW D \in SUBSET Id, NEW z \in Id,
           NEW m \in Free(D \cup {z}), m \notin Free(D)
    PROVE  \E k \in Lineage(m, D \cup {z}) :
               k \in Free(D \cup {z}) \ Free(D) /\ k \in cascadeCandidates(z)
<1> DEFINE E == D \cup {z}
           B == Free(D)
<1> SUFFICES ASSUME \A k \in Lineage(m, E) : k \in Free(E) \ B => k \notin cascadeCandidates(z)
             PROVE  FALSE
  OBVIOUS
<1>0. E \in SUBSET Id /\ B \in SUBSET Id
  BY DEF Free
<1>1. m \in Id /\ undone(m, E) /\ TrueState(m, E) = Satisfied /\ undone(m, D)
  BY <1>0 DEF Free, undone
<1>2. ~Lacks(m, E) /\ ~Waits(m, E)
  BY <1>1, StateUnfolds DEF Val, Satisfied, Unknown, Unsatisfied
<1>3. \A k \in Lineage(m, E) : k \in Free(E) /\ k \in Id
  <2>1. Lineage(m, E) \subseteq Free(E)
    BY <1>0, LineageIsReady
  <2> QED
    BY <2>1 DEF Free
<1>4. \A k \in B : OpenParents(k, D) \subseteq B /\ Lineage(k, D) \subseteq B /\ ~InParentCycle(k, D) /\ ~OwnMissing(k)
  BY LineageIsReady
<1>5. \A k \in Free(E) : exists(k)
  BY DEF Free, undone, isOpen
<1>6. ASSUME NEW k \in Lineage(m, E), z \in issues[k].blockers \cup issues[k].parents PROVE k \in B
  BY <1>3, <1>5, <1>6 DEF cascadeCandidates, Known
<1>7. ASSUME NEW k \in Lineage(m, E) \cup B, NEW p \in OpenParents(k, D) PROVE p \in Lineage(m, E) \cup B
  <2>1. CASE k \in B
    BY <1>4, <2>1
  <2>2. CASE k \notin B
    <3>1. p # z
      BY <1>6, <2>2 DEF OpenParents
    <3>2. p \in OpenParents(k, E)
      BY <3>1 DEF OpenParents, undone
    <3> QED
      BY <1>1, <2>2, <3>2, LineageIsClosed
  <2> QED
    BY <2>1, <2>2
<1>8. ASSUME NEW k \in Lineage(m, E) PROVE Lineage(k, D) \subseteq Lineage(k, E) \cup B
  <2> DEFINE S == Lineage(k, E) \cup B
  <2>1. k \in Id
    BY <1>3
  <2>2. Lineage(k, E) \subseteq Lineage(m, E)
    BY <1>1, <2>1, LineageIsClosed
  <2>3. k \in S /\ S \in SUBSET Id
    BY <1>0, <2>1, LineageIsClosed
  <2>4. ASSUME NEW j \in S, NEW p \in OpenParents(j, D) PROVE p \in S
    <3>1. CASE j \in B
      BY <1>4, <2>4, <3>1
    <3>2. CASE j \notin B
      <4>1. p # z
        BY <1>6, <2>2, <2>4, <3>2 DEF OpenParents
      <4>2. p \in OpenParents(j, E)
        BY <2>4, <4>1 DEF OpenParents, undone
      <4> QED
        BY <2>1, <3>2, <4>2, LineageIsClosed
    <3> QED
      BY <3>1, <3>2
  <2> HIDE DEF S
  <2>5. Lineage(k, D) \subseteq S
    BY <2>1, <2>3, <2>4, LineageIsClosed
  <2> QED
    BY <2>5 DEF S
<1>9. Lineage(m, D) \subseteq Lineage(m, E) \cup B
  BY <1>1, <1>8, LineageIsClosed
<1>10. ASSUME NEW k \in Lineage(m, D) PROVE ~OwnMissing(k)
  BY <1>2, <1>4, <1>9 DEF Lacks
<1>11. ASSUME NEW k \in Lineage(m, D), InParentCycle(k, D) PROVE FALSE
  <2>1. k \notin B /\ k \in Lineage(m, E)
    BY <1>4, <1>9, <1>11
  <2>2. PICK p \in OpenParents(k, D) : k \in Lineage(p, D)
    BY <1>11 DEF InParentCycle
  <2>3. p \notin B
    BY <1>4, <2>1, <2>2
  <2>4. p \in Lineage(m, E)
    BY <1>7, <2>1, <2>2, <2>3
  <2>5. k \in Lineage(p, E)
    BY <1>8, <2>1, <2>2, <2>4
  <2>6. p # z
    BY <1>6, <2>1, <2>2 DEF OpenParents
  <2>7. p \in OpenParents(k, E)
    BY <2>2, <2>6 DEF OpenParents, undone
  <2> QED
    BY <1>2, <2>1, <2>5, <2>7 DEF Lacks, InParentCycle
<1>12. ASSUME NEW k \in Lineage(m, D), NEW d \in issues[k].blockers, undone(d, D) PROVE FALSE
  <2>1. k \notin B
    BY <1>12, LineageIsReady
  <2>2. k \in Lineage(m, E)
    BY <1>9, <2>1
  <2>3. d # z
    BY <1>6, <2>1, <2>2
  <2> QED
    BY <1>2, <1>12, <2>2, <2>3 DEF Waits, undone
<1>13. ~Lacks(m, D) /\ ~Waits(m, D)
  BY <1>10, <1>11, <1>12 DEF Lacks, Waits
<1>14. TrueState(m, D) = Satisfied
  BY <1>1, <1>13, StateUnfolds DEF Val
<1> QED
  BY <1>1, <1>14 DEF Free

\* What z cuts off a lineage is above a child of z.
LEMMA LineageIsCut ==
    ASSUME Tabled, NEW D \in SUBSET Id, NEW z \in Id, NEW m \in Id
    PROVE  \/ Lineage(m, D) \subseteq Lineage(m, D \cup {z})
           \/ \E k \in Lineage(m, D \cup {z}) : z \in OpenParents(k, D)
<1> DEFINE S == Lineage(m, D \cup {z})
<1> SUFFICES ASSUME \A k \in S : z \notin OpenParents(k, D) PROVE Lineage(m, D) \subseteq S
  OBVIOUS
<1>1. S \in SUBSET Id /\ m \in S /\ \A k \in S : OpenParents(k, D \cup {z}) \subseteq S
  BY LineageIsClosed
<1>2. \A k \in S : OpenParents(k, D) \subseteq OpenParents(k, D \cup {z})
  BY DEF OpenParents, undone
<1>3. \A k \in S : OpenParents(k, D) \subseteq S
  BY <1>1, <1>2
<1> HIDE DEF S
<1> QED
  BY <1>1, <1>3, LineageIsClosed

\* What is below an issue that was held up can be worked on only now.
LEMMA NewBelow ==
    ASSUME Tabled, ComputeIsExact, computed, NEW D \in SUBSET Id, NEW k \in Actionable(D),
           NEW z \in issues[k].parents, isOpen(z), z \notin Free({})
    PROVE  k \in New(D) /\ k \in cascadeCandidates(z)
<1> DEFINE none == {}
<1>1. none \in SUBSET Id
  OBVIOUS
<1>2. z \in OpenParents(k, none)
  BY DEF OpenParents, undone
<1>3. k \notin Free(none)
  BY <1>1, <1>2, LineageIsReady
<1>4. k \notin Actionable(none)
  BY <1>1, <1>3, ActionableIs
<1>5. k \in Known
  BY DEF Actionable, ReadyAfter, Ready, workable, exists, Known
<1> QED
  BY <1>4, <1>5 DEF New, cascadeCandidates

-----------------------------------------------------------------------------
(* Every issue that is ready but not done has one of C in its lineage,     *)
(* unless it is below one that is not fit to be worked on.                 *)
Awaited(D, C) == \A m \in New(D) \ Hidden(D) : \E k \in Lineage(m, D) : k \in New(D) \cap C

\* The lineage of an issue that is not hidden is fit, and ready with it.
LEMMA PlainIsReady ==
    ASSUME Tabled, ComputeIsExact, computed, NEW D \in SUBSET Id, NEW m \in Actionable(D) \ Hidden(D)
    PROVE  Lineage(m, D) \subseteq Actionable(D)
<1>1. Lineage(m, D) \subseteq Free(D)
  BY ActionableIs, LineageIsReady
<1>2. m \in Fit /\ \A k \in Lineage(m, D) : k \in Id
  BY <1>1, ActionableIs DEF Free
<1>3. \A k \in Lineage(m, D) : k \in Fit
  BY <1>2 DEF Hidden, Fit
<1> QED
  BY <1>1, <1>3, ActionableIs

\* One more issue is done, and its candidates are awaited with the others.
LEMMA DoneAwaits ==
    ASSUME Tabled, ComputeIsExact, computed, NEW D \in SUBSET Id, NEW C, Awaited(D, C),
           NEW z \in New(D)
    PROVE  Awaited(D \cup {z}, (C \ {z}) \cup cascadeCandidates(z))
<1> DEFINE E == D \cup {z}
           none == {}
<1> SUFFICES ASSUME NEW m \in New(E) \ Hidden(E)
             PROVE  \E k \in Lineage(m, E) : k \in New(E) \cap ((C \ {z}) \cup cascadeCandidates(z))
  BY DEF Awaited
<1>0. /\ z \in Id /\ E \in SUBSET Id /\ none \in SUBSET Id /\ m \in Id /\ m \in Actionable(E)
      /\ m \notin Actionable(none) /\ z \in Actionable(D) /\ z \notin Actionable(none)
      /\ none \subseteq D /\ D \subseteq E
  BY DEF New, Actionable
<1>1. Actionable(none) \subseteq D \cup Actionable(D)
  BY <1>0, ActionableGrows
<1>2. Lineage(m, E) \subseteq Actionable(E)
  BY <1>0, PlainIsReady
<1>6. z \notin Free(none)
  BY <1>0, ActionableIs
<1>3. Actionable(E) \cap E = {}
  BY <1>0, ActionableGrows
<1>4. CASE m \notin Actionable(D)
  <2>1. m \in Free(E) \ Free(D)
    BY <1>0, <1>4, ActionableIs
  <2>2. PICK k \in Lineage(m, E) : k \in Free(E) \ Free(D) /\ k \in cascadeCandidates(z)
    BY <1>0, <2>1, ReadyHasCause
  <2>3. k \in Actionable(E) \ Actionable(D)
    BY <1>0, <1>2, <2>2, ActionableIs
  <2>4. k \notin Actionable(none)
    BY <1>1, <1>3, <2>3
  <2> QED
    BY <2>2, <2>3, <2>4 DEF New
<1>5. CASE m \in Actionable(D)
  <2>1. m \in New(D)
    BY <1>0, <1>5 DEF New
  <2>2. CASE Lineage(m, D) \subseteq Lineage(m, E)
    <3>1. m \notin Hidden(D)
      BY <1>0, <2>2 DEF Hidden
    <3>2. PICK k \in Lineage(m, D) : k \in New(D) \cap C
      BY <2>1, <3>1 DEF Awaited
    <3>3. k \in Actionable(E) /\ k # z /\ k \notin Actionable(none)
      BY <1>2, <1>3, <2>2, <3>2 DEF New
    <3> QED
      BY <2>2, <3>2, <3>3 DEF New
  <2>3. CASE ~(Lineage(m, D) \subseteq Lineage(m, E))
    <3>1. PICK j \in Lineage(m, E) : z \in OpenParents(j, D)
      BY <1>0, <2>3, LineageIsCut
    <3>2. j \in Actionable(E) /\ z \in issues[j].parents /\ isOpen(z)
      BY <1>2, <3>1 DEF OpenParents, undone
    <3>3. j \in New(E) /\ j \in cascadeCandidates(z)
      BY <1>0, <1>6, <3>2, NewBelow
    <3> QED
      BY <3>1, <3>3
  <2> QED
    BY <2>2, <2>3
<1> QED
  BY <1>4, <1>5

-----------------------------------------------------------------------------
(* The frontier of the simulation.                                         *)
Frontier == [done : SUBSET Id, queue : Seq(Id)]

\* What the queue will have considered, and what its head has still to consider after n.
Waiting(q) == {k \in Id : \E y \in ToSet(q) : k \in cascadeCandidates(y)}
Rest(h, n) == {k \in cascadeCandidates(h) : k > n}

\* Only what completing b makes ready is done.
Fits(b, acc) == b \in acc.done /\ \A S \in SUBSET Id : b \in S /\ New(S) \subseteq S => acc.done \subseteq S

AfterCandidate(h, n, acc) == IF n \in cascadeCandidates(h) THEN considered(acc, n) ELSE acc

Grown(acc, next) ==
    Len(next.queue) + Cardinality(acc.done) = Len(acc.queue) + Cardinality(next.done)

\* One candidate of the head is considered.
LEMMA CandidateAwaits ==
    ASSUME Tabled, ComputeIsExact, computed, NEW b, NEW h \in Id, NEW n \in Id, NEW acc \in Frontier,
           Fits(b, acc), Awaited(acc.done, Waiting(acc.queue) \cup Rest(h, n - 1))
    PROVE  LET next == AfterCandidate(h, n, acc)
           IN  /\ next \in Frontier /\ Fits(b, next) /\ Grown(acc, next)
               /\ Awaited(next.done, Waiting(next.queue) \cup Rest(h, n))
<1> DEFINE D == acc.done
           q == acc.queue
           C == Waiting(q) \cup Rest(h, n - 1)
           next == AfterCandidate(h, n, acc)
           none == {}
<1>0. D \in SUBSET Id /\ q \in Seq(Id) /\ none \in SUBSET Id /\ none \subseteq D /\ IsFiniteSet(Id)
  BY FS_Interval, ReadinessAssumption DEF Frontier, Id
<1>1. Id \subseteq Nat /\ n \in Nat /\ Len(q) \in Nat
  BY <1>0 DEF Id
<1>2. n \in New(D) <=> ~(n \in D \/ n \in Actionable({}) \/ n \notin Actionable(D))
  <2>1. Actionable(D) \cap D = {}
    BY <1>0, ActionableGrows
  <2> QED
    BY <2>1 DEF New
<1>3. ASSUME NEW k \in C, ~(k = n /\ k \in cascadeCandidates(h)) PROVE k \in Waiting(q) \cup Rest(h, n)
  <2>1. k \in Id
    BY DEF Waiting, Rest, cascadeCandidates, Known
  <2>2. k \in Rest(h, n - 1) => k \in cascadeCandidates(h) /\ k > n - 1
    BY DEF Rest
  <2>3. k # n /\ k > n - 1 => k > n
    BY <1>1, <2>1
  <2> QED
    BY <1>3, <2>2, <2>3 DEF Rest
<1>4. CASE n \in cascadeCandidates(h) /\ n \in New(D)
  <2>1. next = [done |-> D \cup {n}, queue |-> Append(q, n)]
    BY <1>2, <1>4 DEF AfterCandidate, considered
  <2>2. n \notin D /\ n \in Actionable(D) /\ n \notin Actionable(none)
    BY <1>2, <1>4 DEF New
  <2>3. next \in Frontier
    BY <1>0, <2>1 DEF Frontier
  <2>4. ASSUME NEW S \in SUBSET Id, b \in S, New(S) \subseteq S PROVE D \cup {n} \subseteq S
    <3>1. D \subseteq S
      BY <2>4 DEF Fits
    <3>2. Actionable(D) \subseteq S \cup Actionable(S)
      BY <1>0, <2>4, <3>1, ActionableGrows
    <3> QED
      BY <2>2, <2>4, <3>1, <3>2 DEF New
  <2>5. Fits(b, next)
    BY <2>1, <2>4 DEF Fits
  <2>6. ToSet(Append(q, n)) = ToSet(q) \cup {n}
    <3>1. /\ Len(Append(q, n)) = Len(q) + 1 /\ DOMAIN Append(q, n) = 1 .. Len(q) + 1 /\ DOMAIN q = 1 .. Len(q)
          /\ \A k \in 1 .. Len(q) : Append(q, n)[k] = q[k]
          /\ Append(q, n)[Len(q) + 1] = n
      BY <1>0
    <3> QED
      BY <1>1, <3>1 DEF ToSet
  <2>7. (C \ {n}) \cup cascadeCandidates(n) \subseteq Waiting(Append(q, n)) \cup Rest(h, n)
    <3>1. Waiting(q) \subseteq Waiting(Append(q, n))
      BY <2>6 DEF Waiting
    <3>2. cascadeCandidates(n) \subseteq Waiting(Append(q, n))
      BY <2>6 DEF Waiting, cascadeCandidates, Known
    <3> QED
      BY <1>3, <3>1, <3>2
  <2>8. Awaited(D \cup {n}, (C \ {n}) \cup cascadeCandidates(n))
    BY <1>0, <1>4, DoneAwaits
  <2>9. Awaited(D \cup {n}, Waiting(Append(q, n)) \cup Rest(h, n))
    BY <2>7, <2>8 DEF Awaited
  <2>10. Grown(acc, next)
    <3>1. IsFiniteSet(D) /\ Cardinality(D) \in Nat
      BY <1>0, FS_Subset, FS_CardinalityType
    <3>2. Cardinality(D \cup {n}) = Cardinality(D) + 1
      BY <2>2, <3>1, FS_AddElement
    <3>3. Len(Append(q, n)) = Len(q) + 1
      BY <1>0
    <3>4. next.done = D \cup {n} /\ next.queue = Append(q, n)
      BY <2>1
    <3>5. Len(next.queue) = Len(q) + 1 /\ Cardinality(next.done) = Cardinality(D) + 1
      BY <3>2, <3>3, <3>4
    <3>6. \A l, m \in Nat : (l + 1) + m = l + (m + 1)
      OBVIOUS
    <3> HIDE DEF next
    <3> QED
      BY <1>1, <3>1, <3>5, <3>6 DEF Grown
  <2> QED
    BY <2>1, <2>3, <2>5, <2>9, <2>10
<1>5. CASE ~(n \in cascadeCandidates(h) /\ n \in New(D))
  <2>1. next = acc
    BY <1>2, <1>5 DEF AfterCandidate, considered
  <2>2. Awaited(D, Waiting(q) \cup Rest(h, n))
    <3> SUFFICES ASSUME NEW m \in New(D) \ Hidden(D)
                 PROVE  \E k \in Lineage(m, D) : k \in New(D) \cap (Waiting(q) \cup Rest(h, n))
      BY DEF Awaited
    <3>1. PICK k \in Lineage(m, D) : k \in New(D) \cap C
      BY DEF Awaited
    <3> QED
      BY <1>3, <1>5, <3>1
  <2>3. Grown(acc, acc)
    BY DEF Grown
  <2> QED
    BY <2>1, <2>2, <2>3
<1> QED
  BY <1>4, <1>5

\* Grown from one frontier to the next, and to the next again.
LEMMA GrowsOn ==
    ASSUME NEW a \in Frontier, NEW b \in Frontier, NEW c \in Frontier, Grown(a, b), Grown(b, c)
    PROVE  Grown(a, c)
<1>1. IsFiniteSet(Id)
  BY FS_Interval, ReadinessAssumption DEF Id
<1>2. \A x \in Frontier : Len(x.queue) \in Nat /\ Cardinality(x.done) \in Nat
  BY <1>1, FS_Subset, FS_CardinalityType DEF Frontier
<1>3. /\ Len(a.queue) \in Nat /\ Cardinality(a.done) \in Nat
      /\ Len(b.queue) \in Nat /\ Cardinality(b.done) \in Nat
      /\ Len(c.queue) \in Nat /\ Cardinality(c.done) \in Nat
  BY <1>2
<1>4. /\ Len(b.queue) + Cardinality(a.done) = Len(a.queue) + Cardinality(b.done)
      /\ Len(c.queue) + Cardinality(b.done) = Len(b.queue) + Cardinality(c.done)
  BY DEF Grown
<1>5. Len(c.queue) + Cardinality(a.done) = Len(a.queue) + Cardinality(c.done)
  <2> DEFINE la == Len(a.queue)
             lb == Len(b.queue)
             lc == Len(c.queue)
             ca == Cardinality(a.done)
             cb == Cardinality(b.done)
             cc == Cardinality(c.done)
  <2>1. /\ la \in Nat /\ lb \in Nat /\ lc \in Nat /\ ca \in Nat /\ cb \in Nat /\ cc \in Nat
        /\ lb + ca = la + cb /\ lc + cb = lb + cc
    BY <1>3, <1>4
  <2> HIDE DEF la, lb, lc, ca, cb, cc
  <2>2. lc + ca = la + cc
    BY <2>1
  <2> QED
    BY <2>2 DEF la, lc, ca, cc
<1> QED
  BY <1>5 DEF Grown

\* A round with the head of the queue.
LEMMA RoundAwaits ==
    ASSUME Tabled, ComputeIsExact, computed, NEW b, NEW acc \in Frontier, acc.queue # <<>>,
           Fits(b, acc), Awaited(acc.done, Waiting(acc.queue))
    PROVE  LET next == frontierRound(acc)
           IN  /\ next \in Frontier /\ Fits(b, next)
               /\ Awaited(next.done, Waiting(next.queue))
               /\ Len(next.queue) + Cardinality(acc.done) = Len(acc.queue) - 1 + Cardinality(next.done)
<1> DEFINE h == Head(acc.queue)
           first == [done |-> acc.done, queue |-> Tail(acc.queue)]
           Body(up, n) ==
               IF n = 0 THEN first
               ELSE IF n \in cascadeCandidates(h) THEN considered(up[n - 1], n)
               ELSE up[n - 1]
           Is(up) == up = [n \in 0 .. MaxId |-> Body(up, n)]
           G == [x \in (1 .. MaxId) \X Frontier |-> AfterCandidate(h, x[1], x[2])]
<1>0. MaxId \in Nat /\ Id = 1 .. MaxId
  BY ReadinessAssumption DEF Id
<1>1. /\ acc.queue \in Seq(Id) /\ h \in Id /\ Tail(acc.queue) \in Seq(Id)
      /\ Len(acc.queue) \in Nat /\ Len(Tail(acc.queue)) = Len(acc.queue) - 1
  BY DEF Frontier
<1>2. first \in Frontier /\ Fits(b, first)
  BY <1>1 DEF Frontier, Fits
<1>17. \A k \in cascadeCandidates(h) : k \in 1 .. MaxId
  BY <1>0 DEF cascadeCandidates, Known
<1>3. Awaited(first.done, Waiting(first.queue) \cup Rest(h, 0))
  <2>1. ToSet(acc.queue) \subseteq {h} \cup ToSet(Tail(acc.queue))
    <3> SUFFICES ASSUME NEW k \in DOMAIN acc.queue PROVE acc.queue[k] \in {h} \cup ToSet(Tail(acc.queue))
      BY DEF ToSet
    <3>1. k \in 1 .. Len(acc.queue) /\ DOMAIN Tail(acc.queue) = 1 .. Len(acc.queue) - 1
      BY <1>1
    <3>2. k = 1 => acc.queue[k] = h
      BY <1>1
    <3>3. k # 1 => k - 1 \in DOMAIN Tail(acc.queue) /\ Tail(acc.queue)[k - 1] = acc.queue[k]
      BY <1>1, <3>1
    <3> QED
      BY <3>2, <3>3 DEF ToSet
  <2>2. Rest(h, 0) = cascadeCandidates(h)
    <3> HIDE DEF h
    <3>1. \A k \in cascadeCandidates(h) : k > 0
      BY <1>0, <1>17
    <3> QED
      BY <3>1 DEF Rest
  <2>3. Waiting(acc.queue) \subseteq Waiting(Tail(acc.queue)) \cup Rest(h, 0)
    BY <2>1, <2>2 DEF Waiting
  <2> QED
    BY <2>3 DEF Awaited
<1>4. \A n \in 1 .. MaxId, a \in Frontier : AfterCandidate(h, n, a) \in Frontier
  <2> SUFFICES ASSUME NEW n \in 1 .. MaxId, NEW a \in Frontier PROVE AfterCandidate(h, n, a) \in Frontier
    OBVIOUS
  <2>1. a.done \cup {n} \in SUBSET Id /\ Append(a.queue, n) \in Seq(Id)
    BY <1>0 DEF Frontier
  <2> QED
    BY <2>1 DEF AfterCandidate, considered, Frontier
<1>5. frontierRound(acc) = (CHOOSE up : Is(up))[MaxId]
  BY DEF frontierRound
<1> HIDE DEF h, first
<1>6. G \in [(1 .. MaxId) \X Frontier -> Frontier]
  BY <1>4
<1>7. \A n \in 1 .. MaxId, a \in Frontier : G[<<n, a>>] = AfterCandidate(h, n, a)
  OBVIOUS
<1> HIDE DEF G
<1>8. PICK f : Unfolds(f, MaxId, Frontier, first, G)
  BY <1>0, <1>2, <1>6, Recursion
<1>9. Is(f)
  <2>1. f \in [0 .. MaxId -> Frontier] /\ f[0] = first /\ \A n \in 1 .. MaxId : f[n] = G[<<n, f[n - 1]>>]
    BY <1>8 DEF Unfolds
  <2>2. \A n \in 0 .. MaxId : n # 0 => n \in 1 .. MaxId /\ n - 1 \in 0 .. MaxId
    BY <1>0
  <2>3. \A n \in 0 .. MaxId : f[n] = Body(f, n)
    BY <1>7, <2>1, <2>2 DEF AfterCandidate
  <2> QED
    BY <2>1, <2>3
<1> DEFINE t == CHOOSE up : Is(up)
<1>10. Is(t)
  <2> HIDE DEF Is
  <2> QED
    BY <1>9
<1> HIDE DEF t
<1>11. t[0] = first /\ \A n \in 1 .. MaxId : t[n] = AfterCandidate(h, n, t[n - 1])
  <2>1. 0 \in 0 .. MaxId /\ \A n \in 1 .. MaxId : n \in 0 .. MaxId /\ n # 0
    BY <1>0
  <2> QED
    BY <1>10, <2>1 DEF AfterCandidate
<1> DEFINE Good(n) == /\ t[n] \in Frontier /\ Fits(b, t[n]) /\ Grown(first, t[n])
                      /\ Awaited(t[n].done, Waiting(t[n].queue) \cup Rest(h, n))
           All == {n \in 0 .. MaxId : Good(n)}
<1>12. 0 .. MaxId \subseteq All
  <2>1. 0 \in All
    <3>1. Grown(first, first)
      BY DEF Grown
    <3>2. Good(0)
      BY <1>2, <1>3, <1>11, <3>1
    <3> HIDE DEF Good
    <3> QED
      BY <1>0, <3>2
  <2>2. ASSUME NEW n \in 1 .. MaxId, n - 1 \in All PROVE n \in All
    <3>1. n \in 0 .. MaxId /\ n \in Id /\ Good(n - 1)
      BY <1>0, <2>2
    <3> DEFINE a == t[n - 1]
    <3>2. t[n] = AfterCandidate(h, n, a)
      BY <1>11
    <3>3. a \in Frontier /\ Fits(b, a) /\ Grown(first, a) /\ Awaited(a.done, Waiting(a.queue) \cup Rest(h, n - 1))
      BY <3>1
    <3>4. h \in Id
      BY <1>1 DEF h
    <3> HIDE DEF a, Good
    <3> DEFINE step == AfterCandidate(h, n, a)
    <3>7. /\ step \in Frontier /\ Fits(b, step) /\ Grown(a, step)
          /\ Awaited(step.done, Waiting(step.queue) \cup Rest(h, n))
      BY <3>1, <3>3, <3>4, CandidateAwaits
    <3> HIDE DEF step
    <3>5. /\ t[n] \in Frontier /\ Fits(b, t[n]) /\ Grown(a, t[n])
          /\ Awaited(t[n].done, Waiting(t[n].queue) \cup Rest(h, n))
      BY <3>2, <3>7 DEF step
    <3>6. Grown(first, t[n])
      BY <1>2, <3>3, <3>5, GrowsOn
    <3> QED
      BY <3>1, <3>5, <3>6 DEF Good
  <2> HIDE DEF All
  <2> QED
    BY <1>0, <2>1, <2>2, Upward
<1> DEFINE next == t[MaxId]
<1>13. /\ next \in Frontier /\ Fits(b, next) /\ Grown(first, next)
       /\ Awaited(next.done, Waiting(next.queue) \cup Rest(h, MaxId))
  <2>1. MaxId \in All
    <3> HIDE DEF All
    <3> QED
      BY <1>0, <1>12
  <2>2. Good(MaxId)
    <3> HIDE DEF Good
    <3> QED
      BY <2>1
  <2> QED
    BY <2>2
<1>14. frontierRound(acc) = next
  BY <1>5 DEF t
<1> HIDE DEF next
<1>15. Awaited(next.done, Waiting(next.queue))
  <2>1. Rest(h, MaxId) = {}
    <3>1. \A k \in cascadeCandidates(h) : ~(k > MaxId)
      BY <1>0, <1>17
    <3> QED
      BY <3>1 DEF Rest
  <2> QED
    BY <1>13, <2>1
<1>16. Len(next.queue) + Cardinality(acc.done) = Len(acc.queue) - 1 + Cardinality(next.done)
  BY <1>1, <1>13 DEF Grown, first
<1> QED
  BY <1>13, <1>14, <1>15, <1>16

\* The simulation ends with nothing but what can be done in the end; the closure with
\* everything.
Simulates(b, done) ==
    /\ b \in done /\ done \in SUBSET Id
    /\ \A S \in SUBSET Id : b \in S /\ New(S) \subseteq S => done \subseteq S

\* The queue is empty in the end, so nothing that has become ready still waits for its cause,
\* unless it is hidden.
LEMMA SimulationIsWhole ==
    ASSUME Tabled, ComputeIsExact, computed, NEW b \in Id, isOpen(b)
    PROVE  \E done : /\ Simulates(b, done) /\ New(done) \subseteq Hidden(done)
                     /\ transitiveUnblocks(b) = done \ {b}
<1> DEFINE first == [done |-> {b}, queue |-> <<b>>]
           Is(t) == t = [n \in 0 .. MaxId |-> IF n = 0 THEN first ELSE frontierRound(t[n - 1])]
           Inv(n, acc) == /\ acc \in Frontier /\ Fits(b, acc)
                          /\ Awaited(acc.done, Waiting(acc.queue))
                          /\ acc.queue = <<>> \/ n + Len(acc.queue) = Cardinality(acc.done)
           Ok == {acc \in Frontier : Fits(b, acc) /\ Awaited(acc.done, Waiting(acc.queue))}
           G == [x \in (1 .. MaxId) \X Ok |-> frontierRound(x[2])]
           none == {}
<1>0. MaxId \in Nat /\ Id = 1 .. MaxId /\ IsFiniteSet(Id) /\ Cardinality(Id) = MaxId
  BY FS_Interval, ReadinessAssumption DEF Id
<1>1. first \in Frontier /\ Fits(b, first) /\ Len(first.queue) = 1 /\ Cardinality(first.done) = 1
  BY FS_Singleton DEF Frontier, Fits
<1>2. Awaited(first.done, Waiting(first.queue))
  <2>1. ToSet(<<b>>) = {b}
    BY DEF ToSet
  <2>2. Waiting(<<b>>) = cascadeCandidates(b)
    BY <2>1 DEF Waiting, cascadeCandidates, Known
  <2> SUFFICES ASSUME NEW m \in New({b}) \ Hidden({b})
               PROVE  \E k \in Lineage(m, {b}) : k \in New({b}) \cap cascadeCandidates(b)
    BY <2>2 DEF Awaited
  <2>3. none \in SUBSET Id /\ none \cup {b} = {b}
    OBVIOUS
  <2>4. m \in Actionable({b}) \ Actionable(none)
    BY DEF New
  <2> HIDE DEF none
  <2>5. {b} \in SUBSET Id
    OBVIOUS
  <2>6. m \in Free({b}) \ Free(none)
    BY <2>3, <2>4, <2>5, ActionableIs
  <2>7. PICK k \in Lineage(m, {b}) : k \in Free({b}) \ Free(none) /\ k \in cascadeCandidates(b)
    BY <2>3, <2>6, ReadyHasCause
  <2>8. k \in Actionable({b}) \ Actionable(none)
    BY <2>3, <2>4, <2>5, <2>7, PlainIsReady, ActionableIs
  <2> QED
    BY <2>7, <2>8 DEF New, none
<1>3. ASSUME NEW n \in Nat, NEW acc, Inv(n, acc) PROVE Inv(n + 1, frontierRound(acc))
  <2>1. CASE acc.queue = <<>>
    BY <1>3, <2>1 DEF frontierRound
  <2>2. CASE acc.queue # <<>>
    <3> DEFINE next == frontierRound(acc)
    <3>1. /\ next \in Frontier /\ Fits(b, next) /\ Awaited(next.done, Waiting(next.queue))
          /\ Len(next.queue) + Cardinality(acc.done) = Len(acc.queue) - 1 + Cardinality(next.done)
      BY <1>3, <2>2, RoundAwaits
    <3> HIDE DEF next
    <3>2. n + 1 + Len(next.queue) = Cardinality(next.done)
      <4> DEFINE la == Len(acc.queue)
                 ln == Len(next.queue)
                 ca == Cardinality(acc.done)
                 cn == Cardinality(next.done)
      <4>1. \A x \in Frontier : Len(x.queue) \in Nat /\ Cardinality(x.done) \in Nat
        BY <1>0, FS_Subset, FS_CardinalityType DEF Frontier
      <4>2. la \in Nat /\ ln \in Nat /\ ca \in Nat /\ cn \in Nat
        BY <1>3, <3>1, <4>1
      <4>3. n + la = ca /\ ln + ca = la - 1 + cn
        BY <1>3, <2>2, <3>1
      <4> HIDE DEF la, ln, ca, cn
      <4>4. n + 1 + ln = cn
        BY <4>2, <4>3
      <4> QED
        BY <4>4 DEF ln, cn
    <3> QED
      BY <3>1, <3>2 DEF next
  <2> QED
    BY <2>1, <2>2
<1>4. Inv(0, first)
  BY <1>1, <1>2
<1>5. transitiveUnblocks(b) = (CHOOSE t : Is(t))[MaxId].done \ {b}
  BY DEF transitiveUnblocks
<1> HIDE DEF first
<1>6. G \in [(1 .. MaxId) \X Ok -> Ok]
  <2> SUFFICES ASSUME NEW acc \in Ok PROVE frontierRound(acc) \in Ok
    OBVIOUS
  <2>1. CASE acc.queue = <<>>
    BY <2>1 DEF frontierRound
  <2>2. CASE acc.queue # <<>>
    BY <2>2, RoundAwaits
  <2> QED
    BY <2>1, <2>2
<1>7. \A n \in 1 .. MaxId, a \in Ok : G[<<n, a>>] = frontierRound(a)
  OBVIOUS
<1>8. first \in Ok
  BY <1>1, <1>2
<1> HIDE DEF G, Ok
<1>9. PICK f : Unfolds(f, MaxId, Ok, first, G)
  BY <1>0, <1>6, <1>8, Recursion
<1>10. Is(f)
  <2>1. f \in [0 .. MaxId -> Ok] /\ f[0] = first /\ \A n \in 1 .. MaxId : f[n] = G[<<n, f[n - 1]>>]
    BY <1>9 DEF Unfolds
  <2>2. \A n \in 0 .. MaxId : n # 0 => n \in 1 .. MaxId /\ n - 1 \in 0 .. MaxId
    BY <1>0
  <2>3. \A n \in 0 .. MaxId : f[n] = IF n = 0 THEN first ELSE frontierRound(f[n - 1])
    BY <1>7, <2>1, <2>2
  <2> QED
    BY <2>1, <2>3
<1> DEFINE t == CHOOSE u : Is(u)
<1>11. Is(t)
  <2> HIDE DEF Is
  <2> QED
    BY <1>10
<1> HIDE DEF t
<1>12. t[0] = first /\ \A n \in 1 .. MaxId : t[n] = frontierRound(t[n - 1])
  <2>1. 0 \in 0 .. MaxId /\ \A n \in 1 .. MaxId : n \in 0 .. MaxId /\ n # 0
    BY <1>0
  <2> QED
    BY <1>11, <2>1
<1> DEFINE Good == {n \in 0 .. MaxId : Inv(n, t[n])}
<1>13. 0 .. MaxId \subseteq Good
  <2> HIDE DEF Inv
  <2>1. 0 \in Good
    BY <1>0, <1>4, <1>12
  <2>2. ASSUME NEW n \in 1 .. MaxId, n - 1 \in Good PROVE n \in Good
    <3>1. n \in 0 .. MaxId /\ n - 1 \in Nat /\ n - 1 + 1 = n /\ Inv(n - 1, t[n - 1])
      BY <1>0, <2>2
    <3>2. Inv(n - 1 + 1, frontierRound(t[n - 1]))
      BY <1>3, <3>1
    <3>3. Inv(n, t[n])
      BY <1>12, <3>1, <3>2
    <3> QED
      BY <3>1, <3>3
  <2> HIDE DEF Good
  <2> QED
    BY <1>0, <2>1, <2>2, Upward
<1> DEFINE last == t[MaxId]
           done == last.done
<1>14. Inv(MaxId, last)
  <2>1. MaxId \in Good
    <3> HIDE DEF Good
    <3> QED
      BY <1>0, <1>13
  <2> HIDE DEF Inv
  <2> QED
    BY <2>1
<1>15. done \in SUBSET Id /\ Fits(b, last) /\ Awaited(done, Waiting(last.queue)) /\ last.queue \in Seq(Id)
  BY <1>14 DEF Frontier
<1>16. last.queue = <<>>
  <2> SUFFICES ASSUME last.queue # <<>> PROVE FALSE
    OBVIOUS
  <2> DEFINE l == Len(last.queue)
             c == Cardinality(done)
  <2>1. l \in Nat /\ l # 0
    BY <1>15
  <2>2. c \in Nat /\ c <= MaxId
    BY <1>0, <1>15, FS_Subset, FS_CardinalityType
  <2>3. MaxId + l = c
    BY <1>14
  <2> HIDE DEF l, c
  <2> QED
    BY <1>0, <2>1, <2>2, <2>3
<1>17. Waiting(last.queue) = {}
  <2>1. ToSet(<<>>) = {}
    BY DEF ToSet
  <2> QED
    BY <1>16, <2>1 DEF Waiting
<1>18. New(done) \subseteq Hidden(done)
  BY <1>15, <1>17 DEF Awaited
<1>19. Simulates(b, done)
  BY <1>15 DEF Simulates, Fits
<1>20. transitiveUnblocks(b) = done \ {b}
  BY <1>5 DEF t
<1> HIDE DEF done
<1> QED
  BY <1>18, <1>19, <1>20

\* Round after round, the closure is reached.
LEMMA CascadeIsWhole ==
    ASSUME Tabled, ComputeIsExact, computed, NEW b \in Id
    PROVE  \E done : /\ b \in done /\ done \in SUBSET Id /\ New(done) \subseteq done
                     /\ Cascade(b) = done \ {b}
<1> DEFINE Is(t) == t = [n \in 0 .. MaxId |->
                           IF n = 0 THEN {b} ELSE t[n - 1] \cup (Actionable(t[n - 1]) \ Actionable({}))]
           Step(D) == D \cup New(D)
           G == [x \in (1 .. MaxId) \X SUBSET Id |-> Step(x[2])]
<1>0. MaxId \in Nat /\ Id = 1 .. MaxId /\ IsFiniteSet(Id) /\ Cardinality(Id) = MaxId
  BY FS_Interval, ReadinessAssumption DEF Id
<1>1. \A D \in SUBSET Id : Step(D) \in SUBSET Id
  BY DEF New, Actionable
<1>2. Cascade(b) = (CHOOSE t : Is(t))[MaxId] \ {b}
  BY DEF Cascade
<1>3. \A D : Step(D) = D \cup (Actionable(D) \ Actionable({}))
  BY DEF New
<1> HIDE DEF Step
<1>6. G \in [(1 .. MaxId) \X SUBSET Id -> SUBSET Id]
  BY <1>1
<1>7. \A n \in 1 .. MaxId, D \in SUBSET Id : G[<<n, D>>] = Step(D)
  OBVIOUS
<1>8. {b} \in SUBSET Id
  OBVIOUS
<1> HIDE DEF G
<1>9. PICK f : Unfolds(f, MaxId, SUBSET Id, {b}, G)
  BY <1>0, <1>6, <1>8, Recursion
<1>10. Is(f)
  <2>1. f \in [0 .. MaxId -> SUBSET Id] /\ f[0] = {b} /\ \A n \in 1 .. MaxId : f[n] = G[<<n, f[n - 1]>>]
    BY <1>9 DEF Unfolds
  <2>2. \A n \in 0 .. MaxId : n # 0 => n \in 1 .. MaxId /\ n - 1 \in 0 .. MaxId
    BY <1>0
  <2>3. \A n \in 0 .. MaxId : f[n] = IF n = 0 THEN {b} ELSE f[n - 1] \cup (Actionable(f[n - 1]) \ Actionable({}))
    BY <1>3, <1>7, <2>1, <2>2
  <2> QED
    BY <2>1, <2>3
<1> DEFINE t == CHOOSE u : Is(u)
<1>11. Is(t)
  <2> HIDE DEF Is
  <2> QED
    BY <1>10
<1> HIDE DEF t
<1>12. t[0] = {b} /\ \A n \in 1 .. MaxId : t[n] = Step(t[n - 1])
  <2>1. 0 \in 0 .. MaxId /\ \A n \in 1 .. MaxId : n \in 0 .. MaxId /\ n # 0
    BY <1>0
  <2> QED
    BY <1>3, <1>11, <2>1
<1> DEFINE Good == {n \in 0 .. MaxId :
                       /\ b \in t[n] /\ t[n] \in SUBSET Id
                       /\ \A S \in SUBSET Id : b \in S /\ New(S) \subseteq S => t[n] \subseteq S
                       /\ New(t[n]) \subseteq t[n] \/ Cardinality(t[n]) > n}
<1>13. 0 .. MaxId \subseteq Good
  <2>1. 0 \in Good
    <3>1. Cardinality({b}) > 0
      BY FS_Singleton
    <3>2. t[0] = {b} /\ 0 \in 0 .. MaxId
      BY <1>0, <1>12
    <3>3. Cardinality(t[0]) > 0
      BY <3>1, <3>2
    <3>4. b \in t[0] /\ t[0] \in SUBSET Id /\ \A S : b \in S => t[0] \subseteq S
      BY <3>2
    <3> QED
      BY <3>2, <3>3, <3>4
  <2>2. ASSUME NEW n \in 1 .. MaxId, n - 1 \in Good PROVE n \in Good
    <3> DEFINE D == t[n - 1]
               E == t[n]
    <3>1. /\ b \in D /\ D \in SUBSET Id /\ n \in 0 .. MaxId
          /\ \A S \in SUBSET Id : b \in S /\ New(S) \subseteq S => D \subseteq S
          /\ New(D) \subseteq D \/ Cardinality(D) > n - 1
      BY <1>0, <2>2
    <3>2. E = D \cup New(D) /\ E \in SUBSET Id
      BY <1>1, <1>12, <3>1 DEF Step
    <3>3. ASSUME NEW S \in SUBSET Id, b \in S, New(S) \subseteq S PROVE E \subseteq S
      <4>1. D \subseteq S
        BY <3>1, <3>3
      <4>2. Actionable(D) \subseteq S \cup Actionable(S)
        BY <3>1, <4>1, ActionableGrows
      <4> QED
        BY <3>2, <3>3, <4>1, <4>2 DEF New
    <3> HIDE DEF D, E
    <3>4. New(E) \subseteq E \/ Cardinality(E) > n
      <4>1. CASE New(D) \subseteq D
        <5>1. E = D
          BY <3>2, <4>1
        <5> QED
          BY <4>1, <5>1
      <4>2. CASE ~(New(D) \subseteq D)
        <5>1. IsFiniteSet(E) /\ D \subseteq E /\ D # E /\ IsFiniteSet(D)
          BY <1>0, <3>1, <3>2, <4>2, FS_Subset
        <5>2. Cardinality(D) < Cardinality(E) /\ Cardinality(D) \in Nat /\ Cardinality(E) \in Nat
          BY <5>1, FS_Subset, FS_CardinalityType
        <5>3. Cardinality(D) > n - 1 /\ n \in Nat
          BY <1>0, <3>1, <4>2
        <5> QED
          BY <5>2, <5>3
      <4> QED
        BY <4>1, <4>2
    <3> QED
      BY <3>1, <3>2, <3>3, <3>4 DEF D, E
  <2> HIDE DEF Good
  <2> QED
    BY <1>0, <2>1, <2>2, Upward
<1> DEFINE done == t[MaxId]
<1>14. MaxId \in Good
  <2> HIDE DEF Good
  <2> QED
    BY <1>0, <1>13
<1>15. ~(Cardinality(done) > MaxId)
  <2>1. done \in SUBSET Id
    BY <1>14
  <2> HIDE DEF done
  <2>2. Cardinality(done) \in Nat /\ Cardinality(done) <= MaxId
    BY <1>0, <2>1, FS_Subset, FS_CardinalityType
  <2> QED
    BY <1>0, <2>2
<1>16. b \in done /\ done \in SUBSET Id /\ New(done) \subseteq done
  BY <1>14, <1>15
<1>17. Cascade(b) = done \ {b}
  BY <1>2 DEF t
<1> HIDE DEF done
<1> QED
  BY <1>16, <1>17

\* What completing an issue unblocks, at once and in the end.
LEMMA ExactUnblocksAreReal ==
    ASSUME Tabled, ComputeIsExact, computed
    PROVE  UnblocksAreReal
<1> SUFFICES ASSUME NEW b \in Id, isOpen(b)
             PROVE  LET found == transitiveUnblocks(b)
                        all == found \cup {b}
                    IN  /\ found \subseteq Cascade(b)
                        /\ Actionable(all) \ Actionable({}) \subseteq Hidden(all)
  BY ExactUnblocksAreNew DEF UnblocksAreReal
<1>1. PICK D : Simulates(b, D) /\ New(D) \subseteq Hidden(D) /\ transitiveUnblocks(b) = D \ {b}
  BY SimulationIsWhole
<1>2. PICK E : b \in E /\ E \in SUBSET Id /\ New(E) \subseteq E /\ Cascade(b) = E \ {b}
  BY CascadeIsWhole
<1>3. D \subseteq E /\ b \in D
  BY <1>1, <1>2 DEF Simulates
<1>4. transitiveUnblocks(b) \cup {b} = D
  BY <1>1, <1>3
<1> QED
  BY <1>1, <1>2, <1>3, <1>4 DEF New

-----------------------------------------------------------------------------
(* The chain of blockers *)

\* The calls of a walk over blockers, whatever its memo holds.
CallsOver(M) == [issue : Id, visiting : SUBSET Id, memo : M]

\* A call for a blocker has less room.
LEMMA BlockerHasLessRoom ==
    ASSUME NEW M, NEW c \in CallsOver(M)
    PROVE  /\ Room(c) \in 1 .. MaxId + 1
           /\ \A n \in Id, memo \in M :
                 /\ upCall(n, c, memo) \in CallsOver(M)
                 /\ c.issue \notin c.visiting => Room(upCall(n, c, memo)) = Room(c) - 1
<1>1. MaxId \in Nat /\ IsFiniteSet(Id) /\ Cardinality(Id) = MaxId
  BY ReadinessAssumption, FS_Interval DEF Id
<1>2. c.visiting \in SUBSET Id /\ c.issue \in Id
  BY DEF CallsOver
<1>3. IsFiniteSet(c.visiting) /\ Cardinality(c.visiting) <= MaxId /\ Cardinality(c.visiting) \in Nat
  BY <1>1, <1>2, FS_Subset, FS_CardinalityType
<1>4. ASSUME NEW n \in Id, NEW memo \in M
      PROVE  /\ upCall(n, c, memo) \in CallsOver(M)
             /\ c.issue \notin c.visiting => Room(upCall(n, c, memo)) = Room(c) - 1
  <2>1. upCall(n, c, memo) = [issue |-> n, visiting |-> c.visiting \cup {c.issue}, memo |-> memo]
    BY DEF upCall, call
  <2>2. c.visiting \cup {c.issue} \in SUBSET Id
    BY <1>2
  <2>3. upCall(n, c, memo) \in CallsOver(M)
    BY <2>1, <2>2 DEF CallsOver
  <2>4. c.issue \notin c.visiting => Cardinality(c.visiting \cup {c.issue}) = Cardinality(c.visiting) + 1
    BY <1>3, FS_AddElement
  <2>5. upCall(n, c, memo).visiting = c.visiting \cup {c.issue}
    BY <2>1
  <2> QED
    BY <1>1, <1>3, <2>3, <2>4, <2>5 DEF Room
<1> QED
  BY <1>1, <1>3, <1>4 DEF Room

\* What holds of a call if it holds of the calls it makes holds of all calls.
LEMMA CallInduction ==
    ASSUME NEW M, NEW S,
           \A c \in CallsOver(M) :
               (c.issue \notin c.visiting => \A n \in Id, memo \in M : upCall(n, c, memo) \in S) => c \in S
    PROVE  CallsOver(M) \subseteq S
<1> DEFINE Bad == {n \in Nat : \E c \in CallsOver(M) : Room(c) = n /\ c \notin S}
<1>0. MaxId \in Nat
  BY ReadinessAssumption
<1>1. SUFFICES Bad = {}
  <2> SUFFICES ASSUME NEW c \in CallsOver(M), c \notin S PROVE FALSE
    OBVIOUS
  <2>1. Room(c) \in Nat
    BY <1>0, BlockerHasLessRoom
  <2> QED
    BY <1>1, <2>1
<1> SUFFICES ASSUME Bad # {} PROVE FALSE
  OBVIOUS
<1>2. Bad \in SUBSET Nat
  OBVIOUS
<1>3. PICK n \in Bad : \A m \in Bad : n <= m
  BY <1>2, LeastOf
<1>4. PICK c \in CallsOver(M) : Room(c) = n /\ c \notin S
  OBVIOUS
<1>5. ASSUME c.issue \notin c.visiting, NEW p \in Id, NEW memo \in M, upCall(p, c, memo) \notin S PROVE FALSE
  <2>1. /\ upCall(p, c, memo) \in CallsOver(M) /\ Room(upCall(p, c, memo)) = n - 1
        /\ n \in 1 .. MaxId + 1
    BY <1>4, <1>5, BlockerHasLessRoom
  <2>2. n - 1 \in Nat /\ ~(n <= n - 1)
    BY <1>0, <2>1
  <2>3. n - 1 \in Bad
    BY <1>5, <2>1, <2>2
  <2> QED
    BY <1>3, <2>2, <2>3
<1> QED
  BY <1>4, <1>5

\* F makes of one table of what a walk returns from its calls the next: what it returns from
\* a call it takes from the calls that are made from it.
Descends(F, M, R) ==
    /\ F \in [[CallsOver(M) -> R] -> [CallsOver(M) -> R]]
    /\ \A v, w \in [CallsOver(M) -> R] : \A c \in CallsOver(M) :
           (c.issue \notin c.visiting =>
                \A n \in Id, memo \in M : v[upCall(n, c, memo)] = w[upCall(n, c, memo)])
           => F[v][c] = F[w][c]

Settled(v, F, M, R) == v \in [CallsOver(M) -> R] /\ v = F[v]

\* One table follows from itself.
LEMMA WalkExists ==
    ASSUME NEW M, NEW R, R # {}, NEW F, Descends(F, M, R)
    PROVE  \E v : Settled(v, F, M, R)
<1> PICK r \in R : TRUE
  OBVIOUS
<1>10. F \in [[CallsOver(M) -> R] -> [CallsOver(M) -> R]]
  BY DEF Descends
<1> DEFINE A == [CallsOver(M) -> R]
           a == [c \in CallsOver(M) |-> r]
           G == [x \in (1 .. MaxId + 1) \X A |-> F[x[2]]]
<1>0. MaxId \in Nat /\ MaxId + 1 \in Nat
  BY ReadinessAssumption
<1>1. a \in A
  OBVIOUS
<1>2. G \in [(1 .. MaxId + 1) \X A -> A]
  BY <1>10
<1>3. \A n \in 1 .. MaxId + 1, w \in A : G[<<n, w>>] = F[w]
  OBVIOUS
<1> HIDE DEF G, a
<1>4. PICK f : Unfolds(f, MaxId + 1, A, a, G)
  BY <1>0, <1>1, <1>2, Recursion
<1>5. /\ f \in [0 .. MaxId + 1 -> A]
      /\ \A n \in 1 .. MaxId + 1 : f[n] = G[<<n, f[n - 1]>>]
  BY <1>4 DEF Unfolds
<1> DEFINE v == [c \in CallsOver(M) |-> f[Room(c)][c]]
<1>6. v \in A
  <2> SUFFICES ASSUME NEW c \in CallsOver(M) PROVE f[Room(c)][c] \in R
    OBVIOUS
  <2>1. Room(c) \in 0 .. MaxId + 1
    BY <1>0, BlockerHasLessRoom
  <2> QED
    BY <1>5, <2>1
<1>7. ASSUME NEW c \in CallsOver(M) PROVE v[c] = F[v][c]
  <2> DEFINE n == Room(c)
  <2>1. n \in 1 .. MaxId + 1 /\ n \in 0 .. MaxId + 1 /\ n - 1 \in 0 .. MaxId + 1
    BY <1>0, BlockerHasLessRoom
  <2> HIDE DEF n
  <2>2. f[n - 1] \in A /\ f[n] = F[f[n - 1]]
    BY <1>3, <1>5, <2>1
  <2>3. v[c] = F[f[n - 1]][c]
    BY <2>2 DEF n
  <2>4. ASSUME c.issue \notin c.visiting, NEW p \in Id, NEW memo \in M
        PROVE  f[n - 1][upCall(p, c, memo)] = v[upCall(p, c, memo)]
    BY <2>4, BlockerHasLessRoom DEF n
  <2> HIDE DEF v
  <2>5. F[f[n - 1]][c] = F[v][c]
    BY <1>6, <2>2, <2>4 DEF Descends
  <2> QED
    BY <2>3, <2>5
<1> HIDE DEF v
<1>8. F[v] \in A
  BY <1>6, <1>10
<1>9. v = F[v]
  BY <1>6, <1>7, <1>8
<1> QED
  BY <1>6, <1>9 DEF Settled

-----------------------------------------------------------------------------
(* What is behind an issue.                                                *)
LEMMA ReachedBlocks ==
    ASSUME NEW S \in SUBSET Id
    PROVE  /\ Reached(S, Blocks) \subseteq Id /\ S \subseteq Reached(S, Blocks)
           /\ \A k \in Reached(S, Blocks) : Blockers(k) \cap Id \subseteq Reached(S, Blocks)
           /\ \A T \in SUBSET Id :
                  S \subseteq T /\ (\A k \in T : Blockers(k) \cap Id \subseteq T) => Reached(S, Blocks) \subseteq T
<1>1. Reached(S, Blocks) =
          {j \in Id : \A T \in SUBSET Id :
              (S \subseteq T /\ \A k \in T : \A m \in Id : m \in Blockers(k) => m \in T) => j \in T}
  BY DEF Reached, Blocks
<1>2. Reached(S, Blocks) \subseteq Id
  BY <1>1
<1>3. S \subseteq Reached(S, Blocks)
  BY <1>1
<1>4. ASSUME NEW k \in Reached(S, Blocks), NEW b \in Blockers(k) \cap Id PROVE b \in Reached(S, Blocks)
  <2> SUFFICES ASSUME NEW T \in SUBSET Id,
                      S \subseteq T /\ \A h \in T : \A m \in Id : m \in Blockers(h) => m \in T
               PROVE  b \in T
    BY <1>1
  <2>1. k \in T
    BY <1>1
  <2> QED
    BY <2>1
<1>5. ASSUME NEW T \in SUBSET Id, S \subseteq T, \A k \in T : Blockers(k) \cap Id \subseteq T
      PROVE  Reached(S, Blocks) \subseteq T
  BY <1>1, <1>5
<1> QED
  BY <1>2, <1>3, <1>4, <1>5

\* The blockers of an issue are issues.
LEMMA BlockersAreIds ==
    ASSUME Tabled, NEW i \in Id
    PROVE  Blockers(i) \in SUBSET Id
BY DEF Blockers, Tabled

\* An issue that is behind its own blockers is in a cycle.
Circled(i) == i \in Reached(Blockers(i), Blocks)

\* What is behind an issue is the least set closed under blockers, and it enters a cycle
\* when something in it is behind its own blockers.
LEMMA BehindIs ==
    ASSUME Tabled, NEW i \in Id
    PROVE  /\ Behind(i) \in SUBSET Id /\ i \in Behind(i)
           /\ \A k \in Behind(i) : Blockers(k) \subseteq Behind(i)
           /\ \A T \in SUBSET Id : i \in T /\ (\A k \in T : Blockers(k) \subseteq T) => Behind(i) \subseteq T
           /\ i \in Entangled <=> \E k \in Behind(i) : Circled(k)
<1>1. {i} \in SUBSET Id
  OBVIOUS
<1>2. /\ Behind(i) \subseteq Id /\ i \in Behind(i)
      /\ \A k \in Behind(i) : Blockers(k) \cap Id \subseteq Behind(i)
      /\ \A T \in SUBSET Id :
             i \in T /\ (\A k \in T : Blockers(k) \cap Id \subseteq T) => Behind(i) \subseteq T
  BY <1>1, ReachedBlocks DEF Behind
<1>3. i \in Entangled <=> \E k \in Behind(i) : Circled(k)
  BY <1>2 DEF Entangled, Circled
<1> QED
  BY <1>2, <1>3, BlockersAreIds

\* What the blockers of an issue reach.
LEMMA CircleIs ==
    ASSUME Tabled, NEW i \in Id
    PROVE  LET R == Reached(Blockers(i), Blocks)
           IN  /\ R \in SUBSET Id /\ Blockers(i) \subseteq R
               /\ \A k \in R : Blockers(k) \subseteq R
               /\ \A T \in SUBSET Id :
                      Blockers(i) \subseteq T /\ (\A k \in T : Blockers(k) \subseteq T) => R \subseteq T
<1>1. Blockers(i) \in SUBSET Id
  BY BlockersAreIds
<1> QED
  BY <1>1, ReachedBlocks, BlockersAreIds

-----------------------------------------------------------------------------
(* The search of GetBlockerChain.                                          *)
SearchesBlockers(v, c) == \A n \in Id, memo \in Search : v[upCall(n, c, memo)] \in Search

AfterBlocker(v, c, n, memo) == IF n \in Blockers(c.issue) THEN v[upCall(n, c, memo)] ELSE memo

onChain(c) == [c.memo EXCEPT !.chain = @ \cup {c.issue}]

\* The blockers one after the other.
LEMMA SearchedBlockersAre ==
    ASSUME NEW v, NEW c \in SearchCall, SearchesBlockers(v, c)
    PROVE  LET up == searchBlockers(v, c)
           IN  /\ up \in [0 .. MaxId -> Search]
               /\ up[0] = onChain(c)
               /\ \A n \in 1 .. MaxId : up[n] = AfterBlocker(v, c, n, up[n - 1])
<1> DEFINE first == onChain(c)
           G == [x \in (1 .. MaxId) \X Search |-> AfterBlocker(v, c, x[1], x[2])]
           Body(up, n) ==
               IF n = 0 THEN first
               ELSE IF n \in Blockers(c.issue)
               THEN v[call(n, c.visiting \cup {c.issue}, up[n - 1])]
               ELSE up[n - 1]
           Is(up) == up = [n \in 0 .. MaxId |-> Body(up, n)]
<1>0. MaxId \in Nat /\ Id = 1 .. MaxId
  BY ReadinessAssumption DEF Id
<1>1. first \in Search
  BY DEF onChain, Search, SearchCall
<1>2. \A n \in 1 .. MaxId, b \in Search : AfterBlocker(v, c, n, b) \in Search
  BY <1>0 DEF AfterBlocker, SearchesBlockers
<1>3. G \in [(1 .. MaxId) \X Search -> Search]
  BY <1>2
<1>4. \A n \in 1 .. MaxId, b \in Search : G[<<n, b>>] = AfterBlocker(v, c, n, b)
  OBVIOUS
<1>5. searchBlockers(v, c) = CHOOSE u : Is(u)
  BY DEF searchBlockers, onChain
<1> HIDE DEF G, first
<1>6. PICK f : Unfolds(f, MaxId, Search, first, G)
  BY <1>0, <1>1, <1>3, Recursion
<1>7. Is(f)
  <2>1. f \in [0 .. MaxId -> Search] /\ f[0] = first /\ \A n \in 1 .. MaxId : f[n] = G[<<n, f[n - 1]>>]
    BY <1>6 DEF Unfolds
  <2>2. \A n \in 0 .. MaxId : n # 0 => n \in 1 .. MaxId /\ n - 1 \in 0 .. MaxId
    BY <1>0
  <2>3. \A n \in 0 .. MaxId : f[n] = Body(f, n)
    BY <1>4, <2>1, <2>2 DEF AfterBlocker, upCall
  <2> HIDE DEF Body
  <2> QED
    BY <2>1, <2>3
<1> DEFINE up == searchBlockers(v, c)
<1>8. Is(up)
  <2> HIDE DEF Is
  <2> QED
    BY <1>5, <1>7
<1> HIDE DEF up
<1>9. up[0] = first /\ \A n \in 1 .. MaxId : up[n] = AfterBlocker(v, c, n, up[n - 1])
  <2>1. 0 \in 0 .. MaxId /\ \A n \in 1 .. MaxId : n \in 0 .. MaxId /\ n # 0
    BY <1>0
  <2> QED
    BY <1>8, <2>1 DEF AfterBlocker, upCall
<1> DEFINE Good == {n \in 0 .. MaxId : up[n] \in Search}
<1>10. 0 .. MaxId \subseteq Good
  <2>1. 0 \in Good
    BY <1>0, <1>1, <1>9
  <2>2. ASSUME NEW n \in 1 .. MaxId, n - 1 \in Good PROVE n \in Good
    <3>1. n \in 0 .. MaxId
      BY <1>0
    <3> QED
      BY <1>2, <1>9, <2>2, <3>1
  <2> HIDE DEF Good
  <2> QED
    BY <1>0, <2>1, <2>2, Upward
<1>11. \A n \in 0 .. MaxId : up[n] \in Search
  <2>1. \A n \in Good : up[n] \in Search
    OBVIOUS
  <2> HIDE DEF Good
  <2> QED
    BY <1>10, <2>1
<1>12. up \in [0 .. MaxId -> Search]
  <2>1. up = [n \in 0 .. MaxId |-> Body(up, n)]
    BY <1>8
  <2> HIDE DEF Body
  <2> QED
    BY <1>11, <2>1
<1> QED
  BY <1>9, <1>12 DEF up, first

\* What holds before the first blocker and is kept by each holds after the last.
LEMMA SearchedInTurn ==
    ASSUME NEW v, NEW c \in SearchCall, SearchesBlockers(v, c), NEW T, onChain(c) \in T[0],
           \A n \in Id : \A memo \in Search :
               memo \in T[n - 1] => AfterBlocker(v, c, n, memo) \in T[n]
    PROVE  searchBlockers(v, c)[MaxId] \in Search /\ searchBlockers(v, c)[MaxId] \in T[MaxId]
<1> DEFINE up == searchBlockers(v, c)
           Good == {n \in 0 .. MaxId : up[n] \in T[n]}
<1>0. MaxId \in Nat /\ Id = 1 .. MaxId
  BY ReadinessAssumption DEF Id
<1>1. /\ up \in [0 .. MaxId -> Search] /\ up[0] = onChain(c)
      /\ \A n \in 1 .. MaxId : up[n] = AfterBlocker(v, c, n, up[n - 1])
  BY SearchedBlockersAre
<1> HIDE DEF up
<1>2. 0 \in Good
  BY <1>0, <1>1
<1>3. ASSUME NEW n \in 1 .. MaxId, n - 1 \in Good PROVE n \in Good
  <2>1. n \in Id /\ n \in 0 .. MaxId /\ n - 1 \in 0 .. MaxId
    BY <1>0
  <2>2. up[n - 1] \in Search /\ up[n - 1] \in T[n - 1]
    BY <1>1, <1>3, <2>1
  <2>3. up[n] \in T[n]
    BY <1>1, <2>1, <2>2
  <2> QED
    BY <2>1, <2>3
<1> HIDE DEF Good
<1>4. 0 .. MaxId \subseteq Good
  BY <1>0, <1>2, <1>3, Upward
<1>5. MaxId \in Good
  BY <1>0, <1>4
<1>6. up[MaxId] \in T[MaxId]
  BY <1>5 DEF Good
<1>7. up[MaxId] \in Search
  BY <1>0, <1>1
<1> QED
  BY <1>6, <1>7 DEF up

\* dfs returns a search, the same with v and w if they agree on the blockers.
LEMMA SearchIsTyped ==
    ASSUME NEW v, NEW c \in SearchCall, c.issue \notin c.visiting => SearchesBlockers(v, c)
    PROVE  searchOne(v, c) \in Search
<1>1. c.issue \in Id /\ c.memo \in Search
  BY DEF SearchCall
<1>2. \A m \in Search : [m EXCEPT !.visited = @ \cup {c.issue}] \in Search /\ [m EXCEPT !.cycle = TRUE] \in Search
  BY <1>1 DEF Search
<1>3. MaxId \in 0 .. MaxId
  BY ReadinessAssumption
<1>4. c.issue \notin c.visiting => searchBlockers(v, c)[MaxId] \in Search
  BY <1>3, SearchedBlockersAre
<1> QED
  BY <1>1, <1>2, <1>4 DEF searchOne

\* A call depends on the search function only where it calls it.
LEMMA SearchAgrees ==
    ASSUME NEW v, NEW w, NEW c \in SearchCall,
           c.issue \notin c.visiting =>
               /\ SearchesBlockers(v, c)
               /\ \A n \in Id, memo \in Search : v[upCall(n, c, memo)] = w[upCall(n, c, memo)]
    PROVE  searchOne(v, c) = searchOne(w, c)
<1>1. CASE c.issue \in c.visiting
  BY <1>1 DEF searchOne
<1>2. CASE c.issue \notin c.visiting
  <2> DEFINE up == searchBlockers(v, c)
             wp == searchBlockers(w, c)
             T == [n \in 0 .. MaxId |-> {wp[n]}]
  <2>0. MaxId \in Nat /\ Id = 1 .. MaxId
    BY ReadinessAssumption DEF Id
  <2>1. SearchesBlockers(v, c) /\ SearchesBlockers(w, c)
    BY <1>2 DEF SearchesBlockers
  <2>2. /\ wp[0] = onChain(c)
        /\ \A n \in 1 .. MaxId : wp[n] = AfterBlocker(w, c, n, wp[n - 1])
    BY <2>1, SearchedBlockersAre
  <2> HIDE DEF wp
  <2>3. \A n \in 0 .. MaxId : T[n] = {wp[n]}
    OBVIOUS
  <2> HIDE DEF T
  <2>4. onChain(c) \in T[0]
    BY <2>0, <2>2, <2>3
  <2>5. ASSUME NEW n \in Id, NEW memo \in Search, memo \in T[n - 1]
        PROVE  AfterBlocker(v, c, n, memo) \in T[n]
    <3>1. n \in 1 .. MaxId /\ n \in 0 .. MaxId /\ n - 1 \in 0 .. MaxId
      BY <2>0
    <3>2. memo = wp[n - 1]
      BY <2>3, <2>5, <3>1
    <3>3. AfterBlocker(v, c, n, memo) = AfterBlocker(w, c, n, memo)
      BY <1>2 DEF AfterBlocker
    <3> QED
      BY <2>2, <2>3, <3>1, <3>2, <3>3
  <2>6. up[MaxId] \in T[MaxId]
    BY <2>1, <2>4, <2>5, SearchedInTurn
  <2>7. up[MaxId] = wp[MaxId]
    BY <2>0, <2>3, <2>6
  <2> QED
    BY <2>7 DEF searchOne, wp
<1> QED
  BY <1>1, <1>2

\* What dfs is defined to be.
Searches(v) == v = [c \in SearchCall |-> searchOne(v, c)]

\* There is such a function.
LEMMA SearchExists == \E v : Searches(v)
<1> DEFINE C == CallsOver(Search)
           A == [C -> Search]
           F == [v \in A |-> [c \in C |-> searchOne(v, c)]]
           r == [visited |-> {}, chain |-> {}, cycle |-> FALSE]
<1>1. SearchCall = C
  BY DEF SearchCall, CallsOver
<1>2. r \in Search
  BY DEF Search
<1>3. \A v \in A, c \in C : SearchesBlockers(v, c)
  BY <1>1, BlockerHasLessRoom DEF SearchesBlockers
<1>4. F \in [A -> A]
  BY <1>1, <1>3, SearchIsTyped
<1>5. \A v \in A : F[v] = [c \in C |-> searchOne(v, c)]
  OBVIOUS
<1> HIDE DEF F, r, C
<1>6. ASSUME NEW v \in A, NEW w \in A, NEW c \in C,
             c.issue \notin c.visiting =>
                 \A n \in Id, memo \in Search : v[upCall(n, c, memo)] = w[upCall(n, c, memo)]
      PROVE  F[v][c] = F[w][c]
  <2>1. searchOne(v, c) = searchOne(w, c)
    BY <1>1, <1>3, <1>6, SearchAgrees
  <2>2. F[v][c] = searchOne(v, c) /\ F[w][c] = searchOne(w, c)
    BY <1>5
  <2> QED
    BY <2>1, <2>2
<1>7. Descends(F, Search, Search)
  BY <1>4, <1>6 DEF C, Descends
<1>9. PICK v : Settled(v, F, Search, Search)
  BY <1>2, <1>7, WalkExists
<1>8. v = [c \in SearchCall |-> searchOne(v, c)]
  BY <1>1, <1>5, <1>9 DEF Settled, C
<1> QED
  BY <1>8 DEF Searches

\* dfs returns a search.
LEMMA SearchesAreTyped ==
    ASSUME NEW v, Searches(v)
    PROVE  \A c \in SearchCall : v[c] \in Search /\ v[c] = searchOne(v, c)
<1> DEFINE S == {c \in SearchCall : v[c] \in Search}
<1>1. \A c \in SearchCall : v[c] = searchOne(v, c)
  BY DEF Searches
<1>2. SearchCall = CallsOver(Search)
  BY DEF SearchCall, CallsOver
<1>3. ASSUME NEW c \in CallsOver(Search),
             c.issue \notin c.visiting => \A n \in Id, memo \in Search : upCall(n, c, memo) \in S
      PROVE  c \in S
  <2>1. c.issue \notin c.visiting => SearchesBlockers(v, c)
    BY <1>3 DEF SearchesBlockers
  <2> QED
    BY <1>1, <1>2, <2>1, SearchIsTyped
<1> HIDE DEF S
<1>4. CallsOver(Search) \subseteq S
  BY <1>3, CallInduction
<1> QED
  BY <1>1, <1>2, <1>4 DEF S

-----------------------------------------------------------------------------
(* What the search from t has found while the issues of V are visited: what*)
(* is finished or visited is behind t and on the chain, what is finished   *)
(* has finished or visited blockers, and a cycle is reported if there is   *)
(* one among what is finished, and only if there is one behind t.          *)
SoundSearch(t, V, m) ==
    /\ V \cap m.visited = {} /\ m.visited \subseteq Behind(t)
    /\ m.chain = (m.visited \cup V) \cap Known
    /\ \A w \in m.visited : Blockers(w) \subseteq m.visited \cup V
    /\ m.cycle => t \in Entangled
    /\ ~m.cycle => \A w \in m.visited : Blockers(w) \subseteq m.visited /\ ~Circled(w)

\* A call that the search makes: what is visited leads to the issue.
SoundSearchCall(t, c) ==
    /\ SoundSearch(t, c.visiting, c.memo) /\ c.issue \in Behind(t)
    /\ \A k \in c.visiting : c.issue \in Reached(Blockers(k), Blocks)

\* What the call returns.
Searched(t, c, m) ==
    /\ SoundSearch(t, c.visiting, m) /\ c.memo.visited \subseteq m.visited
    /\ c.issue \in m.visited \cup c.visiting
    /\ ~m.cycle => ~c.memo.cycle /\ c.issue \in m.visited

\* A blocker of the issue of a sound call is called soundly.
LEMMA BlockerIsSound ==
    ASSUME Tabled, NEW t \in Id, NEW c \in SearchCall, SoundSearchCall(t, c),
           NEW n \in Blockers(c.issue), NEW memo \in Search,
           SoundSearch(t, c.visiting \cup {c.issue}, memo)
    PROVE  SoundSearchCall(t, upCall(n, c, memo))
<1> DEFINE i == c.issue
           V == c.visiting
<1>1. i \in Id /\ V \in SUBSET Id
  BY DEF SearchCall
<1>2. upCall(n, c, memo).issue = n /\ upCall(n, c, memo).visiting = V \cup {i} /\ upCall(n, c, memo).memo = memo
  BY DEF upCall, call
<1>3. n \in Behind(t)
  BY BehindIs DEF SoundSearchCall
<1>4. ASSUME NEW k \in V \cup {i} PROVE n \in Reached(Blockers(k), Blocks)
  <2>1. CASE k = i
    BY <1>1, <2>1, CircleIs
  <2>2. CASE k \in V
    <3>1. i \in Reached(Blockers(k), Blocks)
      BY <2>2 DEF SoundSearchCall
    <3> QED
      BY <1>1, <2>2, <3>1, CircleIs
  <2> QED
    BY <2>1, <2>2
<1> QED
  BY <1>2, <1>3, <1>4 DEF SoundSearchCall

\* Every blocker of the issue is searched.
LEMMA BlockersAreSearched ==
    ASSUME Tabled, NEW t \in Id, NEW v, NEW c \in SearchCall, SearchesBlockers(v, c),
           SoundSearchCall(t, c), exists(c.issue), c.issue \notin c.visiting, c.issue \notin c.memo.visited,
           \A n \in Blockers(c.issue), memo \in Search :
               SoundSearchCall(t, upCall(n, c, memo)) =>
                   Searched(t, upCall(n, c, memo), v[upCall(n, c, memo)])
    PROVE  LET m == searchBlockers(v, c)[MaxId]
           IN  /\ m \in Search /\ SoundSearch(t, c.visiting \cup {c.issue}, m)
               /\ c.memo.visited \subseteq m.visited /\ (~m.cycle => ~c.memo.cycle)
               /\ \A n \in Blockers(c.issue) :
                      n \in m.visited \cup c.visiting \cup {c.issue} /\ (~m.cycle => n \in m.visited)
<1> DEFINE i == c.issue
           V == c.visiting \cup {i}
           Ok(n, m) == /\ m \in Search /\ SoundSearch(t, V, m)
                       /\ c.memo.visited \subseteq m.visited /\ (~m.cycle => ~c.memo.cycle)
                       /\ \A b \in Blockers(i) :
                              b <= n => b \in m.visited \cup V /\ (~m.cycle => b \in m.visited)
           T == [n \in 0 .. MaxId |-> {m \in Search : Ok(n, m)}]
<1>0. MaxId \in Nat /\ Id = 1 .. MaxId
  BY ReadinessAssumption DEF Id
<1>1. i \in Id /\ c.visiting \in SUBSET Id /\ c.memo \in Search /\ Blockers(i) \in SUBSET Id
  BY BlockersAreIds DEF SearchCall
<1>2. Ok(0, onChain(c))
  <2> DEFINE m == onChain(c)
  <2>1. /\ m.visited = c.memo.visited /\ m.chain = c.memo.chain \cup {i} /\ m.cycle = c.memo.cycle
        /\ m \in Search
    BY <1>1 DEF onChain, Search
  <2> HIDE DEF m
  <2>2. SoundSearch(t, c.visiting, c.memo) /\ i \in Known
    BY <1>1 DEF SoundSearchCall, Known
  <2>3. SoundSearch(t, V, m)
    BY <2>1, <2>2 DEF SoundSearch
  <2>4. \A b \in Blockers(i) : ~(b <= 0)
    BY <1>0, <1>1
  <2> QED
    BY <2>1, <2>3, <2>4 DEF m
<1>3. ASSUME NEW n \in Id, NEW m \in Search, Ok(n - 1, m) PROVE Ok(n, AfterBlocker(v, c, n, m))
  <2>1. n \in Nat /\ \A b \in Blockers(i) : b <= n => b <= n - 1 \/ b = n
    BY <1>0, <1>1
  <2>2. CASE n \notin Blockers(i)
    <3>1. AfterBlocker(v, c, n, m) = m
      BY <2>2 DEF AfterBlocker
    <3>2. \A b \in Blockers(i) : b <= n => b <= n - 1
      BY <2>1, <2>2
    <3> QED
      BY <1>3, <3>1, <3>2
  <2>3. CASE n \in Blockers(i)
    <3> DEFINE next == AfterBlocker(v, c, n, m)
    <3>1. SoundSearchCall(t, upCall(n, c, m))
      BY <1>3, <2>3, BlockerIsSound
    <3>2. Searched(t, upCall(n, c, m), next)
      BY <2>3, <3>1 DEF AfterBlocker
    <3>3. next \in Search
      BY <2>3 DEF AfterBlocker, SearchesBlockers
    <3>4. upCall(n, c, m).issue = n /\ upCall(n, c, m).visiting = V /\ upCall(n, c, m).memo = m
      BY DEF upCall, call
    <3> HIDE DEF next
    <3>5. /\ SoundSearch(t, V, next) /\ m.visited \subseteq next.visited
          /\ n \in next.visited \cup V /\ (~next.cycle => ~m.cycle /\ n \in next.visited)
      BY <3>2, <3>4 DEF Searched
    <3>6. ASSUME NEW b \in Blockers(i), b <= n
          PROVE  b \in next.visited \cup V /\ (~next.cycle => b \in next.visited)
      <4>1. b <= n - 1 \/ b = n
        BY <2>1, <3>6
      <4>2. b <= n - 1 => b \in m.visited \cup V /\ (~m.cycle => b \in m.visited)
        BY <1>3
      <4> QED
        BY <3>5, <4>1, <4>2
    <3> QED
      BY <1>3, <3>3, <3>5, <3>6 DEF next
  <2> QED
    BY <2>2, <2>3
<1> DEFINE last == searchBlockers(v, c)[MaxId]
<1>4. last \in Search /\ last \in T[MaxId]
  <2> HIDE DEF Ok
  <2>1. \A n \in 0 .. MaxId, m \in Search : m \in T[n] <=> Ok(n, m)
    OBVIOUS
  <2> HIDE DEF T
  <2>2. 0 \in 0 .. MaxId /\ \A n \in Id : n - 1 \in 0 .. MaxId /\ n \in 0 .. MaxId
    BY <1>0
  <2>3. onChain(c) \in Search
    BY <1>2 DEF Ok
  <2>4. onChain(c) \in T[0]
    BY <1>2, <2>1, <2>2, <2>3
  <2>5. ASSUME NEW n \in Id, NEW memo \in Search, memo \in T[n - 1]
        PROVE  AfterBlocker(v, c, n, memo) \in T[n]
    <3>1. Ok(n, AfterBlocker(v, c, n, memo))
      BY <1>3, <2>1, <2>2, <2>5
    <3>2. AfterBlocker(v, c, n, memo) \in Search
      BY <3>1 DEF Ok
    <3> QED
      BY <2>1, <2>2, <3>1, <3>2
  <2> QED
    BY <2>4, <2>5, SearchedInTurn
<1>5. Ok(MaxId, last)
  <2> HIDE DEF Ok, last
  <2> QED
    BY <1>0, <1>4
<1>6. \A b \in Blockers(i) : b <= MaxId
  BY <1>0, <1>1
<1> HIDE DEF last
<1> QED
  BY <1>5, <1>6 DEF last

\* What is finished after all its blockers, and not before, is in no cycle.
LEMMA FinishedIsSound ==
    ASSUME Tabled, NEW t \in Id, NEW i \in Behind(t), NEW V \in SUBSET Id, i \notin V, NEW m \in Search,
           SoundSearch(t, V \cup {i}, m),
           \A n \in Blockers(i) : n \in m.visited \cup V \cup {i} /\ (~m.cycle => n \in m.visited)
    PROVE  SoundSearch(t, V, [m EXCEPT !.visited = @ \cup {i}])
<1> DEFINE next == [m EXCEPT !.visited = @ \cup {i}]
           W == m.visited
<1>1. next.visited = W \cup {i} /\ next.chain = m.chain /\ next.cycle = m.cycle
  BY DEF Search
<1>2. W \in SUBSET Id /\ i \in Id
  BY BehindIs DEF Search
<1>3. i \notin W /\ V \cap W = {} /\ W \subseteq Behind(t)
  BY DEF SoundSearch
<1>4. ASSUME ~m.cycle PROVE ~Circled(i)
  <2>1. Blockers(i) \subseteq W /\ \A w \in W : Blockers(w) \subseteq W
    BY <1>4 DEF SoundSearch
  <2>2. Reached(Blockers(i), Blocks) \subseteq W
    BY <1>2, <2>1, CircleIs
  <2> QED
    BY <1>3, <2>2 DEF Circled
<1>5. m.chain = (W \cup {i} \cup V) \cap Known
  BY DEF SoundSearch
<1>6. \A w \in W \cup {i} : Blockers(w) \subseteq W \cup {i} \cup V
  BY DEF SoundSearch
<1>7. m.cycle => t \in Entangled
  BY DEF SoundSearch
<1>8. ~m.cycle => \A w \in W \cup {i} : Blockers(w) \subseteq W \cup {i} /\ ~Circled(w)
  BY <1>4 DEF SoundSearch
<1> HIDE DEF next
<1> QED
  BY <1>1, <1>3, <1>5, <1>6, <1>7, <1>8 DEF SoundSearch, next

\* Every sound call of dfs finds what is behind its issue.
LEMMA SearchIsSound ==
    ASSUME Tabled, NEW t \in Id, NEW v, Searches(v)
    PROVE  \A c \in SearchCall : SoundSearchCall(t, c) => Searched(t, c, v[c])
<1> DEFINE S == {c \in SearchCall : SoundSearchCall(t, c) => Searched(t, c, v[c])}
<1>1. \A c \in SearchCall : v[c] \in Search /\ v[c] = searchOne(v, c)
  BY SearchesAreTyped
<1>2. SearchCall = CallsOver(Search)
  BY DEF SearchCall, CallsOver
<1>3. ASSUME NEW c \in SearchCall, SoundSearchCall(t, c),
             c.issue \notin c.visiting => \A n \in Id, memo \in Search : upCall(n, c, memo) \in S
      PROVE  Searched(t, c, v[c])
  <2> DEFINE i == c.issue
             V == c.visiting
             m == c.memo
  <2>1. i \in Id /\ V \in SUBSET Id /\ m \in Search /\ v[c] = searchOne(v, c)
    BY <1>1 DEF SearchCall
  <2>2. SoundSearch(t, V, m) /\ i \in Behind(t)
    BY <1>3 DEF SoundSearchCall
  <2>3. CASE i \in V
    <3> DEFINE r == [m EXCEPT !.cycle = TRUE]
    <3>1. v[c] = r
      BY <2>1, <2>3 DEF searchOne
    <3>2. r.visited = m.visited /\ r.chain = m.chain /\ r.cycle = TRUE
      BY <2>1 DEF Search
    <3>3. Circled(i)
      BY <1>3, <2>3 DEF SoundSearchCall, Circled
    <3>4. t \in Entangled
      BY <2>2, <3>3, BehindIs
    <3> HIDE DEF r
    <3>5. SoundSearch(t, V, r)
      BY <2>2, <3>2, <3>4 DEF SoundSearch
    <3> QED
      BY <2>3, <3>1, <3>2, <3>5 DEF Searched
  <2>4. CASE i \notin V /\ i \in m.visited
    <3>1. v[c] = m
      BY <2>1, <2>4 DEF searchOne
    <3> QED
      BY <2>2, <2>4, <3>1 DEF Searched
  <2>5. CASE i \notin V /\ i \notin m.visited /\ ~exists(i)
    <3> DEFINE r == [m EXCEPT !.visited = @ \cup {i}]
    <3>1. v[c] = r
      BY <2>1, <2>5 DEF searchOne
    <3>2. r.visited = m.visited \cup {i} /\ r.chain = m.chain /\ r.cycle = m.cycle
      BY <2>1 DEF Search
    <3>3. Blockers(i) = {} /\ i \notin Known
      BY <2>5 DEF Blockers, isOpen, Known
    <3>4. ~Circled(i)
      <4> DEFINE none == {}
      <4>1. Reached(Blockers(i), Blocks) \subseteq none
        <5>1. none \in SUBSET Id /\ Blockers(i) \subseteq none /\ \A k \in none : Blockers(k) \subseteq none
          BY <3>3
        <5> HIDE DEF none
        <5> QED
          BY <2>1, <5>1, CircleIs
      <4> QED
        BY <4>1 DEF Circled
    <3> HIDE DEF r
    <3>5. SoundSearch(t, V, r)
      BY <2>2, <2>5, <3>2, <3>3, <3>4 DEF SoundSearch
    <3> QED
      BY <3>1, <3>2, <3>5 DEF Searched
  <2>6. CASE i \notin V /\ i \notin m.visited /\ exists(i)
    <3> DEFINE last == searchBlockers(v, c)[MaxId]
               r == [last EXCEPT !.visited = @ \cup {i}]
    <3>1. v[c] = r
      BY <2>1, <2>6 DEF searchOne
    <3>2. SearchesBlockers(v, c)
      BY <1>1, <1>2, BlockerHasLessRoom DEF SearchesBlockers
    <3>3. ASSUME NEW n \in Blockers(i), NEW memo \in Search, SoundSearchCall(t, upCall(n, c, memo))
          PROVE  Searched(t, upCall(n, c, memo), v[upCall(n, c, memo)])
      <4>1. n \in Id
        BY <2>1, BlockersAreIds
      <4> QED
        BY <1>3, <2>6, <3>3, <4>1
    <3>4. /\ last \in Search /\ SoundSearch(t, V \cup {i}, last)
          /\ m.visited \subseteq last.visited /\ (~last.cycle => ~m.cycle)
          /\ \A n \in Blockers(i) : n \in last.visited \cup V \cup {i} /\ (~last.cycle => n \in last.visited)
      BY <1>3, <2>6, <3>2, <3>3, BlockersAreSearched
    <3> HIDE DEF last
    <3>5. SoundSearch(t, V, r)
      BY <2>1, <2>2, <2>6, <3>4, FinishedIsSound
    <3>6. r.visited = last.visited \cup {i} /\ r.cycle = last.cycle
      BY <3>4 DEF Search
    <3> HIDE DEF r
    <3> QED
      BY <3>1, <3>4, <3>5, <3>6 DEF Searched
  <2> QED
    BY <2>3, <2>4, <2>5, <2>6
<1>4. ASSUME NEW c \in CallsOver(Search),
             c.issue \notin c.visiting => \A n \in Id, memo \in Search : upCall(n, c, memo) \in S
      PROVE  c \in S
  BY <1>2, <1>3, <1>4
<1> HIDE DEF S
<1>5. CallsOver(Search) \subseteq S
  BY <1>4, CallInduction
<1> QED
  BY <1>2, <1>5 DEF S

\* The chain is what is behind the target; it has a cycle or it has none.
LEMMA ChainIsWhole ==
    ASSUME Tabled, NEW t \in Known
    PROVE  LET result == GetBlockerChain(t)
               behind == Behind(t) \cap Known
           IN  /\ result.chain = behind
               /\ result.cycle <=> t \in Entangled
               /\ result.roots = {k \in behind : Blockers(k) = {}} \ {t}
<1> DEFINE first == [visited |-> {}, chain |-> {}, cycle |-> FALSE]
           start == call(t, {}, first)
           v == CHOOSE w : Searches(w)
           all == v[start]
           behind == Behind(t) \cap Known
<1>1. t \in Id
  BY DEF Known
<1>2. Searches(v)
  BY SearchExists
<1>3. GetBlockerChain(t) = [chain |-> all.chain, cycle |-> all.cycle,
                           roots |-> {i \in all.chain \ {t} : Blockers(i) = {}}]
  BY DEF GetBlockerChain, Searches
<1> HIDE DEF v
<1>4. start.issue = t /\ start.visiting = {} /\ start.memo = first /\ start \in SearchCall
  BY <1>1 DEF call, SearchCall, Search
<1> HIDE DEF start
<1>5. SoundSearchCall(t, start)
  <2>1. t \in Behind(t)
    BY <1>1, BehindIs
  <2>2. SoundSearch(t, {}, first)
    BY DEF SoundSearch
  <2> QED
    BY <1>4, <2>1, <2>2 DEF SoundSearchCall
<1>6. Searched(t, start, all)
  BY <1>1, <1>2, <1>4, <1>5, SearchIsSound
<1>7. all \in Search
  BY <1>2, <1>4, SearchesAreTyped
<1> HIDE DEF all
<1>8. t \in all.visited /\ SoundSearch(t, {}, all)
  BY <1>4, <1>6 DEF Searched
<1>9. all.visited = Behind(t)
  <2>1. all.visited \subseteq Behind(t) /\ \A w \in all.visited : Blockers(w) \subseteq all.visited
    BY <1>8 DEF SoundSearch
  <2>2. all.visited \in SUBSET Id
    BY <1>7 DEF Search
  <2>3. Behind(t) \subseteq all.visited
    BY <1>1, <1>8, <2>1, <2>2, BehindIs
  <2> QED
    BY <2>1, <2>3
<1>10. all.chain = behind
  BY <1>8, <1>9 DEF SoundSearch
<1>11. all.cycle <=> t \in Entangled
  <2>1. ~all.cycle => \A w \in Behind(t) : ~Circled(w)
    BY <1>8, <1>9 DEF SoundSearch
  <2>2. all.cycle => t \in Entangled
    BY <1>8 DEF SoundSearch
  <2> QED
    BY <1>1, <2>1, <2>2, BehindIs
<1> QED
  BY <1>3, <1>10, <1>11

-----------------------------------------------------------------------------
(* How deep the chain is *)

\* The first part of the chain decides whether it enters a cycle.
LEMMA EntangledBelow ==
    ASSUME Tabled, NEW i \in Id
    PROVE  i \in Entangled <=> \E b \in Blockers(i) : b \in Entangled
<1>1. Blockers(i) \in SUBSET Id
  BY BlockersAreIds
<1>2. ASSUME NEW b \in Blockers(i), b \in Entangled PROVE i \in Entangled
  <2>1. PICK z \in Behind(b) : Circled(z)
    BY <1>1, <1>2, BehindIs
  <2>2. Behind(b) \subseteq Behind(i)
    <3>1. b \in Behind(i) /\ Behind(i) \in SUBSET Id /\ \A k \in Behind(i) : Blockers(k) \subseteq Behind(i)
      BY BehindIs
    <3> QED
      BY <1>1, <3>1, BehindIs
  <2> QED
    BY <2>1, <2>2, BehindIs
<1>3. ASSUME i \in Entangled PROVE \E b \in Blockers(i) : b \in Entangled
  <2> DEFINE R == Reached(Blockers(i), Blocks)
             U == UNION {Behind(b) : b \in Blockers(i)}
  <2>1. R \subseteq U
    <3>1. Blockers(i) \subseteq U
      BY <1>1, BehindIs
    <3>2. \A k \in U : Blockers(k) \subseteq U
      BY <1>1, BehindIs
    <3>3. U \in SUBSET Id
      BY <1>1, BehindIs
    <3> HIDE DEF U
    <3> QED
      BY <3>1, <3>2, <3>3, CircleIs
  <2>2. Behind(i) \subseteq {i} \cup R
    <3> DEFINE S == {i} \cup R
    <3>1. S \in SUBSET Id /\ i \in S /\ \A k \in S : Blockers(k) \subseteq S
      BY CircleIs
    <3> HIDE DEF S
    <3>2. Behind(i) \subseteq S
      BY <3>1, BehindIs
    <3> QED
      BY <3>2 DEF S
  <2>3. PICK k \in Behind(i) : Circled(k)
    BY <1>3, BehindIs
  <2>4. k \in R
    BY <2>2, <2>3 DEF Circled
  <2>5. PICK b \in Blockers(i) : k \in Behind(b)
    BY <2>1, <2>4
  <2> QED
    BY <1>1, <2>3, <2>5, BehindIs
<1> QED
  BY <1>2, <1>3

\* How much is behind an issue; less is behind the blockers of one that is not in a cycle.
behindCount(i) == Cardinality(Behind(i))

\* The count is at most MaxId, and it strictly decreases outside cycles.
LEMMA LessIsBehind ==
    ASSUME Tabled, NEW i \in Id
    PROVE  /\ behindCount(i) \in 1 .. MaxId
           /\ \A b \in Blockers(i) : i \notin Entangled => behindCount(b) < behindCount(i)
<1>1. MaxId \in Nat /\ IsFiniteSet(Id) /\ Cardinality(Id) = MaxId
  BY FS_Interval, ReadinessAssumption DEF Id
<1>2. \A k \in Id : IsFiniteSet(Behind(k)) /\ Cardinality(Behind(k)) \in Nat /\ Cardinality(Behind(k)) <= MaxId
  <2> SUFFICES ASSUME NEW k \in Id
               PROVE  IsFiniteSet(Behind(k)) /\ Cardinality(Behind(k)) \in Nat /\ Cardinality(Behind(k)) <= MaxId
    OBVIOUS
  <2>1. Behind(k) \in SUBSET Id
    BY BehindIs
  <2> QED
    BY <1>1, <2>1, FS_Subset, FS_CardinalityType
<1>3. behindCount(i) # 0
  <2>1. i \in Behind(i)
    BY BehindIs
  <2> QED
    BY <1>2, <2>1, FS_EmptySet DEF behindCount
<1>4. ASSUME NEW b \in Blockers(i), i \notin Entangled PROVE behindCount(b) < behindCount(i)
  <2>1. b \in Id /\ b \in Behind(i) /\ Behind(i) \in SUBSET Id
        /\ \A k \in Behind(i) : Blockers(k) \subseteq Behind(i)
    BY BlockersAreIds, BehindIs
  <2>2. Behind(b) \subseteq Behind(i)
    BY <2>1, BehindIs
  <2>3. i \notin Behind(b)
    <3> SUFFICES ASSUME i \in Behind(b) PROVE FALSE
      OBVIOUS
    <3> DEFINE R == Reached(Blockers(i), Blocks)
    <3>1. R \in SUBSET Id /\ b \in R /\ \A k \in R : Blockers(k) \subseteq R
      BY CircleIs
    <3> HIDE DEF R
    <3>2. Behind(b) \subseteq R
      BY <2>1, <3>1, BehindIs
    <3>3. Circled(i)
      BY <3>2 DEF R, Circled
    <3> QED
      BY <1>4, <3>3, BehindIs
  <2>4. i \in Behind(i)
    BY BehindIs
  <2> QED
    BY <1>2, <2>1, <2>2, <2>3, <2>4, FS_Subset DEF behindCount
<1> QED
  BY <1>1, <1>2, <1>3, <1>4 DEF behindCount

-----------------------------------------------------------------------------
(* The depth that is meant.                                                *)
longer(long, i) == IF i \in Entangled THEN InCycle
                   ELSE IF Blockers(i) = {} THEN 0
                   ELSE 1 + Max({long[b] : b \in Blockers(i)})

\* There is such a depth: that of the issues with less behind them first.
LEMMA LongestExists ==
    ASSUME Tabled
    PROVE  \E long : long = [i \in Id |-> longer(long, i)]
<1> DEFINE Good(f, n) == /\ DOMAIN f = Id /\ f = [i \in Id |-> f[i]]
                         /\ \A i \in Id : i \notin Entangled /\ behindCount(i) <= n => f[i] = longer(f, i)
           S == {n \in 0 .. MaxId : \E f : Good(f, n)}
<1>0. MaxId \in Nat
  BY ReadinessAssumption
<1>1. 0 \in S
  <2> DEFINE f == [i \in Id |-> 0]
  <2>1. \A i \in Id : ~(behindCount(i) <= 0)
    BY <1>0, LessIsBehind
  <2>2. Good(f, 0)
    BY <2>1
  <2> QED
    BY <1>0, <2>2
<1>2. ASSUME NEW n \in 1 .. MaxId, n - 1 \in S PROVE n \in S
  <2>1. PICK f : Good(f, n - 1)
    BY <1>2
  <2> DEFINE g == [i \in Id |-> IF behindCount(i) = n THEN longer(f, i) ELSE f[i]]
  <2>2. ASSUME NEW i \in Id, i \notin Entangled, behindCount(i) <= n PROVE g[i] = longer(g, i)
    <3>1. \A b \in Blockers(i) : b \in Id /\ behindCount(b) < behindCount(i) /\ behindCount(b) \in 1 .. MaxId
      BY <2>2, LessIsBehind, BlockersAreIds
    <3>2. behindCount(i) \in 1 .. MaxId
      BY LessIsBehind
    <3>3. \A b \in Blockers(i) : g[b] = f[b]
      BY <1>0, <2>2, <3>1, <3>2
    <3> HIDE DEF g
    <3>4. {g[b] : b \in Blockers(i)} = {f[b] : b \in Blockers(i)}
      BY <3>3
    <3>5. longer(g, i) = longer(f, i)
      BY <3>4 DEF longer
    <3>6. CASE behindCount(i) = n
      BY <3>5, <3>6 DEF g
    <3>7. CASE behindCount(i) # n
      <4>1. behindCount(i) <= n - 1
        BY <1>0, <2>2, <3>2, <3>7
      <4>2. f[i] = longer(f, i)
        BY <2>1, <2>2, <4>1
      <4> QED
        BY <3>5, <3>7, <4>2 DEF g
    <3> QED
      BY <3>6, <3>7
  <2>3. Good(g, n)
    <3>1. DOMAIN g = Id /\ g = [i \in Id |-> g[i]]
      OBVIOUS
    <3> HIDE DEF g
    <3> QED
      BY <2>2, <3>1
  <2> HIDE DEF Good
  <2> QED
    BY <1>0, <2>3
<1> HIDE DEF S
<1>3. 0 .. MaxId \subseteq S
  BY <1>0, <1>1, <1>2, Upward
<1>4. PICK f : Good(f, MaxId)
  BY <1>0, <1>3 DEF S
<1> DEFINE g == [i \in Id |-> IF i \in Entangled THEN InCycle ELSE f[i]]
<1>5. ASSUME NEW i \in Id PROVE g[i] = longer(g, i)
  <2>1. CASE i \in Entangled
    BY <2>1 DEF longer
  <2>2. CASE i \notin Entangled
    <3>1. \A b \in Blockers(i) : b \in Id /\ b \notin Entangled
      BY <2>2, EntangledBelow, BlockersAreIds
    <3>2. \A b \in Blockers(i) : g[b] = f[b]
      BY <3>1
    <3>3. behindCount(i) <= MaxId
      BY <1>0, LessIsBehind
    <3>4. g[i] = longer(f, i)
      BY <1>4, <2>2, <3>3
    <3> HIDE DEF g
    <3>5. {g[b] : b \in Blockers(i)} = {f[b] : b \in Blockers(i)}
      BY <3>2
    <3> QED
      BY <3>4, <3>5 DEF longer
  <2> QED
    BY <2>1, <2>2
<1>6. g = [i \in Id |-> longer(g, i)]
  <2>1. g = [i \in Id |-> g[i]]
    OBVIOUS
  <2> HIDE DEF g
  <2> QED
    BY <1>5, <2>1
<1> HIDE DEF g
<1> QED
  BY <1>6

\* It is one more than that of the deepest blocker.
LEMMA DepthIs ==
    ASSUME Tabled, NEW i \in Id
    PROVE  /\ i \in Entangled => TrueDepth[i] = InCycle
           /\ i \notin Entangled =>
                  /\ TrueDepth[i] \in Nat
                  /\ \A b \in Blockers(i) : b \notin Entangled /\ TrueDepth[b] \in Nat /\ TrueDepth[b] < TrueDepth[i]
                  /\ TrueDepth[i] = 0 \/ \E b \in Blockers(i) : TrueDepth[i] = TrueDepth[b] + 1
           /\ TrueDepth[i] \in Int /\ TrueDepth[i] # NoDepth
           /\ TrueDepth = [k \in Id |-> TrueDepth[k]]
<1> DEFINE Is(long) == long = [k \in Id |-> longer(long, k)]
           D == TrueDepth
<1>0. MaxId \in Nat
  BY ReadinessAssumption
<1>1. D = CHOOSE long : Is(long)
  BY DEF TrueDepth, longer
<1>2. \E long : Is(long)
  BY LongestExists
<1> HIDE DEF D
<1>3. Is(D)
  <2> HIDE DEF Is
  <2> QED
    BY <1>1, <1>2
<1>4. \A k \in Id : D[k] = longer(D, k)
  BY <1>3
<1>5. D = [k \in Id |-> D[k]]
  BY <1>3, <1>4
<1> DEFINE Deepest(k) == /\ D[k] \in 0 .. behindCount(k) - 1
                         /\ \A b \in Blockers(k) : b \notin Entangled /\ D[b] \in Nat /\ D[b] < D[k]
                         /\ D[k] = 0 \/ \E b \in Blockers(k) : D[k] = D[b] + 1
           Bad == {n \in Nat : \E k \in Id : k \notin Entangled /\ behindCount(k) = n /\ ~Deepest(k)}
<1>6. Bad = {}
  <2> SUFFICES ASSUME Bad # {} PROVE FALSE
    OBVIOUS
  <2>1. Bad \in SUBSET Nat
    OBVIOUS
  <2>2. PICK n \in Bad : \A m \in Bad : n <= m
    BY <2>1, LeastOf
  <2>3. PICK k \in Id : k \notin Entangled /\ behindCount(k) = n /\ ~Deepest(k)
    OBVIOUS
  <2> HIDE DEF Deepest
  <2>4. n \in 1 .. MaxId
    BY <2>3, LessIsBehind
  <2>5. ASSUME NEW b \in Blockers(k) PROVE b \in Id /\ b \notin Entangled /\ Deepest(b) /\ behindCount(b) < n /\ behindCount(b) \in Nat
    <3>1. b \in Id /\ b \notin Entangled
      BY <2>3, EntangledBelow, BlockersAreIds
    <3>2. behindCount(b) < n /\ behindCount(b) \in Nat
      BY <1>0, <2>3, <3>1, LessIsBehind
    <3>3. ~(n <= behindCount(b))
      BY <2>4, <3>2
    <3> QED
      BY <2>2, <3>1, <3>2, <3>3
  <2> DEFINE T == {D[b] : b \in Blockers(k)}
  <2>6. CASE Blockers(k) = {}
    <3>1. D[k] = 0
      BY <1>4, <2>3, <2>6 DEF longer
    <3> QED
      BY <2>3, <2>4, <2>6, <3>1 DEF Deepest
  <2>7. CASE Blockers(k) # {}
    <3>1. \A b \in Blockers(k) : D[b] \in 0 .. n - 2
      BY <2>4, <2>5 DEF Deepest
    <3>2. n - 2 \in Nat /\ T # {} /\ T \in SUBSET (0 .. n - 2)
      BY <2>4, <2>7, <3>1
    <3>3. D[k] = 1 + Max(T)
      BY <1>4, <2>3, <2>7 DEF longer
    <3> HIDE DEF T
    <3>4. \E x \in T : \A y \in T : y <= x
      BY <3>2, GreatestOf
    <3>5. Max(T) \in T /\ \A y \in T : y <= Max(T)
      <4>1. \E x \in T : \A y \in T : x >= y
        BY <3>2, <3>4
      <4>2. Max(T) \in T /\ \A y \in T : Max(T) >= y
        BY <4>1 DEF Max
      <4> QED
        BY <3>2, <4>2
    <3>6. PICK b \in Blockers(k) : Max(T) = D[b]
      BY <3>5 DEF T
    <3>7. \A e \in Blockers(k) : D[e] \in Nat /\ D[e] <= Max(T)
      BY <3>1, <3>5 DEF T
    <3>8. D[k] \in 0 .. n - 1 /\ D[k] = D[b] + 1
      BY <2>4, <3>1, <3>3, <3>6
    <3>9. \A e \in Blockers(k) : D[e] < D[k]
      BY <3>3, <3>6, <3>7, <3>8
    <3> QED
      BY <2>3, <2>5, <3>7, <3>8, <3>9 DEF Deepest
  <2> QED
    BY <2>6, <2>7
<1>7. ASSUME i \notin Entangled PROVE Deepest(i)
  <2>1. behindCount(i) \in Nat
    BY <1>0, LessIsBehind
  <2> HIDE DEF Deepest
  <2> QED
    BY <1>6, <1>7, <2>1
<1>8. i \in Entangled => D[i] = InCycle
  BY <1>4 DEF longer
<1>9. D[i] \in Int /\ D[i] # NoDepth
  <2>1. behindCount(i) \in Nat
    BY <1>0, LessIsBehind
  <2> QED
    BY <1>7, <1>8, <2>1 DEF InCycle, NoDepth
<1>10. i \notin Entangled => D[i] \in Nat
  <2>1. behindCount(i) \in Nat
    BY <1>0, LessIsBehind
  <2> QED
    BY <1>7, <2>1
<1> QED
  BY <1>5, <1>7, <1>8, <1>9, <1>10 DEF D

-----------------------------------------------------------------------------
(* The walk of computeBlockerDepthInternal.                                *)
DepthMemo == [Id -> Int]
Measured == [depth : Int, memo : DepthMemo]

MeasuresBlockers(d, c) == \A n \in Id, memo \in DepthMemo : d[upCall(n, c, memo)] \in Measured

AfterDepth(d, c, n, before) ==
    LET r == d[upCall(n, c, before.memo)]
    IN  IF n \notin Blockers(c.issue) \/ before.depth = InCycle THEN before
        ELSE measured(deeper(before.depth, r.depth), r.memo)

\* A depth with its memo, and the deeper of two depths, have their types.
LEMMA MeasuredIs ==
    /\ \A x \in Int, memo \in DepthMemo :
           measured(x, memo) \in Measured /\ measured(x, memo).depth = x /\ measured(x, memo).memo = memo
    /\ \A x, y \in Int : deeper(x, y) \in Int
    /\ InCycle \in Int
BY DEF measured, Measured, deeper, InCycle

\* One blocker keeps the types.
LEMMA DepthIsTypedAfter ==
    ASSUME NEW d, NEW c \in DepthCall, MeasuresBlockers(d, c), NEW n \in Id, NEW before \in Measured
    PROVE  AfterDepth(d, c, n, before) \in Measured
<1> DEFINE r == d[upCall(n, c, before.memo)]
<1>1. before.memo \in DepthMemo /\ before.depth \in Int
  BY DEF Measured
<1>2. r \in Measured
  BY <1>1 DEF MeasuresBlockers
<1> HIDE DEF r
<1>3. measured(deeper(before.depth, r.depth), r.memo) \in Measured
  BY <1>1, <1>2, MeasuredIs DEF Measured
<1> QED
  BY <1>3 DEF AfterDepth, r

\* The blockers one after the other.
LEMMA MeasuredBlockersAre ==
    ASSUME NEW d, NEW c \in DepthCall, MeasuresBlockers(d, c)
    PROVE  LET up == depthOfBlockers(d, c)
           IN  /\ up \in [0 .. MaxId -> Measured]
               /\ up[0] = measured(0, c.memo)
               /\ \A n \in 1 .. MaxId : up[n] = AfterDepth(d, c, n, up[n - 1])
<1> DEFINE first == measured(0, c.memo)
           G == [x \in (1 .. MaxId) \X Measured |-> AfterDepth(d, c, x[1], x[2])]
           Body(up, n) ==
               IF n = 0 THEN first
               ELSE LET before == up[n - 1]
                        r == d[call(n, c.visiting \cup {c.issue}, before.memo)]
                    IN  IF n \notin Blockers(c.issue) \/ before.depth = InCycle THEN before
                        ELSE measured(deeper(before.depth, r.depth), r.memo)
           Is(up) == up = [n \in 0 .. MaxId |-> Body(up, n)]
<1>0. MaxId \in Nat /\ Id = 1 .. MaxId
  BY ReadinessAssumption DEF Id
<1>1. first \in Measured
  BY MeasuredIs DEF DepthCall, DepthMemo
<1>2. \A n \in 1 .. MaxId, b \in Measured : AfterDepth(d, c, n, b) \in Measured
  BY <1>0, DepthIsTypedAfter
<1>3. G \in [(1 .. MaxId) \X Measured -> Measured]
  BY <1>2
<1>4. \A n \in 1 .. MaxId, b \in Measured : G[<<n, b>>] = AfterDepth(d, c, n, b)
  OBVIOUS
<1>5. depthOfBlockers(d, c) = CHOOSE u : Is(u)
  BY DEF depthOfBlockers
<1> HIDE DEF G, first
<1>6. PICK f : Unfolds(f, MaxId, Measured, first, G)
  BY <1>0, <1>1, <1>3, Recursion
<1>7. Is(f)
  <2>1. f \in [0 .. MaxId -> Measured] /\ f[0] = first /\ \A n \in 1 .. MaxId : f[n] = G[<<n, f[n - 1]>>]
    BY <1>6 DEF Unfolds
  <2>2. \A n \in 0 .. MaxId : n # 0 => n \in 1 .. MaxId /\ n - 1 \in 0 .. MaxId
    BY <1>0
  <2>4. \A n \in 1 .. MaxId : f[n] = AfterDepth(d, c, n, f[n - 1])
    <3> SUFFICES ASSUME NEW n \in 1 .. MaxId PROVE f[n] = AfterDepth(d, c, n, f[n - 1])
      OBVIOUS
    <3>1. n - 1 \in 0 .. MaxId
      BY <1>0
    <3> QED
      BY <1>4, <2>1, <3>1
  <2>3. \A n \in 0 .. MaxId : f[n] = Body(f, n)
    BY <2>1, <2>2, <2>4 DEF AfterDepth, upCall
  <2> HIDE DEF Body
  <2> QED
    BY <2>1, <2>3
<1> DEFINE up == depthOfBlockers(d, c)
<1>8. Is(up)
  <2> HIDE DEF Is
  <2> QED
    BY <1>5, <1>7
<1> HIDE DEF up
<1>9. up[0] = first /\ \A n \in 1 .. MaxId : up[n] = AfterDepth(d, c, n, up[n - 1])
  <2>1. 0 \in 0 .. MaxId /\ \A n \in 1 .. MaxId : n \in 0 .. MaxId /\ n # 0
    BY <1>0
  <2>2. \A n \in 0 .. MaxId : up[n] = Body(up, n)
    BY <1>8
  <2> QED
    BY <2>1, <2>2 DEF AfterDepth, upCall
<1> DEFINE Good == {n \in 0 .. MaxId : up[n] \in Measured}
<1>10. 0 .. MaxId \subseteq Good
  <2>1. 0 \in Good
    BY <1>0, <1>1, <1>9
  <2>2. ASSUME NEW n \in 1 .. MaxId, n - 1 \in Good PROVE n \in Good
    <3>1. n \in 0 .. MaxId
      BY <1>0
    <3> QED
      BY <1>2, <1>9, <2>2, <3>1
  <2> HIDE DEF Good
  <2> QED
    BY <1>0, <2>1, <2>2, Upward
<1>11. \A n \in 0 .. MaxId : up[n] \in Measured
  <2>1. \A n \in Good : up[n] \in Measured
    OBVIOUS
  <2> HIDE DEF Good
  <2> QED
    BY <1>10, <2>1
<1>12. up \in [0 .. MaxId -> Measured]
  <2>1. up = [n \in 0 .. MaxId |-> Body(up, n)]
    BY <1>8
  <2> HIDE DEF Body
  <2> QED
    BY <1>11, <2>1
<1> QED
  BY <1>9, <1>12 DEF up, first

\* What holds before the first blocker and is kept by each holds after the last.
LEMMA MeasuredInTurn ==
    ASSUME NEW d, NEW c \in DepthCall, MeasuresBlockers(d, c), NEW T, measured(0, c.memo) \in T[0],
           \A n \in Id : \A r \in Measured : r \in T[n - 1] => AfterDepth(d, c, n, r) \in T[n]
    PROVE  depthOfBlockers(d, c)[MaxId] \in Measured /\ depthOfBlockers(d, c)[MaxId] \in T[MaxId]
<1> DEFINE up == depthOfBlockers(d, c)
           Good == {n \in 0 .. MaxId : up[n] \in T[n]}
<1>0. MaxId \in Nat /\ Id = 1 .. MaxId
  BY ReadinessAssumption DEF Id
<1>1. /\ up \in [0 .. MaxId -> Measured] /\ up[0] = measured(0, c.memo)
      /\ \A n \in 1 .. MaxId : up[n] = AfterDepth(d, c, n, up[n - 1])
  BY MeasuredBlockersAre
<1> HIDE DEF up
<1>2. 0 \in Good
  BY <1>0, <1>1
<1>3. ASSUME NEW n \in 1 .. MaxId, n - 1 \in Good PROVE n \in Good
  <2>1. n \in Id /\ n \in 0 .. MaxId /\ n - 1 \in 0 .. MaxId
    BY <1>0
  <2>2. up[n - 1] \in Measured /\ up[n - 1] \in T[n - 1]
    BY <1>1, <1>3, <2>1
  <2>3. up[n] \in T[n]
    BY <1>1, <2>1, <2>2
  <2> QED
    BY <2>1, <2>3
<1> HIDE DEF Good
<1>4. 0 .. MaxId \subseteq Good
  BY <1>0, <1>2, <1>3, Upward
<1>5. MaxId \in Good
  BY <1>0, <1>4
<1>6. up[MaxId] \in T[MaxId]
  BY <1>5 DEF Good
<1>7. up[MaxId] \in Measured
  BY <1>0, <1>1
<1> QED
  BY <1>6, <1>7 DEF up

\* The depth of an issue is a number, the same with d and e if they agree on the blockers.
LEMMA DepthIsTyped ==
    ASSUME NEW d, NEW c \in DepthCall, c.issue \notin c.visiting => MeasuresBlockers(d, c)
    PROVE  depthOfOne(d, c) \in Measured
<1> DEFINE last == depthOfBlockers(d, c)[MaxId]
<1>1. c.issue \in Id /\ c.memo \in DepthMemo /\ c.memo[c.issue] \in Int
  BY DEF DepthCall, DepthMemo
<1>2. MaxId \in 0 .. MaxId
  BY ReadinessAssumption
<1>3. c.issue \notin c.visiting => last \in Measured
  BY <1>2, MeasuredBlockersAre
<1> HIDE DEF last
<1>4. c.issue \notin c.visiting => measured(last.depth, [last.memo EXCEPT ![c.issue] = last.depth]) \in Measured
  <2> SUFFICES ASSUME c.issue \notin c.visiting
               PROVE  measured(last.depth, [last.memo EXCEPT ![c.issue] = last.depth]) \in Measured
    OBVIOUS
  <2>1. last.depth \in Int /\ last.memo \in DepthMemo
    BY <1>3 DEF Measured
  <2>2. [last.memo EXCEPT ![c.issue] = last.depth] \in DepthMemo
    BY <2>1 DEF DepthMemo
  <2> QED
    BY <2>1, <2>2, MeasuredIs
<1> QED
  BY <1>1, <1>4, MeasuredIs DEF depthOfOne, last

\* A call depends on the depth function only where it calls it.
LEMMA DepthAgrees ==
    ASSUME NEW d, NEW e, NEW c \in DepthCall,
           c.issue \notin c.visiting =>
               /\ MeasuresBlockers(d, c)
               /\ \A n \in Id, memo \in DepthMemo : d[upCall(n, c, memo)] = e[upCall(n, c, memo)]
    PROVE  depthOfOne(d, c) = depthOfOne(e, c)
<1>1. CASE c.issue \in c.visiting
  BY <1>1 DEF depthOfOne
<1>2. CASE c.issue \notin c.visiting
  <2> DEFINE up == depthOfBlockers(d, c)
             ep == depthOfBlockers(e, c)
             T == [n \in 0 .. MaxId |-> {ep[n]}]
  <2>0. MaxId \in Nat /\ Id = 1 .. MaxId
    BY ReadinessAssumption DEF Id
  <2>1. MeasuresBlockers(d, c) /\ MeasuresBlockers(e, c)
    BY <1>2 DEF MeasuresBlockers
  <2>2. /\ ep[0] = measured(0, c.memo)
        /\ \A n \in 1 .. MaxId : ep[n] = AfterDepth(e, c, n, ep[n - 1])
    BY <2>1, MeasuredBlockersAre
  <2> HIDE DEF ep
  <2>3. \A n \in 0 .. MaxId : T[n] = {ep[n]}
    OBVIOUS
  <2> HIDE DEF T
  <2>4. measured(0, c.memo) \in T[0]
    BY <2>0, <2>2, <2>3
  <2>5. ASSUME NEW n \in Id, NEW r \in Measured, r \in T[n - 1]
        PROVE  AfterDepth(d, c, n, r) \in T[n]
    <3>1. n \in 1 .. MaxId /\ n \in 0 .. MaxId /\ n - 1 \in 0 .. MaxId
      BY <2>0
    <3>2. r = ep[n - 1]
      BY <2>3, <2>5, <3>1
    <3>3. r.memo \in DepthMemo
      BY DEF Measured
    <3>4. AfterDepth(d, c, n, r) = AfterDepth(e, c, n, r)
      BY <1>2, <3>3 DEF AfterDepth
    <3> QED
      BY <2>2, <2>3, <3>1, <3>2, <3>4
  <2>6. up[MaxId] \in T[MaxId]
    BY <2>1, <2>4, <2>5, MeasuredInTurn
  <2>7. up[MaxId] = ep[MaxId]
    BY <2>0, <2>3, <2>6
  <2> QED
    BY <2>7 DEF depthOfOne, ep
<1> QED
  BY <1>1, <1>2

\* What the walk is defined to be.
Measures(d) == d = [c \in DepthCall |-> depthOfOne(d, c)]

\* There is such a function.
LEMMA DepthExists == \E d : Measures(d)
<1> DEFINE C == CallsOver(DepthMemo)
           A == [C -> Measured]
           F == [d \in A |-> [c \in C |-> depthOfOne(d, c)]]
<1>1. DepthCall = C
  BY DEF DepthCall, CallsOver, DepthMemo
<1>2. Measured # {}
  <2>1. [i \in Id |-> 0] \in DepthMemo
    BY DEF DepthMemo
  <2> QED
    BY <2>1, MeasuredIs
<1>3. \A d \in A, c \in C : MeasuresBlockers(d, c)
  BY <1>1, BlockerHasLessRoom DEF MeasuresBlockers
<1>4. F \in [A -> A]
  BY <1>1, <1>3, DepthIsTyped
<1>5. \A d \in A : F[d] = [c \in C |-> depthOfOne(d, c)]
  OBVIOUS
<1> HIDE DEF F, C
<1>6. ASSUME NEW d \in A, NEW e \in A, NEW c \in C,
             c.issue \notin c.visiting =>
                 \A n \in Id, memo \in DepthMemo : d[upCall(n, c, memo)] = e[upCall(n, c, memo)]
      PROVE  F[d][c] = F[e][c]
  <2>1. depthOfOne(d, c) = depthOfOne(e, c)
    BY <1>1, <1>3, <1>6, DepthAgrees
  <2>2. F[d][c] = depthOfOne(d, c) /\ F[e][c] = depthOfOne(e, c)
    BY <1>5
  <2> QED
    BY <2>1, <2>2
<1>7. Descends(F, DepthMemo, Measured)
  BY <1>4, <1>6 DEF C, Descends
<1>9. PICK d : Settled(d, F, DepthMemo, Measured)
  BY <1>2, <1>7, WalkExists
<1>8. d = [c \in DepthCall |-> depthOfOne(d, c)]
  BY <1>1, <1>5, <1>9 DEF Settled, C
<1> QED
  BY <1>8 DEF Measures

\* The walk returns a depth and the memo.
LEMMA MeasuresAreTyped ==
    ASSUME NEW d, Measures(d)
    PROVE  \A c \in DepthCall : d[c] \in Measured /\ d[c] = depthOfOne(d, c)
<1> DEFINE S == {c \in DepthCall : d[c] \in Measured}
<1>1. \A c \in DepthCall : d[c] = depthOfOne(d, c)
  BY DEF Measures
<1>2. DepthCall = CallsOver(DepthMemo)
  BY DEF DepthCall, CallsOver, DepthMemo
<1>3. ASSUME NEW c \in CallsOver(DepthMemo),
             c.issue \notin c.visiting => \A n \in Id, memo \in DepthMemo : upCall(n, c, memo) \in S
      PROVE  c \in S
  <2>1. c.issue \notin c.visiting => MeasuresBlockers(d, c)
    BY <1>3 DEF MeasuresBlockers
  <2> QED
    BY <1>1, <1>2, <2>1, DepthIsTyped
<1> HIDE DEF S
<1>4. CallsOver(DepthMemo) \subseteq S
  BY <1>3, CallInduction
<1> QED
  BY <1>1, <1>2, <1>4 DEF S

-----------------------------------------------------------------------------
\* What the cache holds is true.
TrueMemo(memo) == memo \in DepthMemo /\ \A k \in Id : memo[k] # NoDepth => memo[k] = TrueDepth[k]

Keeps(memo, later) == \A k \in Id : memo[k] # NoDepth => later[k] # NoDepth

\* A call that the walk makes: what is visited leads to the issue.
SoundDepthCall(c) ==
    TrueMemo(c.memo) /\ \A k \in c.visiting : c.issue \in Reached(Blockers(k), Blocks)

\* What the call returns.
MeasuredTrue(c, r) ==
    /\ r.depth = TrueDepth[c.issue] /\ TrueMemo(r.memo) /\ Keeps(c.memo, r.memo)
    /\ c.issue \notin c.visiting => r.memo[c.issue] # NoDepth

\* A blocker of the issue of a sound call is called soundly.
LEMMA DeeperIsSound ==
    ASSUME Tabled, NEW c \in DepthCall, SoundDepthCall(c), NEW n \in Blockers(c.issue), NEW memo, TrueMemo(memo)
    PROVE  SoundDepthCall(upCall(n, c, memo))
<1> DEFINE i == c.issue
           V == c.visiting
<1>1. i \in Id /\ V \in SUBSET Id
  BY DEF DepthCall
<1>2. upCall(n, c, memo).issue = n /\ upCall(n, c, memo).visiting = V \cup {i} /\ upCall(n, c, memo).memo = memo
  BY DEF upCall, call
<1>3. ASSUME NEW k \in V \cup {i} PROVE n \in Reached(Blockers(k), Blocks)
  <2>1. CASE k = i
    BY <1>1, <2>1, CircleIs
  <2>2. CASE k \in V
    <3>1. i \in Reached(Blockers(k), Blocks)
      BY <2>2 DEF SoundDepthCall
    <3> QED
      BY <1>1, <2>2, <3>1, CircleIs
  <2> QED
    BY <2>1, <2>2
<1> QED
  BY <1>2, <1>3 DEF SoundDepthCall

\* The blockers up to n: one enters a cycle, or the depth is above all of theirs and next to
\* one.
DepthUpTo(i, n, depth) ==
    \/ depth = InCycle /\ i \in Entangled
    \/ /\ depth \in Nat /\ \A b \in Blockers(i) : b <= n => b \notin Entangled /\ TrueDepth[b] < depth
       /\ depth = 0 \/ \E b \in Blockers(i) : b \notin Entangled /\ depth = TrueDepth[b] + 1

\* One blocker more.
LEMMA DepthGrows ==
    ASSUME Tabled, NEW i \in Id, NEW n \in Blockers(i), NEW depth \in Int, depth # InCycle,
           DepthUpTo(i, n - 1, depth)
    PROVE  DepthUpTo(i, n, deeper(depth, TrueDepth[n]))
<1> DEFINE under == TrueDepth[n]
           next == deeper(depth, under)
<1>1. Id \subseteq Nat /\ Blockers(i) \in SUBSET Id
  BY BlockersAreIds DEF Id
<1>2. n \in Id /\ n \in Nat /\ \A b \in Blockers(i) : b <= n => b <= n - 1 \/ b = n
  <2>1. n \in Nat /\ \A b \in Blockers(i) : b \in Nat
    BY <1>1
  <2>2. \A b \in Nat : b <= n => b <= n - 1 \/ b = n
    BY <2>1
  <2> QED
    BY <1>1, <2>1, <2>2
<1>3. CASE n \in Entangled
  <2>1. i \in Entangled /\ next = InCycle
    BY <1>2, <1>3, EntangledBelow, DepthIs DEF deeper
  <2> QED
    BY <2>1 DEF DepthUpTo
<1>4. CASE n \notin Entangled
  <2>1. under \in Nat /\ under # InCycle
    BY <1>2, <1>4, DepthIs DEF InCycle
  <2>2. /\ depth \in Nat /\ \A b \in Blockers(i) : b <= n - 1 => b \notin Entangled /\ TrueDepth[b] < depth
        /\ depth = 0 \/ \E b \in Blockers(i) : b \notin Entangled /\ depth = TrueDepth[b] + 1
    BY DEF DepthUpTo
  <2>3. next = IF under + 1 > depth THEN under + 1 ELSE depth
    BY <2>1 DEF deeper
  <2> HIDE DEF next
  <2>4. next \in Nat /\ next >= depth /\ under < next /\ (next = depth \/ next = under + 1)
    BY <2>1, <2>2, <2>3
  <2>5. ASSUME NEW b \in Blockers(i), b <= n PROVE b \notin Entangled /\ TrueDepth[b] < next
    <3>1. CASE b = n
      BY <1>4, <2>4, <3>1
    <3>2. CASE b # n
      <4>1. b <= n - 1
        BY <1>2, <2>5, <3>2
      <4>2. b \notin Entangled /\ TrueDepth[b] < depth /\ TrueDepth[b] \in Nat
        BY <1>1, <2>2, <4>1, DepthIs
      <4> QED
        BY <2>2, <2>4, <4>2
    <3> QED
      BY <3>1, <3>2
  <2>6. next = 0 \/ \E b \in Blockers(i) : b \notin Entangled /\ next = TrueDepth[b] + 1
    BY <1>4, <2>2, <2>4
  <2>7. DepthUpTo(i, n, next)
    BY <2>4, <2>5, <2>6 DEF DepthUpTo
  <2> QED
    BY <2>7 DEF next
<1> QED
  BY <1>3, <1>4

\* All blockers.
LEMMA DepthIsReached ==
    ASSUME Tabled, NEW i \in Id, NEW depth, DepthUpTo(i, MaxId, depth)
    PROVE  depth = TrueDepth[i]
<1>1. MaxId \in Nat /\ Id = 1 .. MaxId /\ Blockers(i) \in SUBSET Id
  BY BlockersAreIds, ReadinessAssumption DEF Id
<1>2. CASE depth = InCycle /\ i \in Entangled
  BY <1>2, DepthIs
<1>3. CASE ~(depth = InCycle /\ i \in Entangled)
  <2>1. /\ depth \in Nat /\ \A b \in Blockers(i) : b <= MaxId => b \notin Entangled /\ TrueDepth[b] < depth
        /\ depth = 0 \/ \E b \in Blockers(i) : depth = TrueDepth[b] + 1
    BY <1>3 DEF DepthUpTo
  <2>2. \A b \in Blockers(i) : b \notin Entangled /\ TrueDepth[b] < depth
    BY <1>1, <2>1
  <2>3. i \notin Entangled
    BY <2>2, EntangledBelow
  <2>4. /\ TrueDepth[i] \in Nat
        /\ \A b \in Blockers(i) : TrueDepth[b] \in Nat /\ TrueDepth[b] < TrueDepth[i]
        /\ TrueDepth[i] = 0 \/ \E b \in Blockers(i) : TrueDepth[i] = TrueDepth[b] + 1
    BY <2>3, DepthIs
  <2>5. depth <= TrueDepth[i]
    BY <2>1, <2>4
  <2>6. TrueDepth[i] <= depth
    BY <2>1, <2>2, <2>4
  <2> QED
    BY <2>1, <2>4, <2>5, <2>6
<1> QED
  BY <1>2, <1>3

\* Every blocker of the issue is measured.
LEMMA BlockersAreMeasured ==
    ASSUME Tabled, NEW d, NEW c \in DepthCall, MeasuresBlockers(d, c), SoundDepthCall(c),
           \A n \in Blockers(c.issue), memo \in DepthMemo :
               SoundDepthCall(upCall(n, c, memo)) => MeasuredTrue(upCall(n, c, memo), d[upCall(n, c, memo)])
    PROVE  LET last == depthOfBlockers(d, c)[MaxId]
           IN  /\ last \in Measured /\ last.depth = TrueDepth[c.issue] /\ TrueMemo(last.memo)
               /\ Keeps(c.memo, last.memo)
<1> DEFINE i == c.issue
           Ok(n, r) == /\ r \in Measured /\ TrueMemo(r.memo) /\ Keeps(c.memo, r.memo)
                       /\ DepthUpTo(i, n, r.depth)
           T == [n \in 0 .. MaxId |-> {r \in Measured : Ok(n, r)}]
<1>0. MaxId \in Nat /\ Id = 1 .. MaxId
  BY ReadinessAssumption DEF Id
<1>1. i \in Id /\ c.memo \in DepthMemo /\ Blockers(i) \in SUBSET Id
  BY BlockersAreIds DEF DepthCall, DepthMemo
<1>2. Ok(0, measured(0, c.memo))
  <2>1. \A b \in Blockers(i) : ~(b <= 0)
    BY <1>0, <1>1
  <2>2. DepthUpTo(i, 0, 0)
    BY <2>1 DEF DepthUpTo
  <2>3. measured(0, c.memo) \in Measured /\ measured(0, c.memo).depth = 0 /\ measured(0, c.memo).memo = c.memo
    BY <1>1 DEF measured, Measured
  <2>4. TrueMemo(c.memo) /\ Keeps(c.memo, c.memo)
    BY DEF SoundDepthCall, Keeps
  <2> QED
    BY <2>2, <2>3, <2>4
<1>3. ASSUME NEW n \in Id, NEW r \in Measured, Ok(n - 1, r) PROVE Ok(n, AfterDepth(d, c, n, r))
  <2>0. r.memo \in DepthMemo /\ r.depth \in Int
    BY DEF Measured
  <2>1. n \in Nat /\ \A b \in Blockers(i) : b <= n => b <= n - 1 \/ b = n
    BY <1>0, <1>1
  <2>2. CASE n \notin Blockers(i)
    <3>1. AfterDepth(d, c, n, r) = r
      BY <2>2 DEF AfterDepth
    <3>2. \A b \in Blockers(i) : b <= n => b <= n - 1
      BY <2>1, <2>2
    <3>3. DepthUpTo(i, n, r.depth)
      BY <1>3, <3>2 DEF DepthUpTo
    <3> QED
      BY <1>3, <3>1, <3>3
  <2>3. CASE r.depth = InCycle
    <3>1. AfterDepth(d, c, n, r) = r
      BY <2>3 DEF AfterDepth
    <3>2. InCycle \notin Nat
      BY DEF InCycle
    <3>3. DepthUpTo(i, n, r.depth)
      BY <1>3, <2>3, <3>2 DEF DepthUpTo
    <3> QED
      BY <1>3, <3>1, <3>3
  <2>4. CASE n \in Blockers(i) /\ r.depth # InCycle
    <3> DEFINE u == upCall(n, c, r.memo)
               under == d[u]
    <3>1. AfterDepth(d, c, n, r) = measured(deeper(r.depth, under.depth), under.memo)
      BY <2>4 DEF AfterDepth
    <3>2. SoundDepthCall(u)
      BY <1>3, <2>4, DeeperIsSound
    <3>3. MeasuredTrue(u, under) /\ under \in Measured
      BY <2>0, <2>4, <3>2 DEF MeasuresBlockers
    <3>4. u.issue = n /\ u.memo = r.memo
      BY DEF upCall, call
    <3> HIDE DEF u, under
    <3>5. /\ under.depth = TrueDepth[n] /\ TrueMemo(under.memo) /\ Keeps(r.memo, under.memo)
          /\ under.depth \in Int /\ under.memo \in DepthMemo
      BY <3>3, <3>4 DEF MeasuredTrue, Measured
    <3>6. DepthUpTo(i, n, deeper(r.depth, under.depth))
      BY <1>1, <1>3, <2>0, <2>4, <3>5, DepthGrows
    <3>7. Keeps(c.memo, under.memo)
      BY <1>3, <3>5 DEF Keeps
    <3>8. deeper(r.depth, under.depth) \in Int
      BY <2>0, <3>5, MeasuredIs
    <3> DEFINE next == measured(deeper(r.depth, under.depth), under.memo)
    <3>9. next \in Measured /\ next.depth = deeper(r.depth, under.depth) /\ next.memo = under.memo
      BY <3>5, <3>8, MeasuredIs
    <3> HIDE DEF next
    <3>10. Ok(n, next)
      BY <3>5, <3>6, <3>7, <3>9
    <3> QED
      BY <3>1, <3>10 DEF next
  <2> QED
    BY <2>2, <2>3, <2>4
<1> DEFINE last == depthOfBlockers(d, c)[MaxId]
<1>4. last \in Measured /\ last \in T[MaxId]
  <2> HIDE DEF Ok
  <2>1. \A n \in 0 .. MaxId, r \in Measured : r \in T[n] <=> Ok(n, r)
    OBVIOUS
  <2> HIDE DEF T
  <2>2. 0 \in 0 .. MaxId /\ \A n \in Id : n - 1 \in 0 .. MaxId /\ n \in 0 .. MaxId
    BY <1>0
  <2>3. measured(0, c.memo) \in T[0]
    <3>1. measured(0, c.memo) \in Measured
      BY <1>2 DEF Ok
    <3> QED
      BY <1>2, <2>1, <2>2, <3>1
  <2>4. ASSUME NEW n \in Id, NEW r \in Measured, r \in T[n - 1]
        PROVE  AfterDepth(d, c, n, r) \in T[n]
    <3>1. Ok(n, AfterDepth(d, c, n, r))
      BY <1>3, <2>1, <2>2, <2>4
    <3>2. AfterDepth(d, c, n, r) \in Measured
      BY <3>1 DEF Ok
    <3> QED
      BY <2>1, <2>2, <3>1, <3>2
  <2> QED
    BY <2>3, <2>4, MeasuredInTurn
<1>5. Ok(MaxId, last)
  <2> HIDE DEF Ok, last
  <2> QED
    BY <1>0, <1>4
<1>6. last.depth = TrueDepth[i]
  <2> HIDE DEF last
  <2> QED
    BY <1>1, <1>5, DepthIsReached
<1> HIDE DEF last
<1> QED
  BY <1>5, <1>6 DEF last

\* Every sound call measures the depth of its issue.
LEMMA DepthIsTrue ==
    ASSUME Tabled, NEW d, Measures(d)
    PROVE  \A c \in DepthCall : SoundDepthCall(c) => MeasuredTrue(c, d[c])
<1> DEFINE S == {c \in DepthCall : SoundDepthCall(c) => MeasuredTrue(c, d[c])}
<1>1. \A c \in DepthCall : d[c] \in Measured /\ d[c] = depthOfOne(d, c)
  BY MeasuresAreTyped
<1>2. DepthCall = CallsOver(DepthMemo)
  BY DEF DepthCall, CallsOver, DepthMemo
<1>3. ASSUME NEW c \in DepthCall, SoundDepthCall(c),
             c.issue \notin c.visiting => \A n \in Id, memo \in DepthMemo : upCall(n, c, memo) \in S
      PROVE  MeasuredTrue(c, d[c])
  <2> DEFINE i == c.issue
             V == c.visiting
             memo == c.memo
  <2>1. i \in Id /\ V \in SUBSET Id /\ memo \in DepthMemo /\ memo[i] \in Int /\ d[c] = depthOfOne(d, c)
    BY <1>1 DEF DepthCall, DepthMemo
  <2>2. TrueMemo(memo) /\ Keeps(memo, memo)
    BY <1>3 DEF SoundDepthCall, Keeps
  <2>3. CASE memo[i] # NoDepth
    <3>1. d[c] = measured(memo[i], memo)
      BY <2>1, <2>3 DEF depthOfOne
    <3>2. d[c].depth = memo[i] /\ d[c].memo = memo
      BY <2>1, <3>1, MeasuredIs
    <3>3. memo[i] = TrueDepth[i]
      BY <2>1, <2>2, <2>3 DEF TrueMemo
    <3> QED
      BY <2>2, <2>3, <3>2, <3>3 DEF MeasuredTrue
  <2>4. CASE memo[i] = NoDepth /\ i \in V
    <3>1. d[c] = measured(InCycle, memo)
      BY <2>1, <2>4 DEF depthOfOne
    <3>2. d[c].depth = InCycle /\ d[c].memo = memo
      BY <2>1, <3>1, MeasuredIs
    <3>3. Circled(i)
      BY <1>3, <2>4 DEF SoundDepthCall, Circled
    <3>4. i \in Entangled
      BY <2>1, <3>3, BehindIs
    <3>5. TrueDepth[i] = InCycle
      BY <2>1, <3>4, DepthIs
    <3> QED
      BY <2>2, <2>4, <3>2, <3>5 DEF MeasuredTrue
  <2>5. CASE memo[i] = NoDepth /\ i \notin V
    <3> DEFINE last == depthOfBlockers(d, c)[MaxId]
               next == [last.memo EXCEPT ![i] = last.depth]
    <3>1. d[c] = measured(last.depth, next)
      BY <2>1, <2>5 DEF depthOfOne
    <3>2. MeasuresBlockers(d, c)
      BY <1>1, <1>2, BlockerHasLessRoom DEF MeasuresBlockers
    <3>3. ASSUME NEW n \in Blockers(i), NEW m \in DepthMemo, SoundDepthCall(upCall(n, c, m))
          PROVE  MeasuredTrue(upCall(n, c, m), d[upCall(n, c, m)])
      <4>1. n \in Id
        BY <2>1, BlockersAreIds
      <4> QED
        BY <1>3, <2>5, <3>3, <4>1
    <3>4. last \in Measured /\ last.depth = TrueDepth[i] /\ TrueMemo(last.memo) /\ Keeps(memo, last.memo)
      BY <1>3, <3>2, <3>3, BlockersAreMeasured
    <3> HIDE DEF last
    <3>5. last.depth \in Int /\ last.memo \in DepthMemo /\ last.depth # NoDepth
      BY <2>1, <3>4, DepthIs DEF Measured
    <3>6. next \in DepthMemo /\ next[i] = last.depth /\ \A k \in Id \ {i} : next[k] = last.memo[k]
      BY <2>1, <3>5 DEF DepthMemo
    <3> HIDE DEF next
    <3>7. TrueMemo(next) /\ Keeps(memo, next)
      BY <3>4, <3>5, <3>6 DEF TrueMemo, Keeps
    <3>8. d[c].depth = last.depth /\ d[c].memo = next
      BY <3>1 DEF measured
    <3> QED
      BY <3>4, <3>5, <3>6, <3>7, <3>8 DEF MeasuredTrue
  <2> QED
    BY <2>3, <2>4, <2>5
<1>4. ASSUME NEW c \in CallsOver(DepthMemo),
             c.issue \notin c.visiting => \A n \in Id, memo \in DepthMemo : upCall(n, c, memo) \in S
      PROVE  c \in S
  BY <1>2, <1>3, <1>4
<1> HIDE DEF S
<1>5. CallsOver(DepthMemo) \subseteq S
  BY <1>4, CallInduction
<1> QED
  BY <1>2, <1>5 DEF S

\* One issue is measured, and the cache stays true.
LEMMA OneIsMeasured ==
    ASSUME Tabled, NEW i \in Id, NEW cache, TrueMemo(cache)
    PROVE  /\ TrueMemo(depthOf(i, cache).memo) /\ Keeps(cache, depthOf(i, cache).memo)
           /\ depthOf(i, cache).memo[i] # NoDepth
<1> DEFINE start == call(i, {}, cache)
           d == CHOOSE e : Measures(e)
<1>1. Measures(d)
  BY DepthExists
<1>2. depthOf(i, cache) = d[start]
  BY DEF depthOf, Measures
<1> HIDE DEF d
<1>3. start.issue = i /\ start.visiting = {} /\ start.memo = cache /\ start \in DepthCall
  BY DEF call, DepthCall, TrueMemo, DepthMemo
<1> HIDE DEF start
<1>4. SoundDepthCall(start)
  BY <1>3 DEF SoundDepthCall
<1>5. MeasuredTrue(start, d[start])
  BY <1>1, <1>3, <1>4, DepthIsTrue
<1> QED
  BY <1>2, <1>3, <1>5 DEF MeasuredTrue

\* All issues are, in whatever order.
LEMMA AllAreMeasured ==
    ASSUME Tabled, NEW order \in [Id -> Id], IsInjective(order)
    PROVE  AllBlockerDepths(order) = TrueDepth
<1> DEFINE first == [i \in Id |-> NoDepth]
           A == {m \in DepthMemo : TrueMemo(m)}
           Is(t) == t = [n \in 0 .. MaxId |-> IF n = 0 THEN first ELSE depthOf(order[n], t[n - 1]).memo]
           G == [x \in (1 .. MaxId) \X A |-> depthOf(order[x[1]], x[2]).memo]
<1>0. MaxId \in Nat /\ Id = 1 .. MaxId /\ IsFiniteSet(Id)
  BY FS_Interval, ReadinessAssumption DEF Id
<1>1. first \in A
  BY DEF NoDepth, DepthMemo, TrueMemo
<1>2. ASSUME NEW n \in 1 .. MaxId, NEW m \in A
      PROVE  /\ depthOf(order[n], m).memo \in A /\ Keeps(m, depthOf(order[n], m).memo)
             /\ depthOf(order[n], m).memo[order[n]] # NoDepth
  <2>1. order[n] \in Id
    BY <1>0
  <2>2. TrueMemo(m)
    OBVIOUS
  <2>3. /\ TrueMemo(depthOf(order[n], m).memo) /\ Keeps(m, depthOf(order[n], m).memo)
        /\ depthOf(order[n], m).memo[order[n]] # NoDepth
    BY <2>1, <2>2, OneIsMeasured
  <2> QED
    BY <2>3 DEF TrueMemo
<1>3. AllBlockerDepths(order) = (CHOOSE t : Is(t))[MaxId]
  BY DEF AllBlockerDepths
<1> HIDE DEF first, A
<1>4. G \in [(1 .. MaxId) \X A -> A]
  BY <1>2
<1>5. \A n \in 1 .. MaxId, m \in A : G[<<n, m>>] = depthOf(order[n], m).memo
  OBVIOUS
<1> HIDE DEF G
<1>6. PICK f : Unfolds(f, MaxId, A, first, G)
  BY <1>0, <1>1, <1>4, Recursion
<1>7. Is(f)
  <2>1. f \in [0 .. MaxId -> A] /\ f[0] = first /\ \A n \in 1 .. MaxId : f[n] = G[<<n, f[n - 1]>>]
    BY <1>6 DEF Unfolds
  <2>2. \A n \in 0 .. MaxId : n # 0 => n \in 1 .. MaxId /\ n - 1 \in 0 .. MaxId
    BY <1>0
  <2>3. \A n \in 0 .. MaxId : f[n] = IF n = 0 THEN first ELSE depthOf(order[n], f[n - 1]).memo
    BY <1>5, <2>1, <2>2
  <2> QED
    BY <2>1, <2>3
<1> DEFINE t == CHOOSE u : Is(u)
<1>8. Is(t)
  <2> HIDE DEF Is
  <2> QED
    BY <1>7
<1> HIDE DEF t
<1>9. t[0] = first /\ \A n \in 1 .. MaxId : t[n] = depthOf(order[n], t[n - 1]).memo
  <2>1. 0 \in 0 .. MaxId /\ \A n \in 1 .. MaxId : n \in 0 .. MaxId /\ n # 0
    BY <1>0
  <2> QED
    BY <1>8, <2>1
<1> DEFINE Good(n) == t[n] \in A /\ \A k \in 1 .. n : t[n][order[k]] # NoDepth
           S == {n \in 0 .. MaxId : Good(n)}
<1>10. 0 .. MaxId \subseteq S
  <2>1. 0 \in S
    <3>1. \A k \in 1 .. 0 : FALSE
      OBVIOUS
    <3> QED
      BY <1>0, <1>1, <1>9, <3>1
  <2>2. ASSUME NEW n \in 1 .. MaxId, n - 1 \in S PROVE n \in S
    <3>1. n \in 0 .. MaxId /\ Good(n - 1)
      BY <1>0, <2>2
    <3>2. t[n] \in A /\ Keeps(t[n - 1], t[n]) /\ t[n][order[n]] # NoDepth
      BY <1>2, <1>9, <3>1
    <3>3. ASSUME NEW k \in 1 .. n PROVE t[n][order[k]] # NoDepth
      <4>1. CASE k = n
        BY <3>2, <4>1
      <4>2. CASE k # n
        <5>1. k \in 1 .. n - 1 /\ order[k] \in Id
          BY <1>0, <4>2
        <5> QED
          BY <3>1, <3>2, <5>1 DEF Keeps
      <4> QED
        BY <4>1, <4>2
    <3> QED
      BY <3>1, <3>2, <3>3
  <2> HIDE DEF S
  <2> QED
    BY <1>0, <2>1, <2>2, Upward
<1> DEFINE last == t[MaxId]
<1>11. Good(MaxId)
  <2>1. MaxId \in S
    <3> HIDE DEF S
    <3> QED
      BY <1>0, <1>10
  <2> HIDE DEF Good
  <2> QED
    BY <2>1
<1>12. last \in A /\ \A k \in Id : last[order[k]] # NoDepth
  BY <1>0, <1>11
<1> HIDE DEF last
<1>13. \A i \in Id : \E k \in Id : order[k] = i
  <2>1. order \in Injection(Id, Id)
    BY DEF IsInjective, Injection
  <2>2. order \in Surjection(Id, Id)
    BY <1>0, <2>1, FS_Injection
  <2> QED
    BY <2>2 DEF Surjection
<1>14. \A i \in Id : last[i] = TrueDepth[i]
  BY <1>12, <1>13 DEF A, TrueMemo
<1>15. last = [i \in Id |-> last[i]]
  BY <1>12 DEF A, DepthMemo
<1>16. \A i \in Id : TrueDepth = [k \in Id |-> TrueDepth[k]]
  BY DepthIs
<1>17. 1 \in Id
  BY ReadinessAssumption DEF Id
<1>18. last = TrueDepth
  BY <1>14, <1>15, <1>16, <1>17
<1> QED
  BY <1>3, <1>18 DEF last, t

\* Chains and depths.
LEMMA ExactChainsAreWhole ==
    ASSUME Tabled
    PROVE  ChainsAreWhole
<1>1. \A order \in {s \in [Id -> Id] : IsInjective(s)} : AllBlockerDepths(order) = TrueDepth
  BY AllAreMeasured
<1>2. \A i \in Known :
          LET result == GetBlockerChain(i)
              behind == Behind(i) \cap Known
          IN  /\ result.chain = behind
              /\ result.cycle <=> i \in Entangled
              /\ result.roots = {k \in behind : Blockers(k) = {}} \ {i}
  BY ChainIsWhole
<1> QED
  BY <1>1, <1>2 DEF ChainsAreWhole

-----------------------------------------------------------------------------
(* All plans *)

\* What is planned from exact states is sound.
LEMMA ExactPlanningIsSound ==
    ASSUME Tabled, ComputeIsExact
    PROVE  PlanningIsSound
<1>1. ASSUME computed
      PROVE  /\ TracksAreIndependent /\ UnblocksAreReal /\ ChainsAreWhole
             /\ PicksAreFeasible /\ GainIsReal
  BY <1>1, ExactTracksAreIndependent, ExactUnblocksAreReal, ExactChainsAreWhole, ExactPicksAreFeasible,
     ExactGainIsReal
<1> QED
  BY <1>1 DEF PlanningIsSound

\* The inductive invariant of compute is enough for all that is planned.
LEMMA InvariantIsSound == ComputeInv => PlanningIsSound
<1> SUFFICES ASSUME ComputeInv PROVE PlanningIsSound
  OBVIOUS
<1>1. Tabled /\ ComputeIsExact
  BY ComputedIsTrue DEF ComputeInv, QueueInv
<1> QED
  BY <1>1, ExactPlanningIsSound

\* Once compute is done, every plan made from its states keeps to the issues: no track
\* waits for another, what a completion is said to unblock becomes ready by it and by
\* no less, chains and depths are those of the blockers, cycles included, each greedy
\* pick can be started when its turn comes, and the gain is of tracks that there are.
THEOREM PlanningIsSoundHolds == ReadinessSpec => []PlanningIsSound
<1> QED
  BY InvariantIsSound, ComputeInvariant, PTL
=============================================================================
