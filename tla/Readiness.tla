-------------------------------- MODULE Readiness --------------------------------
(***************************************************************************)
(* pkg/model/readiness.go: which issues can be worked on.  NewReadinessIndex*)
(* hands the state of parents down to their children in the order of a work*)
(* queue; ReadyAfter answers what would be ready once given issues were    *)
(* done, by a walk up the parents that remembers what it saw.  Both are    *)
(* compared with what their comments define.                               *)
(***************************************************************************)
EXTENDS Integers, FiniteSets, Sequences, SequencesExt

CONSTANTS
    MaxId,           \* bound: the IDs an issue may have or a dependency may name
    MaxPerKind,      \* bound: dependencies of an issue of a kind
    MaxDependencies  \* bound: dependencies of all issues, and issues withheld, together

ASSUME ReadinessAssumption ==
    MaxId \in Nat \ {0} /\ MaxPerKind \in Nat /\ MaxDependencies \in Nat

Id == 1 .. MaxId

VARIABLES
    issues,        \* status: "open" (or in progress), "parked" (any status between open and
                   \* closed, or deferred), "closed", "absent" where the source has no such
                   \* issue; whether the output is to hold it; blocking dependencies; parents
    states,        \* ReadinessIndex.states
    pending,       \* of an issue, the open parents not yet handed down
    queue,         \* the work queue; map iteration gives it any order
    computed       \* compute has returned

readyVars == <<issues, states, pending, queue, computed>>

Satisfied == "satisfied"
Unsatisfied == "unsatisfied"
Unknown == "unknown"
DependencyStates == {Satisfied, Unsatisfied, Unknown}

Named == {S \in SUBSET Id : Cardinality(S) <= MaxPerKind}

\* Only of an issue that can be worked on does it matter whether it is a candidate.
Row == [status : {"open"}, candidate : BOOLEAN, blockers : Named, parents : Named]
           \cup [status : {"parked"}, candidate : {TRUE}, blockers : Named, parents : Named]
           \cup [status : {"closed", "absent"}, candidate : {TRUE}, blockers : {{}}, parents : {{}}]

extent(row) ==
    Cardinality(row.blockers) + Cardinality(row.parents)
        + (IF row.status = "parked" \/ ~row.candidate THEN 1 ELSE 0)

Tables == {t \in [Id -> Row] :
              FoldFunction(+, 0, [i \in Id |-> extent(t[i])]) <= MaxDependencies}

exists(i) == issues[i].status # "absent"
closed(i) == issues[i].status = "closed"
isOpen(i) == exists(i) /\ ~closed(i)
workable(i) == issues[i].status = "open"

combineDependencyState(a, b) ==
    IF Unknown \in {a, b} THEN Unknown
    ELSE IF Unsatisfied \in {a, b} THEN Unsatisfied ELSE Satisfied

-----------------------------------------------------------------------------
(* NewReadinessIndex and the first loop of compute.                        *)
OwnState(i) ==
    IF ~isOpen(i) THEN Satisfied
    ELSE IF \E d \in issues[i].blockers \cup issues[i].parents : ~exists(d) THEN Unknown
    ELSE IF \E b \in issues[i].blockers : isOpen(b) THEN Unsatisfied ELSE Satisfied

ReadinessInit ==
    /\ issues \in Tables
    /\ states = [i \in Id |-> OwnState(i)]
    /\ pending = [i \in Id |-> IF ~isOpen(i) THEN 0
                                ELSE Cardinality({p \in issues[i].parents : isOpen(p)})]
    /\ queue = {i \in Id : isOpen(i) /\ pending[i] = 0}
    /\ computed = FALSE

openChildren(i) == {c \in Id : isOpen(c) /\ i \in issues[c].parents}

(* One round of the queue: the issue's state goes to its open children.    *)
HandDown(i) ==
    /\ i \in queue
    /\ states' = [c \in Id |-> IF c \in openChildren(i)
                               THEN combineDependencyState(states[c], states[i]) ELSE states[c]]
    /\ pending' = [c \in Id |-> IF c \in openChildren(i) THEN pending[c] - 1 ELSE pending[c]]
    /\ queue' = (queue \ {i}) \cup {c \in openChildren(i) : pending[c] = 1}
    /\ UNCHANGED <<issues, computed>>

(* Who still waits for a parent is in a cycle of parents or below one.     *)
Finish ==
    /\ queue = {} /\ ~computed /\ computed' = TRUE
    /\ states' = [i \in Id |-> IF pending[i] > 0 THEN Unknown ELSE states[i]]
    /\ UNCHANGED <<issues, pending, queue>>

ReadinessNext == Finish \/ \E i \in Id : HandDown(i)

ReadinessSpec == ReadinessInit /\ [][ReadinessNext]_readyVars

-----------------------------------------------------------------------------
DependencyState(i) == IF exists(i) THEN states[i] ELSE Unknown

Ready(i) == workable(i) /\ DependencyState(i) = Satisfied

Blockers(i) ==
    IF ~isOpen(i) THEN {}
    ELSE {b \in issues[i].blockers : ~closed(b)}
             \cup {p \in issues[i].parents : DependencyState(p) # Satisfied}

(* ReadyAfter's visit with its memo: the result and the memo after it.  The*)
(* parents are visited in the order of their IDs.                          *)
NotSeen == "not seen"

visited(state, memo) == [state |-> state, memo |-> memo]

stateOfLoop(i) == Unknown

blockerState(i, completed) ==
    IF \E b \in issues[i].blockers : ~exists(b) THEN Unknown
    ELSE IF \E b \in issues[i].blockers : isOpen(b) /\ b \notin completed THEN Unsatisfied
    ELSE Satisfied

\* A call of visit, with the two maps that all calls share.
Call == [issue : Id, visiting : SUBSET Id, memo : [Id -> DependencyStates \cup {NotSeen}]]

call(i, visiting, memo) == [issue |-> i, visiting |-> visiting, memo |-> memo]

\* The parents up to each ID, which v visits.
visitParents(v, c, completed) ==
    LET up[n \in 0 .. MaxId] ==
            IF n = 0 THEN visited(blockerState(c.issue, completed), c.memo)
            ELSE LET before == up[n - 1]
                     r == v[call(n, c.visiting \cup {c.issue}, before.memo)]
                 IN  IF n \notin issues[c.issue].parents THEN before
                     ELSE visited(combineDependencyState(before.state, r.state), r.memo)
    IN  up

visitOne(v, c, completed) ==
    LET i == c.issue
        last == visitParents(v, c, completed)[MaxId]
    IN  IF ~exists(i) \/ i \in c.visiting THEN visited(stateOfLoop(i), c.memo)
        ELSE IF i \in completed \/ closed(i) THEN visited(Satisfied, c.memo)
        ELSE IF c.memo[i] # NotSeen THEN visited(c.memo[i], c.memo)
        ELSE visited(last.state, [last.memo EXCEPT ![i] = last.state])

visit(start, completed) ==
    LET v[c \in Call] == visitOne(v, c, completed)
    IN  v[call(start, {}, [i \in Id |-> NotSeen])].state

ReadyAfter(i, completed) ==
    IF completed = {} THEN Ready(i)
    ELSE workable(i) /\ i \notin completed /\ visit(i, completed) = Satisfied

-----------------------------------------------------------------------------
(* The reference: with the issues of "done" closed, an issue's dependencies*)
(* are those of itself and of all its open ancestors.                      *)
undone(i, done) == isOpen(i) /\ i \notin done

OpenParents(i, done) == {p \in issues[i].parents : undone(p, done)}

\* The smallest set with i that holds the open parents of its members.
Lineage(i, done) ==
    {j \in Id : \A S \in SUBSET Id :
        (i \in S /\ \A k \in S : OpenParents(k, done) \subseteq S) => j \in S}

InParentCycle(i, done) == \E p \in OpenParents(i, done) : i \in Lineage(p, done)

TrueState(i, done) ==
    LET line == Lineage(i, done)
    IN  IF ~exists(i) THEN Unknown
        ELSE IF ~undone(i, done) THEN Satisfied
        ELSE IF \E k \in line : InParentCycle(k, done)
                                  \/ \E d \in issues[k].blockers \cup issues[k].parents : ~exists(d)
        THEN Unknown
        ELSE IF \E k \in line : \E b \in issues[k].blockers : undone(b, done)
        THEN Unsatisfied ELSE Satisfied

(* When compute has returned, the dependencies of an issue are satisfied  *)
(* exactly if neither it nor an open ancestor, parked ones included, has   *)
(* an open blocker, a missing reference or a place in a cycle of parents,  *)
(* whatever the order of the queue; and Blockers has something to say of   *)
(* all others (ReadinessIndex.compute, Blockers).                          *)
ComputeIsExact ==
    computed =>
        \A i \in Id :
            /\ DependencyState(i) = TrueState(i, {})
            /\ isOpen(i) => (DependencyState(i) = Satisfied <=> Blockers(i) = {})

(* ReadyAfter tells of the issues as they would be with the completed ones *)
(* closed which ones can be worked on and have satisfied dependencies,     *)
(* whatever its memo holds.                                                *)
ReadyAfterIsExact ==
    computed =>
        \A i \in Id, done \in SUBSET Id :
            ReadyAfter(i, done) <=> workable(i) /\ i \notin done /\ TrueState(i, done) = Satisfied

ReadinessIsExact == ComputeIsExact /\ ReadyAfterIsExact
=============================================================================
