-------------------------------- MODULE Planning --------------------------------
(***************************************************************************)
(* pkg/analysis: what is planned on top of the readiness of issues: the    *)
(* execution plan with its parallel tracks, what completing an issue       *)
(* unblocks at once and in the end, blocker chains and their depth, the    *)
(* greedy top-k sequence and the gain in parallel tracks.  All of them are *)
(* functions of the issues; they are compared with what they are meant to  *)
(* be once the readiness index is computed.  All issues have the same      *)
(* priority.                                                               *)
(***************************************************************************)
EXTENDS Readiness

Known == {i \in Id : exists(i)}
Open == {i \in Id : isOpen(i)}

\* The source sorts its lists and maps by ID; here 0 .. MaxId is run through.

IsCandidate(i) == issues[i].candidate

\* GetActionableIssues, getActionableIssuesAfterCompletions and isActionableAfterCompletions.
Actionable(completed) == {i \in Id : IsCandidate(i) /\ ReadyAfter(i, completed)}

-----------------------------------------------------------------------------
(* What completing an issue unblocks: the issues that depend on it; those  *)
(* that have no other blocker; all of them.                                *)
computeUnblocks(b) ==
    {i \in Known : isOpen(b) /\ b \in issues[i].blockers /\ i \in Actionable({b})}

UnblocksMap(b) == {i \in Open : Blockers(i) = {b} /\ i \in Actionable({b})}

computeMarginalUnblocks(b, completed) == Actionable(completed \cup {b}) \ Actionable(completed)

\* Dependents in the graph, and children.
cascadeCandidates(b) == {i \in Known : b \in issues[i].blockers \cup issues[i].parents}

(* The closing of everything that becomes ready, from a frontier: one of   *)
(* the candidates, and a round with the head of the queue.  An issue is    *)
(* queued once, so that there are no more rounds than issues.              *)
considered(acc, i) ==
    IF i \in acc.done \/ i \in Actionable({}) \/ i \notin Actionable(acc.done) THEN acc
    ELSE [done |-> acc.done \cup {i}, queue |-> Append(acc.queue, i)]

frontierRound(acc) ==
    LET up[n \in 0 .. MaxId] ==
            IF n = 0 THEN [done |-> acc.done, queue |-> Tail(acc.queue)]
            ELSE IF n \in cascadeCandidates(Head(acc.queue)) THEN considered(up[n - 1], n)
            ELSE up[n - 1]
    IN  IF acc.queue = <<>> THEN acc ELSE up[MaxId]

\* The issues that countTransitiveUnblocks counts.
transitiveUnblocks(b) ==
    LET rounds[n \in 0 .. MaxId] ==
            IF n = 0 THEN [done |-> {b}, queue |-> <<b>>] ELSE frontierRound(rounds[n - 1])
    IN  IF isOpen(b) THEN rounds[MaxId].done \ {b} ELSE {}

-----------------------------------------------------------------------------
(* Union-find: the larger root is hung below the smaller one.              *)
find(parent, x) == LET up[y \in DOMAIN parent] == IF parent[y] = y THEN y ELSE up[parent[y]]
                   IN  up[x]

union(edge, parent) ==
    LET px == find(parent, edge[1]) py == find(parent, edge[2])
    IN  IF px < py THEN [parent EXCEPT ![py] = px] ELSE [parent EXCEPT ![px] = py]

grouped(nodes, edges) == FoldSet(union, [x \in nodes |-> x], edges)

LinksAmong(nodes) ==
    {e \in nodes \X nodes : e[2] \in issues[e[1]].blockers \cup issues[e[1]].parents}

\* Fault: only blocking dependencies hold issues together.
blockingLinks == {e \in Known \X Known : e[2] \in issues[e[1]].blockers}

componentLinks == LinksAmong(Known)

\* The tracks of the plan: the actionable members of each component that has any.
buildTracks ==
    LET parent == grouped(Known, componentLinks)
    IN  {{i \in Actionable({}) : find(parent, i) = r} : r \in Known} \ {{}}

\* generateParallelGain: the components of the open issues but one with active members.
countTracks(excluded, active) ==
    LET nodes == Open \ {excluded}
        parent == grouped(nodes, LinksAmong(nodes))
    IN  Cardinality({find(parent, i) : i \in active \cap nodes})

NoId == 0

ParallelGain(i) ==
    countTracks(i, (Actionable({}) \ {i}) \cup computeMarginalUnblocks(i, {}))
        - countTracks(NoId, Actionable({}))

-----------------------------------------------------------------------------
(* computeBlockerDepthInternal with the cache it fills: no depth where it  *)
(* was not called, -1 for a cycle.                                         *)
NoDepth == -2
InCycle == -1

DepthCall == [issue : Id, visiting : SUBSET Id, memo : [Id -> Int]]

measured(depth, memo) == [depth |-> depth, memo |-> memo]

deeper(depth, below) ==
    IF below = InCycle THEN InCycle ELSE IF below + 1 > depth THEN below + 1 ELSE depth

\* The blockers up to each ID; none is looked at after a cycle.
depthOfBlockers(d, c) ==
    LET up[n \in 0 .. MaxId] ==
            IF n = 0 THEN measured(0, c.memo)
            ELSE LET before == up[n - 1]
                     r == d[call(n, c.visiting \cup {c.issue}, before.memo)]
                 IN  IF n \notin Blockers(c.issue) \/ before.depth = InCycle THEN before
                     ELSE measured(deeper(before.depth, r.depth), r.memo)
    IN  up

depthOfOne(d, c) ==
    LET i == c.issue
        last == depthOfBlockers(d, c)[MaxId]
    IN  IF c.memo[i] # NoDepth THEN measured(c.memo[i], c.memo)
        ELSE IF i \in c.visiting THEN measured(InCycle, c.memo)
        ELSE measured(last.depth, [last.memo EXCEPT ![i] = last.depth])

depthOf(start, cache) == LET d[c \in DepthCall] == depthOfOne(d, c) IN d[call(start, {}, cache)]

AllBlockerDepths(order) ==
    LET caches[n \in 0 .. MaxId] == IF n = 0 THEN [i \in Id |-> NoDepth]
                                    ELSE depthOf(order[n], caches[n - 1]).memo
    IN  caches[MaxId]

(* GetBlockerChain: a depth-first search over the open blockers.           *)
Search == [visited : SUBSET Id, chain : SUBSET Id, cycle : BOOLEAN]

SearchCall == [issue : Id, visiting : SUBSET Id, memo : Search]

searchBlockers(dfs, c) ==
    LET up[n \in 0 .. MaxId] ==
            IF n = 0 THEN [c.memo EXCEPT !.chain = @ \cup {c.issue}]
            ELSE IF n \in Blockers(c.issue)
            THEN dfs[call(n, c.visiting \cup {c.issue}, up[n - 1])]
            ELSE up[n - 1]
    IN  up

searchOne(dfs, c) ==
    LET i == c.issue
    IN  IF i \in c.visiting THEN [c.memo EXCEPT !.cycle = TRUE]
        ELSE IF i \in c.memo.visited THEN c.memo
        ELSE IF ~exists(i) THEN [c.memo EXCEPT !.visited = @ \cup {i}]
        ELSE [searchBlockers(dfs, c)[MaxId] EXCEPT !.visited = @ \cup {i}]

GetBlockerChain(target) ==
    LET dfs[c \in SearchCall] == searchOne(dfs, c)
        all == dfs[call(target, {}, [visited |-> {}, chain |-> {}, cycle |-> FALSE])]
    IN  [chain |-> all.chain, cycle |-> all.cycle,
         roots |-> {i \in all.chain \ {target} : Blockers(i) = {}}]

(* generateTopKSet: the picks in their order, and the total gain.          *)
candidates(done) ==
    {[id |-> i, gain |-> Cardinality(computeMarginalUnblocks(i, done))] : i \in Actionable(done)}

bestOf(C) == CHOOSE c \in C : \A d \in C : d.gain < c.gain \/ (d.gain = c.gain /\ c.id <= d.id)

withBest(acc, C) ==
    IF C = {} THEN acc
    ELSE [picks |-> Append(acc.picks, bestOf(C).id), gain |-> acc.gain + bestOf(C).gain]

generateTopKSet(k) ==
    LET top[n \in 0 .. k] == IF n = 0 THEN [picks |-> <<>>, gain |-> 0]
                             ELSE withBest(top[n - 1], candidates(ToSet(top[n - 1].picks)))
    IN  top[k]

-----------------------------------------------------------------------------
(* References.                                                             *)
\* What S reaches in zero or more steps of the relation.
Reached(S, Step(_, _)) ==
    {j \in Id : \A T \in SUBSET Id :
        (S \subseteq T /\ \A k \in T : \A m \in Id : Step(k, m) => m \in T) => j \in T}

Blocks(i, b) == b \in Blockers(i)

Behind(i) == Reached({i}, Blocks)

\* The issues with a cycle of blockers behind them.
Entangled == LET cycle == {k \in Id : k \in Reached(Blockers(k), Blocks)}
             IN  {i \in Id : Behind(i) \cap cycle # {}}

TrueDepth ==
    LET stuck == Entangled
        long[i \in Id] == IF i \in stuck THEN InCycle
                          ELSE IF Blockers(i) = {} THEN 0
                          ELSE 1 + Max({long[b] : b \in Blockers(i)})
    IN  long

TogetherIn(nodes) ==
    LET Linked(i, j) == {<<i, j>>, <<j, i>>} \cap LinksAmong(nodes) # {}
    IN  [i \in nodes |-> Reached({i}, Linked)]

\* Everything that can be closed once b is, round after round, and was not ready before.
Cascade(b) ==
    LET rounds[n \in 0 .. MaxId] ==
            IF n = 0 THEN {b}
            ELSE rounds[n - 1] \cup (Actionable(rounds[n - 1]) \ Actionable({}))
    IN  rounds[MaxId] \ {b}

\* The issues below an open one that is no work to do, or not to be put out.
Hidden(done) ==
    {i \in Id : \E k \in Lineage(i, done) \ {i} : ~(workable(k) /\ IsCandidate(k))}

-----------------------------------------------------------------------------
(* Every actionable issue is in one track, and completing issues of one    *)
(* track never makes an issue of another component ready (buildTracks).    *)
TracksAreIndependent ==
    /\ UNION buildTracks = Actionable({})
    /\ \A t, u \in buildTracks : t # u => t \cap u = {}
    /\ LET component == grouped(Known, componentLinks)
       IN  \A i \in Known, done \in SUBSET Known :
               ReadyAfter(i, done) =>
                   ReadyAfter(i, {k \in done : find(component, k) = find(component, i)})

(* Both maps of unblocked issues hold only issues that are not ready now   *)
(* and are afterwards.  The simulation closes nothing but what can be      *)
(* closed after it, and misses only what is below an issue that it cannot  *)
(* close, since its frontier is that of the issues it has closed.          *)
UnblocksAreReal ==
    \A b \in Id :
        /\ computeUnblocks(b) \cup UnblocksMap(b) \subseteq computeMarginalUnblocks(b, {})
        /\ isOpen(b) =>
               LET found == transitiveUnblocks(b)
                   all == found \cup {b}
               IN  /\ found \subseteq Cascade(b)
                   /\ Actionable(all) \ Actionable({}) \subseteq Hidden(all)

(* The depth is that of the longest chain, or -1 where a chain enters a    *)
(* cycle, in whatever order the cache is filled; the chain has all blockers*)
(* behind the target, and reports a cycle exactly if there is one.         *)
ChainsAreWhole ==
    LET depth == TrueDepth
        stuck == Entangled
    IN  /\ \A order \in {s \in [Id -> Id] : IsInjective(s)} : AllBlockerDepths(order) = depth
        /\ \A i \in Known :
               LET result == GetBlockerChain(i)
                   behind == Behind(i) \cap Known
               IN  /\ result.chain = behind
                   /\ result.cycle <=> i \in stuck
                   /\ result.roots = {k \in behind : Blockers(k) = {}} \ {i}

(* The picks can be worked on in their order, and the gains add up to the  *)
(* issues that became ready on the way.                                    *)
PicksAreFeasible ==
    \A top \in {generateTopKSet(MaxId)} :
        /\ \A n \in DOMAIN top.picks :
               top.picks[n] \in Actionable({top.picks[m] : m \in 1 .. n - 1})
        /\ top.gain = Cardinality((ToSet(top.picks) \cup Actionable(ToSet(top.picks)))
                                      \ Actionable({}))

(* The gain is the difference between the tracks before and after.         *)
GainIsReal ==
    LET TracksAfter(done) ==
            LET nodes == Open \ done IN Cardinality({TogetherIn(nodes)[i] : i \in Actionable(done)})
    IN  \A i \in Actionable({}) : ParallelGain(i) = TracksAfter({i}) - TracksAfter({})

(* What is planned from the readiness of issues is true of them            *)
(* (GetExecutionPlan, countTransitiveUnblocks, TriageContext,              *)
(* GetBlockerChain, generateTopKSet, generateParallelGain).                *)
PlanningIsSound ==
    computed =>
        /\ TracksAreIndependent /\ UnblocksAreReal /\ ChainsAreWhole
        /\ PicksAreFeasible /\ GainIsReal
=============================================================================
