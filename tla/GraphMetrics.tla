------------------------------ MODULE GraphMetrics ------------------------------
(***************************************************************************)
(* pkg/analysis: the graph algorithms the code implements itself on the    *)
(* graph of blocking dependencies: critical-path heights and slack over a  *)
(* topological order, k-core numbers by bucket sort, articulation points by*)
(* one depth-first search, representative cycles, longest paths, the greedy*)
(* vertex cover, and the test whether a new dependency closes a cycle.     *)
(* Each is compared with its definition.  An edge goes from an issue to    *)
(* what it depends on; all issues are open.                                *)
(***************************************************************************)
EXTENDS Integers, FiniteSets, Sequences, SequencesExt

CONSTANTS
    MaxNode        \* bound: issues of a graph

ASSUME GraphsAssumption == MaxNode \in Nat \ {0}

VARIABLES
    graph,         \* the graph of an Analyzer
    analysed       \* Analyze has returned

graphVars == <<graph, analysed>>

\* Every graph of MaxNode issues, those of one issue less with self-dependencies,
\* and every undirected graph of one issue more.
Graphs ==
    SUBSET {e \in (1 .. MaxNode) \X (1 .. MaxNode) : e[1] # e[2]}
        \cup SUBSET ((1 .. MaxNode - 1) \X (1 .. MaxNode - 1))
        \cup SUBSET {e \in (1 .. MaxNode + 1) \X (1 .. MaxNode + 1) : e[1] > e[2]}

GraphInit == graph \in Graphs \ {{}} /\ analysed = FALSE

Analyze == ~analysed /\ analysed' = TRUE /\ UNCHANGED graph

GraphSpec == GraphInit /\ [][Analyze]_graphVars

\* An issue without any dependency adds nothing to these metrics.
Node == UNION {{e[1], e[2]} : e \in graph}

From(u) == {v \in Node : <<u, v>> \in graph}
To(v) == {u \in Node : <<u, v>> \in graph}
Neighbors(v) == (From(v) \cup To(v)) \ {v}

\* Nodes and adjacency lists are sorted by node ID.
InOrder(S) == SetToSortSeq(S, <)

\* Where the edges of E lead to from S, in zero or more steps.
Reach(E, S) ==
    FoldLeft(LAMBDA T, n : T \cup {e[2] : e \in {f \in E : f[1] \in T}}, S, InOrder(Node))

CyclicNodes == {u \in Node : u \in Reach(graph, From(u))}

\* What gonum's topo.Sort may return, which visits the nodes in map order: an issue
\* is before what it depends on.
TopologicalOrders ==
    FoldLeft(LAMBDA S, n : UNION {{Append(s, v) : v \in {u \in Node \ ToSet(s) :
                                                              To(u) \subseteq ToSet(s)}} : s \in S},
             {<<>>}, InOrder(Node))

-----------------------------------------------------------------------------
computeHeights(order) ==
    FoldLeft(LAMBDA h, n : [h EXCEPT ![n] = 1 + Max({0} \cup {h[p] : p \in To(n)})],
             [n \in Node |-> 0], order)

\* The forward pass, from dependents to what they depend on, and the reverse pass.
computeSlack(order) ==
    LET zero == [n \in Node |-> 0]
        forward(dist, n) == [p \in Node |-> IF p \in From(n) /\ dist[p] < dist[n] + 1
                                            THEN dist[n] + 1 ELSE dist[p]]
        backward(dist, n) == [dist EXCEPT ![n] = Max({@} \cup {dist[p] + 1 : p \in From(n)})]
        fromStart == FoldLeft(forward, zero, order)
        toEnd == FoldLeft(backward, zero, Reverse(order))
        longest == Max({fromStart[n] + toEnd[n] : n \in Node})
    IN  [n \in Node |-> longest - fromStart[n] - toEnd[n]]

-----------------------------------------------------------------------------
(* Batagelj and Zaversnik: vert is sorted by degree, bin[d] is where degree*)
(* d begins in it.  A neighbour that loses a degree changes places with the*)
(* first of its bucket, whose start moves on.                              *)
moveDown(st, u) ==
    LET du == st.deg[u] pu == st.pos[u] pw == st.bin[du] w == st.vert[pw]
    IN  [st EXCEPT !.vert[pu] = w, !.vert[pw] = u, !.pos[w] = pu, !.pos[u] = pw,
                   !.bin[du] = @ + 1, !.deg[u] = @ - 1]

computeKCore ==
    LET degree == [n \in Node |-> Cardinality(Neighbors(n))]
        before(a, b) == degree[a] < degree[b] \/ (degree[a] = degree[b] /\ a < b)
        vert == SetToSortSeq(Node, before)
        init == [deg |-> degree, vert |-> vert,
                 pos |-> [n \in Node |-> CHOOSE i \in DOMAIN vert : vert[i] = n],
                 bin |-> [d \in 0 .. Cardinality(Node) |->
                             1 + Cardinality({n \in Node : degree[n] < d})]]
        visit(st, i) ==
            LET v == st.vert[i]
            IN  FoldLeft(LAMBDA s, u : IF s.deg[u] > s.deg[v] THEN moveDown(s, u) ELSE s,
                         st, InOrder(Neighbors(v)))
    IN  FoldLeft(visit, init, [i \in DOMAIN vert |-> i]).deg

NoParent == 0

\* Fault: a root with a single child counts.
isRootCutByOne(children) == children > 0

isRootCut(children) == children > 1

(* Tarjan: a node cuts the graph if a child reaches nothing above it.      *)
findArticulationPoints ==
    LET low(st, v, x) == IF x < st.low[v] THEN [st EXCEPT !.low[v] = x] ELSE st
        dfs[v \in Node, parent \in Node \cup {NoParent}, st0 \in
                [time : Nat, disc : [Node -> Nat], low : [Node -> Nat], ap : SUBSET Node]] ==
            LET st == [st0 EXCEPT !.time = @ + 1, !.disc[v] = st0.time + 1, !.low[v] = st0.time + 1]
                next(acc, u) ==
                    IF acc.st.disc[u] # 0
                    THEN [acc EXCEPT !.st = IF u # parent THEN low(@, v, @.disc[u]) ELSE @]
                    ELSE LET r == dfs[u, v, acc.st]
                             s == low(r, v, r.low[u])
                             n == acc.children + 1
                             cut == IF parent = NoParent THEN isRootCut(n)
                                    ELSE s.low[u] >= s.disc[v]
                         IN  [children |-> n,
                              st |-> IF cut THEN [s EXCEPT !.ap = @ \cup {v}] ELSE s]
            IN  FoldLeft(next, [children |-> 0, st |-> st], InOrder(Neighbors(v))).st
        zero == [n \in Node |-> 0]
    IN  FoldLeft(LAMBDA st, v : IF st.disc[v] = 0 THEN dfs[v, NoParent, st] ELSE st,
                 [time |-> 0, disc |-> zero, low |-> zero, ap |-> {}], InOrder(Node)).ap

-----------------------------------------------------------------------------
(* The first edge back to the stack of a depth-first search closes the     *)
(* cycle of a component.                                                   *)
findOneCycleInSCC(scc) ==
    LET Within(u) == From(u) \cap scc
        search[stack \in Seq(Node), visited \in SUBSET Node, rest \in [scc -> SUBSET Node]] ==
            IF stack = <<>> THEN <<>>
            ELSE LET u == Last(stack)
                     v == Min(rest[u])
                     left == [rest EXCEPT ![u] = @ \ {v}]
                 IN  IF rest[u] = {} THEN search[Front(stack), visited, rest]
                     ELSE IF Contains(stack, v)
                     THEN Append(SubSeq(stack, SelectInSeq(stack, LAMBDA x : x = v), Len(stack)), v)
                     ELSE IF v \in visited THEN search[stack, visited, left]
                     ELSE search[Append(stack, v), visited \cup {v}, left]
    IN  search[<<Min(scc)>>, {Min(scc)}, [u \in scc |-> Within(u)]]

\* gonum's topo.TarjanSCC: issues that depend on each other are in one component.
Components == {{v \in Node : u = v \/ (v \in Reach(graph, {u}) /\ u \in Reach(graph, {v}))} :
                  u \in Node}

\* The representatives, before they are sorted and cut to the limit.
findCyclesSafe ==
    {IF Cardinality(c) = 1 THEN <<Min(c), Min(c)>> ELSE findOneCycleInSCC(c) :
        c \in {d \in Components : Cardinality(d) > 1 \/ <<Min(d), Min(d)>> \in graph}}

(* The path from "to" back to "from", with "from" in front.                *)
WouldCreateCycle(from, to) ==
    LET dfs[n \in Node, acc \in [found : BOOLEAN, visited : SUBSET Node, path : Seq(Node)]] ==
            IF acc.found THEN acc
            ELSE IF n = from THEN [acc EXCEPT !.found = TRUE, !.path = Append(@, n)]
            ELSE IF n \in acc.visited THEN acc
            ELSE LET last == FoldLeft(LAMBDA a, m : dfs[m, a],
                                      [acc EXCEPT !.visited = @ \cup {n}, !.path = Append(@, n)],
                                      InOrder(From(n)))
                 IN  IF last.found THEN last ELSE [last EXCEPT !.path = Front(@)]
        result == dfs[to, [found |-> FALSE, visited |-> {}, path |-> <<>>]]
    IN  IF result.found THEN <<from>> \o result.path ELSE <<>>

-----------------------------------------------------------------------------
(* generateKPaths: with the smallest ready issue first, the longest path   *)
(* that ends at each issue, and from those one for every source.           *)
KahnOrder ==
    LET next(seq, n) == LET ready == {v \in Node \ ToSet(seq) : From(v) \subseteq ToSet(seq)}
                        IN  IF ready = {} THEN seq ELSE Append(seq, Min(ready))
    IN  FoldLeft(next, <<>>, InOrder(Node))

longestEndingAt ==
    LET relax(u, dp, v) ==
            IF \/ dp.dist[u] + 1 > dp.dist[v]
               \/ dp.dist[u] + 1 = dp.dist[v] /\ (dp.path[v] = <<v>> \/ u < Last(Front(dp.path[v])))
            THEN [dist |-> [dp.dist EXCEPT ![v] = dp.dist[u] + 1],
                  path |-> [dp.path EXCEPT ![v] = Append(dp.path[u], v)]]
            ELSE dp
    IN  FoldLeft(LAMBDA dp, u : FoldLeft(LAMBDA d, v : relax(u, d, v), dp, InOrder(To(u))),
                 [dist |-> [n \in Node |-> 0], path |-> [n \in Node |-> <<n>>]], KahnOrder)

generateKPaths(k) ==
    LET dp == longestEndingAt
        before(a, b) == dp.dist[a] > dp.dist[b] \/ (dp.dist[a] = dp.dist[b] /\ a < b)
        add(paths, n) ==
            IF \/ Len(paths) >= k \/ dp.dist[n] = 0
               \/ \E i \in DOMAIN paths : Head(paths[i]) = Head(dp.path[n])
            THEN paths ELSE Append(paths, dp.path[n])
    IN  IF Len(KahnOrder) # Cardinality(Node) THEN <<>>
        ELSE FoldLeft(add, <<>>, SetToSortSeq(Node, before))

(* Greedy: the node of the highest degree among the uncovered edges; a     *)
(* self-dependency counts twice.                                           *)
generateCoverageSet(limit) ==
    LET Touches(e, n) == n \in {e[1], e[2]}
        deg(E, n) == Cardinality({e \in E : e[1] = n}) + Cardinality({e \in E : e[2] = n})
        best(E) == Min({n \in Node : \A m \in Node : deg(E, m) <= deg(E, n)})
        add(acc, i) ==
            IF acc.uncovered = {} THEN acc
            ELSE [items |-> Append(acc.items, best(acc.uncovered)),
                  uncovered |-> {e \in acc.uncovered : ~Touches(e, best(acc.uncovered))}]
    IN  FoldLeft(add, [items |-> <<>>, uncovered |-> graph], [i \in 1 .. limit |-> i])

-----------------------------------------------------------------------------
(* Heights and slack do not depend on the topological order that is taken: *)
(* the height is the longest chain of dependents, and slack is what the    *)
(* longest chain through an issue lacks to the longest of all.             *)
PathMetricsAreExact ==
    CyclicNodes = {} =>
        LET up[n \in Node] == 1 + Max({0} \cup {up[p] : p \in To(n)})
            down[n \in Node] == 1 + Max({0} \cup {down[p] : p \in From(n)})
            longest == Max({up[n] : n \in Node})
        IN  \A order \in TopologicalOrders :
                /\ computeHeights(order) = [n \in Node |-> up[n]]
                /\ computeSlack(order) = [n \in Node |-> longest + 1 - up[n] - down[n]]

(* The core number is the largest k such that the node is in a part where  *)
(* every node has k neighbours; an articulation point separates two of its *)
(* neighbours (computeKCore, findArticulationPoints).  Every undirected     *)
(* graph has its edges pointing to the smaller node in one of Graphs.      *)
UndirectedMetricsAreExact ==
    (\A e \in graph : e[1] > e[2]) =>
    LET links == {e \in Node \X Node : e[2] \in Neighbors(e[1])}
        degreeIn(S) == Min({Cardinality(Neighbors(n) \cap S) : n \in S})
        Cuts(v) == LET rest == {e \in links : v \notin {e[1], e[2]}}
                   IN  \E a, b \in Neighbors(v) : b \notin Reach(rest, {a})
    IN  /\ computeKCore = [n \in Node |-> Max({degreeIn(S) : S \in {T \in SUBSET Node : n \in T}})]
        /\ findArticulationPoints = {v \in Node : Cuts(v)}

IsWalk(path, E) == \A i \in 1 .. Len(path) - 1 : <<path[i], path[i + 1]>> \in E

(* Each cyclic component is represented by one simple cycle of its own, and*)
(* a new dependency is refused exactly if it closes a cycle, with one that *)
(* it closes (findCyclesSafe, WouldCreateCycle).                           *)
CyclesAreExact ==
    LET cycles == findCyclesSafe
        reach == [u \in Node |-> Reach(graph, {u})]
    IN  /\ \A c \in cycles : /\ Len(c) > 1 /\ Head(c) = Last(c)
                             /\ IsInjective(Front(c)) /\ IsWalk(c, graph)
        /\ \A u \in CyclicNodes :
               Cardinality({c \in cycles : Head(c) \in reach[u] /\ u \in reach[Head(c)]}) = 1
        /\ \A u, v \in Node :
               LET path == WouldCreateCycle(u, v)
               IN  /\ path # <<>> <=> u \in reach[v]
                   /\ IsWalk(path, graph \cup {<<u, v>>})

(* Without the limit no path is left out: for every blocked issue, one of  *)
(* the beginnings of the longest chains to it begins a path, and that path *)
(* is no shorter (generateKPaths drops a path whose beginning is used).    *)
PathsAreComplete(paths) ==
    LET chain[n \in Node] == 1 + Max({0} \cup {chain[p] : p \in From(n)})
        before(n) == {p \in From(n) : chain[p] + 1 = chain[n]}
        beginnings[n \in Node] ==
            IF From(n) = {} THEN {n} ELSE UNION {beginnings[p] : p \in before(n)}
    IN  /\ \A i \in DOMAIN paths : Len(paths[i]) = chain[Last(paths[i])]
        /\ \A n \in Node : chain[n] > 1 =>
               \E i \in DOMAIN paths : Head(paths[i]) \in beginnings[n] /\ Len(paths[i]) >= chain[n]

(* A critical path is a longest chain of blockers to its last issue, begins*)
(* where nothing blocks, and no two begin alike; none is left out but by   *)
(* the limit, and the cover leaves an edge out only where the limit cut it *)
(* (generateKPaths, generateCoverageSet).                                  *)
SelectionsAreSound ==
    LET paths == generateKPaths(MaxNode)
        blocks == {<<e[2], e[1]>> : e \in graph}
        limit == MaxNode - 2
        cover == generateCoverageSet(limit)
    IN  /\ CyclicNodes # {} => paths = <<>>
        /\ \A i \in DOMAIN paths :
               IsWalk(paths[i], blocks) /\ From(Head(paths[i])) = {} /\ Len(paths[i]) > 1
        /\ \A i, j \in DOMAIN paths :
               i < j => Len(paths[i]) >= Len(paths[j]) /\ Head(paths[i]) # Head(paths[j])
        /\ CyclicNodes = {} => PathsAreComplete(paths)
        /\ Len(cover.items) < limit => cover.uncovered = {}
        /\ \A e \in graph \ cover.uncovered : {e[1], e[2]} \cap ToSet(cover.items) # {}

(* What the analysis reports of a graph is what the metrics are defined to *)
(* be (computeHeights, computeSlack, computeKCore, findArticulationPoints, *)
(* findCyclesSafe, WouldCreateCycle, generateKPaths, generateCoverageSet). *)
MetricsAreExact ==
    analysed =>
        /\ PathMetricsAreExact /\ UndirectedMetricsAreExact
        /\ CyclesAreExact /\ SelectionsAreSound
=============================================================================
