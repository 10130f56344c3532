---------------------------- MODULE TreeViewProofs ----------------------------
(***************************************************************************)
(* The tree has a node for every issue, whatever cycles the parents form,  *)
(* and a root with a parent only on a cycle; the cursor stays on a line    *)
(* that is rendered; what is open is what the file would give back; and a  *)
(* reload leaves the cursor on its issue.                                  *)
(*                                                                         *)
(* What a recursive function of the model computes is known only once it   *)
(* is known that there is one: Recursion says so, and with it the levels   *)
(* of the tree, the chains of parents and the list of the roots have the   *)
(* values that their definitions give.  The nodes are then the paths that  *)
(* come back to an issue at their end at most.  A chain of unreached       *)
(* parents is longer than there are issues, so that it comes back to one,  *)
(* which is its own descendant, and reaches what it began with.            *)
(*                                                                         *)
(* Of all that the steps need only the shape of the tree, Shaped.  That    *)
(* the cursor is on a line has to hold while the tree is not shown, since  *)
(* nothing puts it back when it is: this is CursorKept.                    *)
(***************************************************************************)
EXTENDS TreeView, FiniteSetTheorems, WellFoundedInduction, TLAPS

-----------------------------------------------------------------------------
(* Numbers and recursion *)

\* A nonempty set of naturals has a least element.
LEMMA LeastOf ==
    ASSUME NEW I \in SUBSET Nat, I # {}
    PROVE  \E x \in I : \A y \in I : x <= y
<1> DEFINE R == {p \in Nat \X Nat : p[1] < p[2]}
<1>1. IsWellFoundedOn(R, Nat)
  BY NatLessThanWellFounded DEF OpToRel
<1>2. \A x, y \in Nat : x < y => <<x, y>> \in R
  OBVIOUS
<1> HIDE DEF R
<1>3. PICK x \in I : \A y \in I : ~(<<y, x>> \in R)
  BY <1>1, WFMin
<1>4. \A y \in I : x <= y
  <2> SUFFICES ASSUME NEW y \in I PROVE x <= y
    OBVIOUS
  <2>1. x \in Nat /\ y \in Nat /\ ~(y < x)
    BY <1>2, <1>3
  <2> QED
    BY <2>1
<1> QED
  BY <1>4

\* A nonempty bounded set of naturals has a greatest element.
LEMMA GreatestOf ==
    ASSUME NEW n \in Nat, NEW I \in SUBSET (0 .. n), I # {}
    PROVE  \E x \in I : \A y \in I : y <= x
<1> DEFINE J == {k \in 0 .. n : n - k \in I}
<1>1. J \in SUBSET Nat /\ J # {}
  <2>1. PICK x \in I : TRUE
    OBVIOUS
  <2>2. n - x \in 0 .. n /\ n - (n - x) = x
    OBVIOUS
  <2>3. n - x \in J
    BY <2>1, <2>2
  <2>4. J \in SUBSET Nat
    OBVIOUS
  <2> HIDE DEF J
  <2> QED
    BY <2>3, <2>4
<1>2. PICK k \in J : \A j \in J : k <= j
  BY <1>1, LeastOf
<1>3. n - k \in I /\ k \in 0 .. n
  OBVIOUS
<1>4. \A y \in I : y <= n - k
  <2> SUFFICES ASSUME NEW y \in I PROVE y <= n - k
    OBVIOUS
  <2>1. n - y \in 0 .. n /\ n - (n - y) = y
    OBVIOUS
  <2>2. n - y \in J
    BY <2>1
  <2> QED
    BY <1>2, <1>3, <2>1, <2>2
<1> QED
  BY <1>3, <1>4

\* f is what G makes of each value in turn, from a up to the n-th.
Unfolds(f, n, A, a, G) ==
    f \in [0 .. n -> A] /\ f[0] = a /\ \A k \in 1 .. n : f[k] = G[<<k, f[k - 1]>>]

\* A function that is defined by recursion exists.
LEMMA Recursion ==
    ASSUME NEW n \in Nat, NEW A, NEW a \in A, NEW G \in [(1 .. n) \X A -> A]
    PROVE  \E f : Unfolds(f, n, A, a, G)
<1> DEFINE Is(f, m) == Unfolds(f, m, A, a, G)
           Missing == {m \in 0 .. n : \A f \in [0 .. m -> A] : ~Is(f, m)}
<1>1. SUFFICES Missing = {}
  <2>1. n \in 0 .. n
    OBVIOUS
  <2>2. PICK f \in [0 .. n -> A] : Is(f, n)
    BY <1>1, <2>1 DEF Unfolds
  <2> QED
    BY <2>2
<1> SUFFICES ASSUME Missing # {} PROVE FALSE
  OBVIOUS
<1>2. Missing \in SUBSET Nat
  OBVIOUS
<1>3. PICK m \in Missing : \A l \in Missing : m <= l
  BY <1>2, LeastOf
<1>4. m # 0
  <2>1. Is([k \in 0 .. 0 |-> a], 0)
    BY DEF Unfolds
  <2> QED
    BY <2>1
<1>5. m - 1 \in 0 .. n /\ m - 1 \notin Missing /\ m \in 1 .. n
  <2>1. m \in 0 .. n
    OBVIOUS
  <2>2. m - 1 \in 0 .. n /\ m \in 1 .. n /\ ~(m <= m - 1)
    BY <1>4, <2>1
  <2> HIDE DEF Missing
  <2> QED
    BY <1>3, <2>2
<1>6. PICK f \in [0 .. m - 1 -> A] : Is(f, m - 1)
  BY <1>5 DEF Unfolds
<1> DEFINE g == [k \in 0 .. m |-> IF k < m THEN f[k] ELSE G[<<m, f[m - 1]>>]]
<1>7. m - 1 \in 0 .. m - 1 /\ f[m - 1] \in A /\ G[<<m, f[m - 1]>>] \in A
  BY <1>5
<1>8. g \in [0 .. m -> A]
  BY <1>5, <1>7
<1>9. g[0] = a
  BY <1>5, <1>6 DEF Unfolds
<1>10. \A k \in 1 .. m : g[k] = G[<<k, g[k - 1]>>]
  <2> SUFFICES ASSUME NEW k \in 1 .. m PROVE g[k] = G[<<k, g[k - 1]>>]
    OBVIOUS
  <2>1. k - 1 \in 0 .. m /\ k - 1 < m /\ k \in 0 .. m
    BY <1>5
  <2>2. g[k - 1] = f[k - 1]
    BY <2>1
  <2>3. CASE k = m
    BY <2>1, <2>2, <2>3
  <2>4. CASE k # m
    <3>1. k \in 1 .. m - 1 /\ k < m
      BY <1>5, <2>4
    <3>2. f[k] = G[<<k, f[k - 1]>>]
      BY <1>6, <3>1 DEF Unfolds
    <3>3. g[k] = f[k]
      BY <2>1, <3>1
    <3> QED
      BY <2>2, <3>2, <3>3
  <2> QED
    BY <2>3, <2>4
<1> QED
  <2>1. Is(g, m)
    BY <1>8, <1>9, <1>10 DEF Unfolds
  <2>2. \A h \in [0 .. m -> A] : ~Is(h, m)
    BY <1>3
  <2> HIDE DEF g, Is
  <2> QED
    BY <1>8, <2>1, <2>2

-----------------------------------------------------------------------------
(* The order of the nodes *)

Paths == Seq(TreeId)

\* The issues are numbered.
LEMMA Numbered == TreeId \subseteq Nat /\ MaxTreeId \in Nat \ {0} /\ \A p \in Paths : Len(p) \in Nat /\ \A k \in 1 .. Len(p) : p[k] \in TreeId
<1>1. TreeId \subseteq Nat /\ MaxTreeId \in Nat \ {0}
  BY TreeAssumption DEF TreeId
<1>2. \A p \in Seq(TreeId) : Len(p) \in Nat /\ \A k \in 1 .. Len(p) : p[k] \in TreeId
  OBVIOUS
<1> QED
  BY <1>1, <1>2 DEF Paths

\* No path comes before itself, and not two before each other.
LEMMA BeforeIsStrict ==
    ASSUME NEW p \in Paths
    PROVE  ~Before(p, p)
<1>1. Len(p) \in Nat /\ \A k \in 1 .. Len(p) : p[k] \in Nat
  BY Numbered
<1> QED
  BY <1>1 DEF Before

\* The order of paths is transitive.
LEMMA BeforeIsTransitive ==
    ASSUME NEW p \in Paths, NEW q \in Paths, NEW r \in Paths, Before(p, q), Before(q, r)
    PROVE  Before(p, r)
<1>1. /\ Len(p) \in Nat /\ \A k \in 1 .. Len(p) : p[k] \in Nat
      /\ Len(q) \in Nat /\ \A k \in 1 .. Len(q) : q[k] \in Nat
      /\ Len(r) \in Nat /\ \A k \in 1 .. Len(r) : r[k] \in Nat
  BY Numbered
<1>2. PICK k \in 1 .. Len(q) : /\ k <= Len(p) + 1 /\ \A l \in 1 .. k - 1 : p[l] = q[l]
                               /\ k = Len(p) + 1 \/ p[k] < q[k]
  BY DEF Before
<1>3. PICK m \in 1 .. Len(r) : /\ m <= Len(q) + 1 /\ \A l \in 1 .. m - 1 : q[l] = r[l]
                               /\ m = Len(q) + 1 \/ q[m] < r[m]
  BY DEF Before
<1>4. CASE m < k
  <2>1. m <= Len(p) + 1 /\ m \in 1 .. Len(q) /\ m \in 1 .. Len(p)
    BY <1>1, <1>2, <1>3, <1>4
  <2>2. \A l \in 1 .. m - 1 : p[l] = r[l]
    BY <1>1, <1>2, <1>3, <1>4
  <2>3. p[m] = q[m] /\ m # Len(q) + 1
    BY <1>1, <1>2, <1>4, <2>1
  <2>4. p[m] < r[m]
    BY <1>3, <2>3
  <2> QED
    BY <2>1, <2>2, <2>4 DEF Before
<1>5. CASE k < m
  <2>1. k \in 1 .. Len(r) /\ k <= Len(p) + 1
    BY <1>1, <1>2, <1>3, <1>5
  <2>2. \A l \in 1 .. k - 1 : p[l] = r[l]
    BY <1>1, <1>2, <1>3, <1>5
  <2>3. q[k] = r[k]
    BY <1>1, <1>2, <1>3, <1>5
  <2> QED
    BY <1>2, <2>1, <2>2, <2>3 DEF Before
<1>6. CASE k = m
  <2>1. \A l \in 1 .. k - 1 : p[l] = r[l]
    BY <1>1, <1>2, <1>3, <1>6
  <2>2. q[k] < r[k] /\ q[k] \in Nat /\ r[k] \in Nat
    BY <1>1, <1>2, <1>3, <1>6
  <2>3. k = Len(p) + 1 \/ p[k] < r[k]
    <3>1. CASE k = Len(p) + 1
      BY <3>1
    <3>2. CASE k # Len(p) + 1
      <4>1. k \in 1 .. Len(p)
        BY <1>1, <1>2, <3>2
      <4>2. p[k] \in Nat /\ p[k] < q[k]
        BY <1>1, <1>2, <3>2, <4>1
      <4> QED
        BY <2>2, <4>2
    <3> QED
      BY <3>1, <3>2
  <2> QED
    BY <1>2, <1>3, <1>6, <2>1, <2>3 DEF Before
<1> QED
  BY <1>1, <1>2, <1>3, <1>4, <1>5, <1>6

\* Of two paths one comes before the other.
LEMMA BeforeIsTotal ==
    ASSUME NEW p \in Paths, NEW q \in Paths, p # q
    PROVE  Before(p, q) \/ Before(q, p)
<1>1. /\ Len(p) \in Nat /\ \A k \in 1 .. Len(p) : p[k] \in Nat
      /\ Len(q) \in Nat /\ \A k \in 1 .. Len(q) : q[k] \in Nat
  BY Numbered
<1> DEFINE Differ == {k \in Nat \ {0} : k > Len(p) \/ k > Len(q) \/ p[k] # q[k]}
<1>2. Differ \in SUBSET Nat /\ Len(p) + 1 \in Differ /\ Len(q) + 1 \in Differ
  BY <1>1
<1>3. PICK k \in Differ : \A l \in Differ : k <= l
  BY <1>2, LeastOf
<1>4. k \in Nat \ {0} /\ k <= Len(p) + 1 /\ k <= Len(q) + 1
  BY <1>2, <1>3
<1>5. \A l \in 1 .. k - 1 : p[l] = q[l]
  <2> SUFFICES ASSUME NEW l \in 1 .. k - 1 PROVE p[l] = q[l]
    OBVIOUS
  <2>1. l \in Nat \ {0} /\ ~(k <= l)
    BY <1>4
  <2> QED
    BY <1>3, <2>1
<1>6. CASE k = Len(p) + 1 /\ k = Len(q) + 1
  <2>1. Len(p) = Len(q) /\ \A l \in 1 .. Len(p) : p[l] = q[l]
    BY <1>1, <1>5, <1>6
  <2>2. p \in Seq(TreeId) /\ q \in Seq(TreeId)
    BY DEF Paths
  <2>3. p = q
    BY <2>1, <2>2
  <2> QED
    BY <2>3
<1>7. CASE k = Len(p) + 1 /\ k # Len(q) + 1
  <2>1. k \in 1 .. Len(q)
    BY <1>1, <1>4, <1>7
  <2> QED
    BY <1>5, <1>7, <2>1 DEF Before
<1>8. CASE k # Len(p) + 1 /\ k = Len(q) + 1
  <2>1. k \in 1 .. Len(p)
    BY <1>1, <1>4, <1>8
  <2> QED
    BY <1>5, <1>8, <2>1 DEF Before
<1>9. CASE k # Len(p) + 1 /\ k # Len(q) + 1
  <2>1. k \in 1 .. Len(p) /\ k \in 1 .. Len(q)
    BY <1>1, <1>4, <1>9
  <2>2. p[k] \in Nat /\ q[k] \in Nat /\ p[k] # q[k]
    BY <1>1, <1>3, <2>1
  <2>3. p[k] < q[k] \/ q[k] < p[k]
    BY <2>2
  <2> QED
    BY <1>4, <1>5, <2>1, <2>3 DEF Before
<1> QED
  BY <1>6, <1>7, <1>8, <1>9

\* How many nodes of N come before p.
rankIn(N, p) == Cardinality({q \in N : Before(q, p)})

\* The nodes of a finite set have the ranks from 0 on, each one of them.
LEMMA RanksCount ==
    ASSUME NEW N \in SUBSET Paths, IsFiniteSet(N)
    PROVE  /\ Cardinality(N) \in Nat
           /\ \A p \in N : rankIn(N, p) \in 0 .. Cardinality(N) - 1
           /\ \A p, q \in N : Before(p, q) => rankIn(N, p) < rankIn(N, q)
           /\ \A k \in 0 .. Cardinality(N) - 1 : \E p \in N : rankIn(N, p) = k
<1> DEFINE n == Cardinality(N)
           pred(p) == {q \in N : Before(q, p)}
<1>1. n \in Nat
  BY FS_CardinalityType
<1>2. \A p \in N : pred(p) \in SUBSET N /\ p \notin pred(p)
  BY BeforeIsStrict
<1>3. \A p \in N : IsFiniteSet(pred(p)) /\ Cardinality(pred(p)) \in Nat /\ Cardinality(pred(p)) < n
  <2> SUFFICES ASSUME NEW p \in N
               PROVE  IsFiniteSet(pred(p)) /\ Cardinality(pred(p)) \in Nat /\ Cardinality(pred(p)) < n
    OBVIOUS
  <2> HIDE DEF pred
  <2>1. pred(p) \in SUBSET N /\ pred(p) # N
    BY <1>2
  <2>2. IsFiniteSet(pred(p)) /\ Cardinality(pred(p)) <= n /\ n # Cardinality(pred(p))
    BY <2>1, FS_Subset
  <2>3. Cardinality(pred(p)) \in Nat
    BY <2>2, FS_CardinalityType
  <2> QED
    BY <1>1, <2>2, <2>3
<1>4. \A p \in N : rankIn(N, p) = Cardinality(pred(p))
  BY DEF rankIn
<1>5. \A p \in N : rankIn(N, p) \in 0 .. n - 1
  <2> SUFFICES ASSUME NEW p \in N PROVE rankIn(N, p) \in 0 .. n - 1
    OBVIOUS
  <2> HIDE DEF pred, n
  <2> QED
    BY <1>1, <1>3, <1>4
<1>6. \A p, q \in N : Before(p, q) => rankIn(N, p) < rankIn(N, q)
  <2> SUFFICES ASSUME NEW p \in N, NEW q \in N, Before(p, q) PROVE rankIn(N, p) < rankIn(N, q)
    OBVIOUS
  <2>1. pred(p) \in SUBSET pred(q)
    BY BeforeIsTransitive
  <2>2. p \in pred(q) /\ p \notin pred(p)
    BY <1>2
  <2> HIDE DEF pred
  <2>3. IsFiniteSet(pred(q)) /\ pred(p) # pred(q)
    BY <1>3, <2>2
  <2>4. Cardinality(pred(p)) <= Cardinality(pred(q)) /\ Cardinality(pred(p)) # Cardinality(pred(q))
    BY <2>1, <2>3, FS_Subset
  <2> QED
    BY <1>3, <1>4, <2>4
<1>7. \A k \in 0 .. n - 1 : \E p \in N : rankIn(N, p) = k
  <2> DEFINE r == [p \in N |-> rankIn(N, p)]
  <2>1. r \in [N -> 0 .. n - 1]
    BY <1>5
  <2>2. \A p, q \in N : r[p] = r[q] => p = q
    <3> SUFFICES ASSUME NEW p \in N, NEW q \in N, p # q PROVE r[p] # r[q]
      OBVIOUS
    <3>1. Before(p, q) \/ Before(q, p)
      BY BeforeIsTotal
    <3>2. rankIn(N, p) < rankIn(N, q) \/ rankIn(N, q) < rankIn(N, p)
      BY <1>6, <3>1
    <3>3. rankIn(N, p) \in Int /\ rankIn(N, q) \in Int
      BY <1>5
    <3> QED
      BY <3>2, <3>3
  <2>3. r \in Injection(N, 0 .. n - 1)
    BY <2>1, <2>2 DEF Injection, IsInjective
  <2>4. IsFiniteSet(0 .. n - 1) /\ Cardinality(0 .. n - 1) = n
    <3> HIDE DEF n
    <3>1. n - 1 \in Int /\ 0 \in Int
      BY <1>1
    <3> QED
      BY <1>1, <3>1, FS_Interval
  <2> HIDE DEF r
  <2>5. r \in Surjection(N, 0 .. n - 1)
    BY <2>3, <2>4, FS_Injection
  <2>6. \A k \in 0 .. n - 1 : \E p \in N : r[p] = k
    BY <2>5 DEF Surjection
  <2> QED
    BY <2>6 DEF r
<1> QED
  BY <1>1, <1>5, <1>6, <1>7

\* DepthFirst lists each node of a finite set once.
LEMMA DepthFirstLists ==
    ASSUME NEW N \in SUBSET Paths, IsFiniteSet(N)
    PROVE  /\ Cardinality(N) \in Nat
           /\ DepthFirst(N) \in [1 .. Cardinality(N) -> N] /\ DepthFirst(N) \in Seq(N)
           /\ Len(DepthFirst(N)) = Cardinality(N) /\ DOMAIN DepthFirst(N) = 1 .. Cardinality(N)
           /\ \A p \in N : \E k \in 1 .. Cardinality(N) : DepthFirst(N)[k] = p
<1> DEFINE n == Cardinality(N)
           rank == [p \in N |-> Cardinality({q \in N : Before(q, p)})]
           at(k) == CHOOSE p \in N : rank[p] = k - 1
<1>1. n \in Nat
  BY RanksCount
<1>2. \A k \in 1 .. n : at(k) \in N /\ rankIn(N, at(k)) = k - 1
  <2> SUFFICES ASSUME NEW k \in 1 .. n PROVE at(k) \in N /\ rankIn(N, at(k)) = k - 1
    OBVIOUS
  <2>1. k - 1 \in 0 .. n - 1
    BY <1>1
  <2>2. \A p \in N : rank[p] = rankIn(N, p)
    BY DEF rankIn
  <2>3. \E p \in N : rank[p] = k - 1
    BY <2>1, <2>2, RanksCount
  <2> HIDE DEF rank
  <2>4. at(k) \in N /\ rank[at(k)] = k - 1
    BY <2>3
  <2> QED
    BY <2>2, <2>4
<1>3. DepthFirst(N) = [k \in 1 .. n |-> at(k)]
  BY DEF DepthFirst
<1> HIDE DEF at
<1>4. DepthFirst(N) \in [1 .. n -> N] /\ \A k \in 1 .. n : DepthFirst(N)[k] = at(k)
  BY <1>2, <1>3
<1>5. \A p \in N : \E k \in 1 .. n : DepthFirst(N)[k] = p
  <2> SUFFICES ASSUME NEW p \in N PROVE \E k \in 1 .. n : DepthFirst(N)[k] = p
    OBVIOUS
  <2>1. rankIn(N, p) \in 0 .. n - 1
    BY RanksCount
  <2> DEFINE k == rankIn(N, p) + 1
  <2>2. k \in 1 .. n /\ k - 1 = rankIn(N, p)
    BY <1>1, <2>1
  <2> HIDE DEF k
  <2>3. at(k) \in N /\ rankIn(N, at(k)) = rankIn(N, p)
    BY <1>2, <2>2
  <2>4. at(k) = p
    <3> SUFFICES ASSUME at(k) # p PROVE FALSE
      OBVIOUS
    <3>1. Before(at(k), p) \/ Before(p, at(k))
      BY <2>3, BeforeIsTotal
    <3>2. rankIn(N, at(k)) < rankIn(N, p) \/ rankIn(N, p) < rankIn(N, at(k))
      BY <2>3, <3>1, RanksCount
    <3> QED
      BY <2>1, <2>3, <3>2
  <2> QED
    BY <1>4, <2>2, <2>4
<1>6. DepthFirst(N) \in Seq(N) /\ Len(DepthFirst(N)) = n /\ DOMAIN DepthFirst(N) = 1 .. n
  BY <1>1, <1>4
<1> QED
  BY <1>1, <1>4, <1>5, <1>6

\* A nonempty finite set of nodes has a last one.
LEMMA LastIsIn ==
    ASSUME NEW N \in SUBSET Paths, IsFiniteSet(N), N # {}
    PROVE  lastOf(N) \in N
<1> DEFINE n == Cardinality(N)
<1>1. n \in Nat /\ n # 0
  BY FS_CardinalityType, FS_EmptySet
<1>2. PICK p \in N : rankIn(N, p) = n - 1
  <2>1. n - 1 \in 0 .. n - 1
    BY <1>1
  <2> QED
    BY <2>1, RanksCount
<1>3. \A q \in N \ {p} : Before(q, p)
  <2> SUFFICES ASSUME NEW q \in N, q # p PROVE Before(q, p)
    OBVIOUS
  <2>1. rankIn(N, q) \in 0 .. n - 1
    BY RanksCount
  <2>2. ~Before(p, q)
    <3>1. Before(p, q) => n - 1 < rankIn(N, q)
      BY <1>2, RanksCount
    <3> HIDE DEF n
    <3> QED
      BY <1>1, <2>1, <3>1
  <2> QED
    BY <2>2, BeforeIsTotal
<1> QED
  BY <1>3 DEF lastOf

\* The last of one node is that node.
LEMMA LastOfOne == \A p : lastOf({p}) = p
BY DEF lastOf

\* A nonempty finite set of nodes has a first one.
LEMMA FirstIsIn ==
    ASSUME NEW N \in SUBSET Paths, IsFiniteSet(N), N # {}
    PROVE  \E p \in N : \A q \in N \ {p} : Before(p, q)
<1> DEFINE n == Cardinality(N)
<1>1. n \in Nat /\ n # 0
  BY FS_CardinalityType, FS_EmptySet
<1>2. PICK p \in N : rankIn(N, p) = 0
  <2>1. 0 \in 0 .. n - 1
    BY <1>1
  <2> QED
    BY <2>1, RanksCount
<1>3. \A q \in N \ {p} : Before(p, q)
  <2> SUFFICES ASSUME NEW q \in N, q # p PROVE Before(p, q)
    OBVIOUS
  <2>1. rankIn(N, q) \in 0 .. n - 1
    BY RanksCount
  <2>2. ~Before(q, p)
    <3>1. Before(q, p) => rankIn(N, q) < 0
      BY <1>2, RanksCount
    <3> HIDE DEF n
    <3> QED
      BY <1>1, <2>1, <3>1
  <2> QED
    BY <2>2, BeforeIsTotal
<1> QED
  BY <1>3

\* What the next level has below the nodes P.
below(S, P) == UNION {{Append(p, c) : c \in childrenOf(S, Last(p))} : p \in {p \in P : ~isCut(p)}}

\* Each level has the children of the one above.
LEMMA LevelsUnfold ==
    ASSUME NEW S \in SUBSET TreeId, NEW roots \in SUBSET TreeId
    PROVE  /\ levels(S, roots)[1] = {<<r>> : r \in roots}
           /\ \A n \in 1 .. MaxTreeId : levels(S, roots)[n + 1] = below(S, levels(S, roots)[n])
<1> DEFINE M == MaxTreeId
           first == {<<r>> : r \in roots}
           G == [x \in (1 .. M) \X SUBSET Paths |-> below(S, x[2])]
<1>1. M \in Nat
  BY Numbered
<1>2. first \in SUBSET Paths
  <2>1. \A r \in TreeId : <<r>> \in Seq(TreeId)
    OBVIOUS
  <2> QED
    BY <2>1 DEF Paths
<1>3. \A P \in SUBSET Paths : below(S, P) \in SUBSET Paths
  <2>1. \A p \in Seq(TreeId), c \in TreeId : Append(p, c) \in Seq(TreeId)
    OBVIOUS
  <2>2. \A p : childrenOf(S, Last(p)) \subseteq TreeId
    BY DEF childrenOf
  <2> SUFFICES ASSUME NEW P \in SUBSET Paths, NEW q \in below(S, P)
               PROVE  q \in Paths
    OBVIOUS
  <2>3. PICK p \in P : \E c \in childrenOf(S, Last(p)) : q = Append(p, c)
    BY DEF below
  <2> QED
    BY <2>1, <2>2, <2>3 DEF Paths
<1>4. G \in [(1 .. M) \X SUBSET Paths -> SUBSET Paths]
  <2> SUFFICES ASSUME NEW x \in (1 .. M) \X SUBSET Paths PROVE below(S, x[2]) \in SUBSET Paths
    OBVIOUS
  <2> QED
    BY <1>3
<1> DEFINE A == SUBSET Paths
<1> HIDE DEF G, first, M, A
<1>5. PICK f : Unfolds(f, M, A, first, G)
  <2>1. first \in A /\ G \in [(1 .. M) \X A -> A]
    BY <1>2, <1>4 DEF A
  <2> QED
    BY <1>1, <2>1, Recursion
<1>6. \A k \in 1 .. M : f[k] = below(S, f[k - 1])
  <2> SUFFICES ASSUME NEW k \in 1 .. M PROVE f[k] = below(S, f[k - 1])
    OBVIOUS
  <2>1. k - 1 \in 0 .. M /\ f \in [0 .. M -> A] /\ f[k] = G[<<k, f[k - 1]>>]
    BY <1>1, <1>5 DEF Unfolds
  <2>2. <<k, f[k - 1]>> \in (1 .. M) \X SUBSET Paths
    BY <2>1 DEF A
  <2>3. G[<<k, f[k - 1]>>] = below(S, f[k - 1])
    BY <2>2 DEF G
  <2> QED
    BY <2>1, <2>3
<1> DEFINE Is(level) == level = [n \in 1 .. M + 1 |-> IF n = 1 THEN first ELSE below(S, level[n - 1])]
           g == [n \in 1 .. M + 1 |-> f[n - 1]]
<1>7. Is(g)
  <2>1. \A n \in 1 .. M + 1 : g[n] = IF n = 1 THEN first ELSE below(S, g[n - 1])
    <3> SUFFICES ASSUME NEW n \in 1 .. M + 1 PROVE g[n] = IF n = 1 THEN first ELSE below(S, g[n - 1])
      OBVIOUS
    <3>1. CASE n = 1
      BY <1>5, <3>1 DEF Unfolds
    <3>2. CASE n # 1
      <4>1. n - 1 \in 1 .. M /\ n - 1 \in 1 .. M + 1
        BY <1>1, <3>2
      <4>2. f[n - 1] = below(S, f[(n - 1) - 1])
        BY <1>6, <4>1
      <4> QED
        BY <3>2, <4>1, <4>2
    <3> QED
      BY <3>1, <3>2
  <2> QED
    BY <2>1
<1>8. levels(S, roots) = CHOOSE level : Is(level)
  BY DEF levels, below, first, M
<1>9. Is(levels(S, roots))
  <2> HIDE DEF Is, g
  <2> QED
    BY <1>7, <1>8
<1>10. \A n \in 1 .. M : n + 1 \in 1 .. M + 1 /\ n + 1 # 1 /\ (n + 1) - 1 = n
  BY <1>1
<1>11. 1 \in 1 .. M + 1
  BY <1>1
<1>12. levels(S, roots)[1] = first
  BY <1>9, <1>11
<1>13. \A n \in 1 .. M : levels(S, roots)[n + 1] = below(S, levels(S, roots)[n])
  BY <1>9, <1>10
<1> QED
  BY <1>12, <1>13 DEF first, M

-----------------------------------------------------------------------------
(* Paths *)
\* A path from a root on from parent to child, that has come back to an issue at its end at most.
isPath(S, roots, p) ==
    /\ p \in Paths /\ Len(p) # 0 /\ p[1] \in roots
    /\ \A k \in 1 .. Len(p) - 1 : p[k + 1] \in childrenOf(S, p[k])
    /\ \A k, l \in 1 .. Len(p) - 1 : p[k] = p[l] => k = l

\* What a path's parts are.
LEMMA PathParts ==
    ASSUME NEW p \in Paths, Len(p) # 0
    PROVE  /\ Len(p) \in Nat /\ Len(p) \in 1 .. Len(p) /\ Last(p) = p[Len(p)] /\ Last(p) \in TreeId
           /\ \A k \in 1 .. Len(p) : p[k] \in TreeId
           /\ \A k \in 1 .. Len(p) : /\ SubSeq(p, 1, k) \in Paths /\ Len(SubSeq(p, 1, k)) = k
                                     /\ \A l \in 1 .. k : SubSeq(p, 1, k)[l] = p[l]
                                     /\ Last(SubSeq(p, 1, k)) = p[k]
           /\ Front(p) = SubSeq(p, 1, Len(p) - 1)
<1>1. /\ Len(p) \in Nat /\ Len(p) \in 1 .. Len(p) /\ Last(p) = p[Len(p)] /\ Last(p) \in TreeId
      /\ \A k \in 1 .. Len(p) : p[k] \in TreeId
  BY Numbered DEF Last
<1>2. \A k \in 1 .. Len(p) : /\ SubSeq(p, 1, k) \in Paths /\ Len(SubSeq(p, 1, k)) = k
                             /\ \A l \in 1 .. k : SubSeq(p, 1, k)[l] = p[l]
  <2> SUFFICES ASSUME NEW k \in 1 .. Len(p)
               PROVE  /\ SubSeq(p, 1, k) \in Paths /\ Len(SubSeq(p, 1, k)) = k
                      /\ \A l \in 1 .. k : SubSeq(p, 1, k)[l] = p[l]
    OBVIOUS
  <2>1. p \in Seq(TreeId) /\ k \in Nat
    BY <1>1 DEF Paths
  <2>2. SubSeq(p, 1, k) \in Seq(TreeId) /\ Len(SubSeq(p, 1, k)) = k
    BY <1>1, <2>1
  <2>3. \A l \in 1 .. k : SubSeq(p, 1, k)[l] = p[l]
    BY <1>1, <2>1
  <2> QED
    BY <2>2, <2>3 DEF Paths
<1>3. \A k \in 1 .. Len(p) : Last(SubSeq(p, 1, k)) = p[k]
  <2> SUFFICES ASSUME NEW k \in 1 .. Len(p) PROVE Last(SubSeq(p, 1, k)) = p[k]
    OBVIOUS
  <2>1. k \in 1 .. k
    BY <1>1
  <2> QED
    BY <1>2, <2>1 DEF Last
<1> QED
  BY <1>1, <1>2, <1>3 DEF Front

\* What a path has before its end is a path that is not cut.
LEMMA PrefixIsPath ==
    ASSUME NEW S, NEW roots, NEW p, isPath(S, roots, p), NEW k \in 1 .. Len(p)
    PROVE  /\ isPath(S, roots, SubSeq(p, 1, k))
           /\ k < Len(p) => ~isCut(SubSeq(p, 1, k))
<1> DEFINE q == SubSeq(p, 1, k)
<1>1. p \in Paths /\ Len(p) # 0
  BY DEF isPath
<1>2. Len(p) \in Nat /\ k \in Nat /\ k <= Len(p) /\ 1 <= k
  BY <1>1, PathParts
<1>3. q \in Paths /\ Len(q) = k /\ (\A l \in 1 .. k : q[l] = p[l]) /\ Last(q) = p[k]
  BY <1>1, PathParts
<1> HIDE DEF q
<1>4. q[1] \in roots
  BY <1>2, <1>3 DEF isPath
<1>5. \A l \in 1 .. k - 1 : q[l + 1] \in childrenOf(S, q[l])
  <2> SUFFICES ASSUME NEW l \in 1 .. k - 1 PROVE q[l + 1] \in childrenOf(S, q[l])
    OBVIOUS
  <2>1. l \in 1 .. Len(p) - 1 /\ l \in 1 .. k /\ l + 1 \in 1 .. k
    BY <1>2
  <2> QED
    BY <1>3, <2>1 DEF isPath
<1>6. \A l, m \in 1 .. k - 1 : q[l] = q[m] => l = m
  <2> SUFFICES ASSUME NEW l \in 1 .. k - 1, NEW m \in 1 .. k - 1, q[l] = q[m] PROVE l = m
    OBVIOUS
  <2>1. l \in 1 .. Len(p) - 1 /\ m \in 1 .. Len(p) - 1 /\ l \in 1 .. k /\ m \in 1 .. k
    BY <1>2
  <2> QED
    BY <1>3, <2>1 DEF isPath
<1>7. k < Len(p) => ~isCut(q)
  <2> SUFFICES ASSUME k < Len(p), NEW l \in 1 .. k - 1 PROVE q[l] # Last(q)
    BY <1>3 DEF isCut
  <2>1. l \in 1 .. Len(p) - 1 /\ k \in 1 .. Len(p) - 1 /\ l \in 1 .. k /\ l # k
    BY <1>2
  <2> QED
    BY <1>3, <2>1 DEF isPath
<1> QED
  BY <1>2, <1>3, <1>4, <1>5, <1>6, <1>7 DEF isPath, q

\* A path that is not cut goes on to the children of its last issue.
LEMMA PathGoesOn ==
    ASSUME NEW S \in SUBSET TreeId, NEW roots, NEW p, isPath(S, roots, p), ~isCut(p), NEW c \in childrenOf(S, Last(p))
    PROVE  isPath(S, roots, Append(p, c)) /\ Len(Append(p, c)) = Len(p) + 1 /\ Last(Append(p, c)) = c
<1> DEFINE q == Append(p, c)
<1>1. p \in Paths /\ Len(p) # 0 /\ c \in TreeId
  BY DEF isPath, childrenOf
<1>2. Len(p) \in Nat /\ 1 <= Len(p) /\ Last(p) = p[Len(p)]
  BY <1>1, PathParts
<1>3. q \in Paths /\ Len(q) = Len(p) + 1 /\ (\A l \in 1 .. Len(p) : q[l] = p[l]) /\ q[Len(p) + 1] = c
  <2>1. p \in Seq(TreeId)
    BY <1>1 DEF Paths
  <2> QED
    BY <1>1, <2>1 DEF Paths
<1> HIDE DEF q
<1>4. q[1] \in roots
  BY <1>2, <1>3 DEF isPath
<1>5. \A l \in 1 .. Len(p) : q[l + 1] \in childrenOf(S, q[l])
  <2> SUFFICES ASSUME NEW l \in 1 .. Len(p) PROVE q[l + 1] \in childrenOf(S, q[l])
    OBVIOUS
  <2>1. CASE l = Len(p)
    BY <1>2, <1>3, <2>1
  <2>2. CASE l # Len(p)
    <3>1. l \in 1 .. Len(p) - 1 /\ l + 1 \in 1 .. Len(p)
      BY <1>2, <2>2
    <3> QED
      BY <1>3, <3>1 DEF isPath
  <2> QED
    BY <2>1, <2>2
<1>6. \A l, m \in 1 .. Len(p) : q[l] = q[m] => l = m
  <2>1. \A l \in 1 .. Len(p) - 1 : p[l] # p[Len(p)]
    BY <1>2 DEF isCut
  <2> SUFFICES ASSUME NEW l \in 1 .. Len(p), NEW m \in 1 .. Len(p), q[l] = q[m] PROVE l = m
    OBVIOUS
  <2>2. p[l] = p[m]
    BY <1>3
  <2>3. CASE l # Len(p) /\ m # Len(p)
    <3>1. l \in 1 .. Len(p) - 1 /\ m \in 1 .. Len(p) - 1
      BY <1>2, <2>3
    <3> QED
      BY <2>2, <3>1 DEF isPath
  <2>4. CASE l = Len(p) /\ m # Len(p)
    <3>1. m \in 1 .. Len(p) - 1
      BY <1>2, <2>4
    <3> QED
      BY <2>1, <2>2, <2>4, <3>1
  <2>5. CASE l # Len(p) /\ m = Len(p)
    <3>1. l \in 1 .. Len(p) - 1
      BY <1>2, <2>5
    <3> QED
      BY <2>1, <2>2, <2>5, <3>1
  <2> QED
    BY <2>3, <2>4, <2>5
<1>7. Len(q) - 1 = Len(p) /\ Len(q) # 0
  BY <1>2, <1>3
<1>8. isPath(S, roots, q)
  BY <1>3, <1>4, <1>5, <1>6, <1>7 DEF isPath
<1>9. Last(q) = c
  BY <1>3 DEF Last
<1> QED
  BY <1>3, <1>8, <1>9 DEF q

\* A path is no longer than there are issues, and one step that comes back.
LEMMA PathIsShort ==
    ASSUME NEW S, NEW roots, NEW p, isPath(S, roots, p)
    PROVE  Len(p) \in 1 .. MaxTreeId + 1
<1> DEFINE n == Len(p) - 1
           f == [k \in 1 .. n |-> p[k]]
<1>1. p \in Paths /\ Len(p) # 0 /\ MaxTreeId \in Nat
  BY Numbered DEF isPath
<1>2. Len(p) \in Nat /\ \A k \in 1 .. Len(p) : p[k] \in TreeId
  BY <1>1, PathParts
<1>3. f \in Injection(1 .. n, TreeId)
  <2>1. \A k \in 1 .. n : p[k] \in TreeId
    BY <1>2
  <2>2. \A k, l \in 1 .. n : p[k] = p[l] => k = l
    BY DEF isPath
  <2> QED
    BY <2>1, <2>2 DEF Injection, IsInjective
<1> HIDE DEF f, n
<1>4. IsFiniteSet(TreeId) /\ Cardinality(TreeId) = MaxTreeId
  <2>1. IsFiniteSet(1 .. MaxTreeId) /\ Cardinality(1 .. MaxTreeId) = IF 1 > MaxTreeId THEN 0 ELSE MaxTreeId - 1 + 1
    BY <1>1, FS_Interval
  <2> QED
    BY <1>1, <2>1 DEF TreeId
<1>5. Cardinality(1 .. n) <= MaxTreeId
  BY <1>3, <1>4, FS_Injection
<1>6. n \in Int /\ n >= 0 /\ Len(p) = n + 1
  BY <1>1, <1>2 DEF n
<1>7. Cardinality(1 .. n) = n
  <2>1. Cardinality(1 .. n) = IF 1 > n THEN 0 ELSE n - 1 + 1
    BY <1>6, FS_Interval
  <2> QED
    BY <1>6, <2>1
<1> QED
  BY <1>1, <1>5, <1>6, <1>7

\* A longer path is one that is not cut, and a child.
LEMMA PathComesFrom ==
    ASSUME NEW S \in SUBSET TreeId, NEW roots, NEW p, isPath(S, roots, p), Len(p) # 1
    PROVE  LET q == SubSeq(p, 1, Len(p) - 1) IN
           /\ isPath(S, roots, q) /\ Len(q) = Len(p) - 1 /\ ~isCut(q)
           /\ Last(p) \in childrenOf(S, Last(q)) /\ p = Append(q, Last(p))
<1> DEFINE n == Len(p)
           q == SubSeq(p, 1, n - 1)
<1>1. p \in Paths /\ n # 0
  BY DEF isPath
<1>2. n \in Nat /\ Last(p) = p[n] /\ n - 1 \in 1 .. n /\ n - 1 < n
  <2>1. n \in Nat /\ Last(p) = p[n]
    BY <1>1, PathParts
  <2>2. n # 1
    OBVIOUS
  <2> HIDE DEF n
  <2> QED
    BY <1>1, <2>1, <2>2
<1>3. q \in Paths /\ Len(q) = n - 1 /\ (\A l \in 1 .. n - 1 : q[l] = p[l]) /\ Last(q) = p[n - 1]
  BY <1>1, <1>2, PathParts
<1>4. isPath(S, roots, q) /\ ~isCut(q)
  BY <1>2, PrefixIsPath
<1>5. Last(p) \in childrenOf(S, Last(q))
  <2>1. n - 1 \in 1 .. n - 1 /\ (n - 1) + 1 = n
    BY <1>2
  <2>2. p[(n - 1) + 1] \in childrenOf(S, p[n - 1])
    BY <2>1 DEF isPath
  <2> QED
    BY <1>2, <1>3, <2>1, <2>2
<1>6. p = Append(q, Last(p))
  <2>1. p \in Seq(TreeId) /\ q \in Seq(TreeId) /\ Last(p) \in TreeId
    BY <1>1, <1>3, PathParts DEF Paths
  <2> HIDE DEF q
  <2>2. Append(q, Last(p)) \in Seq(TreeId) /\ Len(Append(q, Last(p))) = n
    BY <1>2, <1>3, <2>1
  <2>3. \A l \in 1 .. n : Append(q, Last(p))[l] = p[l]
    <3> SUFFICES ASSUME NEW l \in 1 .. n PROVE Append(q, Last(p))[l] = p[l]
      OBVIOUS
    <3>1. CASE l = n
      BY <1>2, <1>3, <2>1, <3>1
    <3>2. CASE l # n
      <4>1. l \in 1 .. n - 1
        BY <1>2, <3>2
      <4>2. q[l] = p[l] /\ l \in 1 .. Len(q)
        BY <1>3, <4>1
      <4>3. Append(q, Last(p))[l] = q[l]
        BY <2>1, <4>2
      <4> QED
        BY <4>2, <4>3
    <3> QED
      BY <3>1, <3>2
  <2> QED
    BY <2>1, <2>2, <2>3
<1> QED
  BY <1>3, <1>4, <1>5, <1>6

\* The n-th level has the paths of length n.
LEMMA LevelsAre ==
    ASSUME NEW S \in SUBSET TreeId, NEW roots \in SUBSET TreeId
    PROVE  \A n \in 1 .. MaxTreeId + 1 : levels(S, roots)[n] = {p \in Paths : isPath(S, roots, p) /\ Len(p) = n}
<1> DEFINE lv == levels(S, roots)
           Are(n) == \A p : p \in lv[n] <=> isPath(S, roots, p) /\ Len(p) = n
           Wrong == {n \in 1 .. MaxTreeId + 1 : ~Are(n)}
<1>1. lv[1] = {<<r>> : r \in roots} /\ \A n \in 1 .. MaxTreeId : lv[n + 1] = below(S, lv[n])
  BY LevelsUnfold
<1>2. MaxTreeId \in Nat
  BY Numbered
<1> HIDE DEF lv
<1>3. Are(1)
  <2> SUFFICES ASSUME NEW p PROVE p \in lv[1] <=> isPath(S, roots, p) /\ Len(p) = 1
    OBVIOUS
  <2>1. ASSUME p \in lv[1] PROVE isPath(S, roots, p) /\ Len(p) = 1
    <3>1. PICK r \in roots : p = <<r>>
      BY <1>1, <2>1
    <3>2. p \in Paths /\ Len(p) = 1 /\ p[1] = r
      <4>1. r \in TreeId
        OBVIOUS
      <4> QED
        BY <3>1, <4>1 DEF Paths
    <3>3. 1 .. Len(p) - 1 = {}
      BY <3>2
    <3> QED
      BY <3>2, <3>3 DEF isPath
  <2>2. ASSUME isPath(S, roots, p), Len(p) = 1 PROVE p \in lv[1]
    <3>1. p \in Seq(TreeId) /\ p[1] \in roots
      BY <2>2 DEF isPath, Paths
    <3>2. p = <<p[1]>>
      BY <2>2, <3>1
    <3> QED
      BY <1>1, <3>1, <3>2
  <2> QED
    BY <2>1, <2>2
<1>4. ASSUME NEW n \in 1 .. MaxTreeId, Are(n) PROVE Are(n + 1)
  <2> SUFFICES ASSUME NEW p PROVE p \in lv[n + 1] <=> isPath(S, roots, p) /\ Len(p) = n + 1
    OBVIOUS
  <2>1. ASSUME p \in lv[n + 1] PROVE isPath(S, roots, p) /\ Len(p) = n + 1
    <3>1. p \in below(S, lv[n])
      BY <1>1, <2>1
    <3>2. PICK q \in lv[n] : ~isCut(q) /\ \E c \in childrenOf(S, Last(q)) : p = Append(q, c)
      BY <3>1 DEF below
    <3>3. isPath(S, roots, q) /\ Len(q) = n
      BY <1>4
    <3> QED
      BY <3>2, <3>3, PathGoesOn
  <2>2. ASSUME isPath(S, roots, p), Len(p) = n + 1 PROVE p \in lv[n + 1]
    <3> DEFINE q == SubSeq(p, 1, Len(p) - 1)
    <3>1. Len(p) # 1 /\ Len(p) - 1 = n
      BY <2>2
    <3>2. /\ isPath(S, roots, q) /\ Len(q) = n /\ ~isCut(q)
          /\ Last(p) \in childrenOf(S, Last(q)) /\ p = Append(q, Last(p))
      BY <2>2, <3>1, PathComesFrom
    <3> HIDE DEF q
    <3>3. q \in lv[n]
      BY <1>4, <3>2
    <3>4. p \in below(S, lv[n])
      BY <3>2, <3>3 DEF below
    <3> QED
      BY <1>1, <3>4
  <2> QED
    BY <2>1, <2>2
<1>5. Wrong = {}
  <2> SUFFICES ASSUME Wrong # {} PROVE FALSE
    OBVIOUS
  <2>1. Wrong \in SUBSET Nat
    BY <1>2
  <2>2. PICK n \in Wrong : \A m \in Wrong : n <= m
    BY <2>1, LeastOf
  <2>3. n \in 1 .. MaxTreeId + 1 /\ ~Are(n)
    OBVIOUS
  <2> HIDE DEF Are
  <2>4. n # 1
    BY <1>3, <2>3
  <2>5. n - 1 \in 1 .. MaxTreeId /\ n - 1 \in 1 .. MaxTreeId + 1 /\ ~(n <= n - 1) /\ (n - 1) + 1 = n
    BY <1>2, <2>3, <2>4
  <2>6. Are(n - 1)
    BY <2>2, <2>5
  <2> QED
    BY <1>4, <2>3, <2>5, <2>6
<1>6. \A n \in 1 .. MaxTreeId + 1 : Are(n)
  BY <1>5
<1> QED
  BY <1>6 DEF isPath, lv

\* The nodes are the paths from the roots.
LEMMA NodesArePaths ==
    ASSUME NEW S \in SUBSET TreeId, NEW roots \in SUBSET TreeId
    PROVE  \A p : p \in buildNode(S, roots) <=> isPath(S, roots, p)
<1> SUFFICES ASSUME NEW p PROVE p \in buildNode(S, roots) <=> isPath(S, roots, p)
  OBVIOUS
<1>1. ASSUME p \in buildNode(S, roots) PROVE isPath(S, roots, p)
  <2>1. PICK n \in 1 .. MaxTreeId + 1 : p \in levels(S, roots)[n]
    BY <1>1 DEF buildNode
  <2> QED
    BY <2>1, LevelsAre
<1>2. ASSUME isPath(S, roots, p) PROVE p \in buildNode(S, roots)
  <2>1. p \in Paths /\ Len(p) \in 1 .. MaxTreeId + 1
    BY <1>2, PathIsShort DEF isPath
  <2>2. p \in levels(S, roots)[Len(p)]
    BY <1>2, <2>1, LevelsAre
  <2> QED
    BY <2>1, <2>2 DEF buildNode
<1> QED
  BY <1>1, <1>2

\* There are finitely many.
LEMMA NodesAreFinite ==
    ASSUME NEW S \in SUBSET TreeId, NEW roots \in SUBSET TreeId
    PROVE  IsFiniteSet(buildNode(S, roots)) /\ buildNode(S, roots) \in SUBSET Paths
<1> DEFINE N == buildNode(S, roots)
           Lines == (1 .. MaxTreeId + 1) \X TreeId
           graphOf(p) == {<<k, p[k]>> : k \in 1 .. Len(p)}
           f == [p \in N |-> graphOf(p)]
<1>1. \A p \in N : isPath(S, roots, p)
  BY NodesArePaths
<1>2. \A p \in N : p \in Paths /\ Len(p) \in 1 .. MaxTreeId + 1 /\ \A k \in 1 .. Len(p) : p[k] \in TreeId
  <2> HIDE DEF N
  <2> SUFFICES ASSUME NEW p \in N
               PROVE  p \in Paths /\ Len(p) \in 1 .. MaxTreeId + 1 /\ \A k \in 1 .. Len(p) : p[k] \in TreeId
    OBVIOUS
  <2>1. isPath(S, roots, p) /\ p \in Paths /\ Len(p) # 0
    BY <1>1 DEF isPath
  <2> QED
    BY <2>1, PathIsShort, PathParts
<1>3. MaxTreeId \in Nat
  BY Numbered
<1> HIDE DEF N
<1>4. \A p \in N : graphOf(p) \in SUBSET Lines
  <2> SUFFICES ASSUME NEW p \in N, NEW k \in 1 .. Len(p) PROVE <<k, p[k]>> \in Lines
    OBVIOUS
  <2>1. k \in 1 .. MaxTreeId + 1 /\ p[k] \in TreeId
    BY <1>2, <1>3
  <2> QED
    BY <2>1
<1>5. \A p, q \in N : graphOf(p) = graphOf(q) => p = q
  <2> SUFFICES ASSUME NEW p \in N, NEW q \in N, graphOf(p) = graphOf(q) PROVE p = q
    OBVIOUS
  <2>1. Len(p) \in Nat /\ Len(q) \in Nat /\ p \in Seq(TreeId) /\ q \in Seq(TreeId)
    BY <1>2, <1>3 DEF Paths
  <2>2. \A k \in 1 .. Len(p) : k \in 1 .. Len(q) /\ p[k] = q[k]
    <3> SUFFICES ASSUME NEW k \in 1 .. Len(p) PROVE k \in 1 .. Len(q) /\ p[k] = q[k]
      OBVIOUS
    <3>1. <<k, p[k]>> \in graphOf(q)
      OBVIOUS
    <3>2. PICK l \in 1 .. Len(q) : <<k, p[k]>> = <<l, q[l]>>
      BY <3>1
    <3> QED
      BY <3>2
  <2>3. \A k \in 1 .. Len(q) : k \in 1 .. Len(p)
    <3> SUFFICES ASSUME NEW k \in 1 .. Len(q) PROVE k \in 1 .. Len(p)
      OBVIOUS
    <3>1. <<k, q[k]>> \in graphOf(p)
      OBVIOUS
    <3>2. PICK l \in 1 .. Len(p) : <<k, q[k]>> = <<l, p[l]>>
      BY <3>1
    <3> QED
      BY <3>2
  <2> HIDE DEF graphOf
  <2>4. Len(p) = Len(q)
    <3>1. Len(p) <= Len(q)
      <4>1. CASE Len(p) = 0
        BY <2>1, <4>1
      <4>2. CASE Len(p) # 0
        <5>1. Len(p) \in 1 .. Len(p)
          BY <2>1, <4>2
        <5> QED
          BY <2>1, <2>2, <5>1
      <4> QED
        BY <4>1, <4>2
    <3>2. Len(q) <= Len(p)
      <4>1. CASE Len(q) = 0
        BY <2>1, <4>1
      <4>2. CASE Len(q) # 0
        <5>1. Len(q) \in 1 .. Len(q)
          BY <2>1, <4>2
        <5> QED
          BY <2>1, <2>3, <5>1
      <4> QED
        BY <4>1, <4>2
    <3> QED
      BY <2>1, <3>1, <3>2
  <2> QED
    BY <2>1, <2>2, <2>4
<1>6. f \in Injection(N, SUBSET Lines)
  <2> HIDE DEF graphOf, Lines
  <2>1. f \in [N -> SUBSET Lines]
    BY <1>4
  <2>2. \A p, q \in N : f[p] = f[q] => p = q
    BY <1>5
  <2> QED
    BY <2>1, <2>2 DEF Injection, IsInjective
<1>7. IsFiniteSet(SUBSET Lines)
  <2>1. IsFiniteSet(1 .. MaxTreeId + 1) /\ IsFiniteSet(TreeId)
    BY <1>3, FS_Interval DEF TreeId
  <2>2. IsFiniteSet(Lines)
    BY <2>1, FS_Product
  <2> QED
    BY <2>2, FS_SUBSET
<1> HIDE DEF f, Lines
<1>8. IsFiniteSet(N)
  BY <1>6, <1>7, FS_Injection
<1> QED
  BY <1>2, <1>8 DEF N

-----------------------------------------------------------------------------
(* What the roots reach *)
\* What has a node has one that is not cut.
LEMMA RepresentedUncut ==
    ASSUME NEW S \in SUBSET TreeId, NEW roots \in SUBSET TreeId, NEW i \in represented(S, roots)
    PROVE  \E p : isPath(S, roots, p) /\ Last(p) = i /\ ~isCut(p)
<1>1. PICK p : isPath(S, roots, p) /\ Last(p) = i
  BY NodesArePaths DEF represented
<1>2. p \in Paths /\ Len(p) # 0
  BY <1>1 DEF isPath
<1>3. ASSUME isCut(p) PROVE \E q : isPath(S, roots, q) /\ Last(q) = i /\ ~isCut(q)
  <2>1. PICK k \in 1 .. Len(p) - 1 : p[k] = Last(p)
    BY <1>3 DEF isCut
  <2>2. Len(p) \in Nat
    BY <1>2, PathParts
  <2>3. k \in 1 .. Len(p) /\ k < Len(p)
    BY <2>2
  <2>4. isPath(S, roots, SubSeq(p, 1, k)) /\ ~isCut(SubSeq(p, 1, k)) /\ Last(SubSeq(p, 1, k)) = p[k]
    BY <1>1, <1>2, <2>3, PrefixIsPath, PathParts
  <2> QED
    BY <1>1, <2>1, <2>4
<1> QED
  BY <1>1, <1>3

\* The last of a path is represented.
LEMMA PathRepresents ==
    ASSUME NEW S \in SUBSET TreeId, NEW roots \in SUBSET TreeId, NEW p, isPath(S, roots, p)
    PROVE  Last(p) \in represented(S, roots)
BY NodesArePaths DEF represented

\* The path of a root alone.
LEMMA RootIsPath ==
    ASSUME NEW S, NEW roots \in SUBSET TreeId, NEW r \in roots
    PROVE  isPath(S, roots, <<r>>) /\ Last(<<r>>) = r /\ ~isCut(<<r>>)
<1>1. r \in TreeId
  OBVIOUS
<1>2. <<r>> \in Paths /\ Len(<<r>>) = 1 /\ <<r>>[1] = r
  BY <1>1 DEF Paths
<1>3. 1 .. Len(<<r>>) - 1 = {}
  BY <1>2
<1> QED
  BY <1>2, <1>3 DEF isPath, isCut, Last

\* More roots represent more.
LEMMA RepresentedGrows ==
    ASSUME NEW S \in SUBSET TreeId, NEW roots \in SUBSET TreeId, NEW more \in SUBSET TreeId, roots \subseteq more
    PROVE  represented(S, roots) \subseteq represented(S, more)
<1> SUFFICES ASSUME NEW i \in represented(S, roots) PROVE i \in represented(S, more)
  OBVIOUS
<1>1. PICK p : isPath(S, roots, p) /\ Last(p) = i
  BY RepresentedUncut
<1>2. isPath(S, more, p)
  BY <1>1 DEF isPath
<1> QED
  BY <1>1, <1>2, PathRepresents

\* A node is of one of the issues.
LEMMA PathIsOfIssues ==
    ASSUME NEW S \in SUBSET TreeId, NEW roots \in SUBSET S, NEW p, isPath(S, roots, p)
    PROVE  \A k \in 1 .. Len(p) : p[k] \in S
<1>1. Len(p) \in Nat
  BY PathParts DEF isPath
<1> SUFFICES ASSUME NEW k \in 1 .. Len(p) PROVE p[k] \in S
  OBVIOUS
<1>2. CASE k = 1
  BY <1>2 DEF isPath
<1>3. CASE k # 1
  <2>1. k - 1 \in 1 .. Len(p) - 1 /\ (k - 1) + 1 = k
    BY <1>1, <1>3
  <2>2. p[(k - 1) + 1] \in childrenOf(S, p[k - 1])
    BY <2>1 DEF isPath
  <2> QED
    BY <2>1, <2>2 DEF childrenOf
<1> QED
  BY <1>2, <1>3

\* Children of what is represented are represented.
LEMMA ChildrenRepresented ==
    ASSUME NEW S \in SUBSET TreeId, NEW roots \in SUBSET TreeId, NEW i \in represented(S, roots), NEW c \in childrenOf(S, i)
    PROVE  c \in represented(S, roots)
<1>1. PICK p : isPath(S, roots, p) /\ Last(p) = i /\ ~isCut(p)
  BY RepresentedUncut
<1>2. isPath(S, roots, Append(p, c)) /\ Last(Append(p, c)) = c
  BY <1>1, PathGoesOn
<1> QED
  BY <1>2, PathRepresents

\* The least parent is a parent.
LEMMA LeastParentIs ==
    ASSUME NEW S \in SUBSET TreeId, NEW x, parents[x] \cap S # {}
    PROVE  leastParent(S, x) \in parents[x] \cap S
<1>1. parents[x] \cap S \in SUBSET Nat
  BY Numbered
<1>2. \E q \in parents[x] \cap S : \A r \in parents[x] \cap S : q <= r
  BY <1>1, LeastOf
<1> QED
  BY <1>2 DEF leastParent

\* What no root reaches has a parent that no root reaches.
LEMMA UnreachedHaveParents ==
    ASSUME NEW S \in SUBSET TreeId, NEW roots \in SUBSET S, naturalRoots(S) \subseteq roots,
           NEW x \in S \ represented(S, roots)
    PROVE  leastParent(S, x) \in (S \ represented(S, roots)) \cap parents[x]
<1>1. roots \in SUBSET TreeId
  OBVIOUS
<1>2. x \notin naturalRoots(S)
  <2> SUFFICES ASSUME x \in roots PROVE FALSE
    OBVIOUS
  <2>1. isPath(S, roots, <<x>>) /\ Last(<<x>>) = x
    BY <1>1, RootIsPath
  <2>2. Last(<<x>>) \in represented(S, roots)
    BY <1>1, <2>1, PathRepresents
  <2> QED
    BY <2>1, <2>2
<1>3. leastParent(S, x) \in parents[x] \cap S
  BY <1>2, LeastParentIs DEF naturalRoots
<1>4. leastParent(S, x) \notin represented(S, roots)
  <2> SUFFICES ASSUME leastParent(S, x) \in represented(S, roots) PROVE FALSE
    OBVIOUS
  <2>1. x \in childrenOf(S, leastParent(S, x))
    BY <1>3 DEF childrenOf
  <2> QED
    BY <1>1, <2>1, ChildrenRepresented
<1> QED
  BY <1>3, <1>4

\* The chain of least parents, as long as it stays in U.
LEMMA ChainUnfolds ==
    ASSUME NEW S, NEW U, NEW i \in U, \A x \in U : leastParent(S, x) \in U
    PROVE  /\ chainOf(S, i)[0] = i
           /\ \A k \in 1 .. MaxTreeId : chainOf(S, i)[k] = leastParent(S, chainOf(S, i)[k - 1])
           /\ \A k \in 0 .. MaxTreeId : chainOf(S, i)[k] \in U
<1> DEFINE M == MaxTreeId
           G == [x \in (1 .. M) \X U |-> leastParent(S, x[2])]
           Is(up) == up = [n \in 0 .. M |-> IF n = 0 THEN i ELSE leastParent(S, up[n - 1])]
<1>1. M \in Nat
  BY Numbered
<1>2. G \in [(1 .. M) \X U -> U]
  OBVIOUS
<1>3. chainOf(S, i) = CHOOSE up : Is(up)
  BY DEF chainOf
<1> HIDE DEF G, M
<1>4. PICK f : Unfolds(f, M, U, i, G)
  BY <1>1, <1>2, Recursion
<1>5. Is(f)
  <2>1. f \in [0 .. M -> U]
    BY <1>4 DEF Unfolds
  <2>2. \A n \in 0 .. M : f[n] = IF n = 0 THEN i ELSE leastParent(S, f[n - 1])
    <3> SUFFICES ASSUME NEW n \in 0 .. M PROVE f[n] = IF n = 0 THEN i ELSE leastParent(S, f[n - 1])
      OBVIOUS
    <3>1. CASE n = 0
      BY <1>4, <3>1 DEF Unfolds
    <3>2. CASE n # 0
      <4>1. n \in 1 .. M /\ n - 1 \in 0 .. M
        BY <1>1, <3>2
      <4>2. f[n - 1] \in U
        BY <2>1, <4>1
      <4>3. <<n, f[n - 1]>> \in (1 .. M) \X U
        BY <4>1, <4>2
      <4>4. G[<<n, f[n - 1]>>] = leastParent(S, f[n - 1])
        BY <4>3 DEF G
      <4>5. f[n] = G[<<n, f[n - 1]>>]
        BY <1>4, <4>1 DEF Unfolds
      <4> QED
        BY <3>2, <4>4, <4>5
    <3> QED
      BY <3>1, <3>2
  <2> QED
    BY <2>1, <2>2
<1> DEFINE c == chainOf(S, i)
<1>6. Is(c)
  <2> HIDE DEF Is
  <2> QED
    BY <1>3, <1>5
<1> HIDE DEF c
<1>7. c[0] = i
  <2>1. 0 \in 0 .. M
    BY <1>1
  <2> QED
    BY <1>6, <2>1
<1>8. \A k \in 1 .. M : c[k] = leastParent(S, c[k - 1])
  <2> SUFFICES ASSUME NEW k \in 1 .. M PROVE c[k] = leastParent(S, c[k - 1])
    OBVIOUS
  <2>1. k \in 0 .. M /\ k # 0
    BY <1>1
  <2> QED
    BY <1>6, <2>1
<1>9. \A k \in 0 .. M : c[k] \in U
  <2> DEFINE Out == {k \in 0 .. M : c[k] \notin U}
  <2> SUFFICES ASSUME Out # {} PROVE FALSE
    OBVIOUS
  <2>1. Out \in SUBSET Nat
    BY <1>1
  <2>2. PICK k \in Out : \A l \in Out : k <= l
    BY <2>1, LeastOf
  <2>3. k \in 0 .. M /\ c[k] \notin U /\ k # 0
    BY <1>7
  <2>4. k - 1 \in 0 .. M /\ k \in 1 .. M /\ ~(k <= k - 1)
    BY <1>1, <2>3
  <2>5. c[k - 1] \in U
    BY <2>2, <2>4
  <2> QED
    BY <1>8, <2>3, <2>4, <2>5
<1> QED
  BY <1>7, <1>8, <1>9 DEF c, M

-----------------------------------------------------------------------------
(* Members of cycles *)
\* From the a-th to the b-th c climbs from child to parent, and comes to no parent twice.
climbs(S, c, a, b) ==
    /\ a \in Nat /\ b \in Nat /\ a <= b
    /\ \A k \in a .. b : c[k] \in S
    /\ \A k \in a + 1 .. b : c[k] \in parents[c[k - 1]]
    /\ \A k, l \in a + 1 .. b : c[k] = c[l] => k = l

\* A chain of parents, read downwards, is a path.
LEMMA ChainIsPath ==
    ASSUME NEW S \in SUBSET TreeId, NEW c, NEW a, NEW b, climbs(S, c, a, b)
    PROVE  \E p : isPath(S, {c[b]}, p) /\ Len(p) = b - a + 1 /\ Last(p) = c[a]
<1> DEFINE n == b - a + 1
           p == [k \in 1 .. n |-> c[b - k + 1]]
<1>1. n \in Nat /\ 1 <= n /\ b - n + 1 = a /\ a \in Nat /\ b \in Nat /\ a <= b
  BY DEF climbs
<1>2. \A k \in 1 .. n : b - k + 1 \in a .. b
  BY <1>1
<1>3. p \in Paths /\ Len(p) = n /\ \A k \in 1 .. n : p[k] = c[b - k + 1]
  <2>1. \A k \in 1 .. n : c[b - k + 1] \in TreeId
    BY <1>2 DEF climbs
  <2> HIDE DEF n
  <2>2. p \in Paths /\ Len(p) = n
    <3>1. p \in [1 .. n -> TreeId] /\ n \in Nat
      BY <1>1, <2>1
    <3>2. p \in Seq(TreeId) /\ Len(p) = n
      BY <3>1
    <3> QED
      BY <3>2 DEF Paths
  <2> QED
    BY <2>2
<1>4. p[1] = c[b]
  <2>1. 1 \in 1 .. n /\ b - 1 + 1 = b
    BY <1>1
  <2> QED
    BY <1>3, <2>1
<1>5. Last(p) = c[a]
  <2>1. n \in 1 .. n
    BY <1>1
  <2> HIDE DEF n, p
  <2> QED
    BY <1>1, <1>3, <2>1 DEF Last
<1>6. \A k \in 1 .. n - 1 : p[k + 1] \in childrenOf(S, p[k])
  <2> SUFFICES ASSUME NEW k \in 1 .. n - 1 PROVE p[k + 1] \in childrenOf(S, p[k])
    OBVIOUS
  <2>1. k \in 1 .. n /\ k + 1 \in 1 .. n /\ b - (k + 1) + 1 = b - k /\ b - k + 1 \in a + 1 .. b /\ b - k \in a .. b
        /\ (b - k + 1) - 1 = b - k
    BY <1>1
  <2> HIDE DEF n, p
  <2>2. p[k + 1] = c[b - k] /\ p[k] = c[b - k + 1]
    BY <1>3, <2>1
  <2>3. c[b - k + 1] \in parents[c[(b - k + 1) - 1]] /\ c[b - k] \in S
    BY <2>1 DEF climbs
  <2> QED
    BY <2>1, <2>2, <2>3 DEF childrenOf
<1>7. \A k, l \in 1 .. n - 1 : p[k] = p[l] => k = l
  <2> SUFFICES ASSUME NEW k \in 1 .. n - 1, NEW l \in 1 .. n - 1, p[k] = p[l] PROVE k = l
    OBVIOUS
  <2>1. k \in 1 .. n /\ l \in 1 .. n /\ b - k + 1 \in a + 1 .. b /\ b - l + 1 \in a + 1 .. b
    BY <1>1
  <2>2. c[b - k + 1] = c[b - l + 1]
    BY <1>3, <2>1
  <2>3. b - k + 1 = b - l + 1
    BY <2>1, <2>2 DEF climbs
  <2> QED
    BY <1>1, <2>1, <2>3
<1> HIDE DEF n, p
<1>8. isPath(S, {c[b]}, p)
  BY <1>1, <1>3, <1>4, <1>6, <1>7 DEF isPath
<1> QED
  BY <1>3, <1>5, <1>8 DEF n

\* What no root reaches hangs below an issue that is its own descendant, which cycleMember finds.
LEMMA CycleMemberIs ==
    ASSUME NEW S \in SUBSET TreeId, NEW roots \in SUBSET S, naturalRoots(S) \subseteq roots,
           NEW i \in S \ represented(S, roots)
    PROVE  /\ cycleMember(S, i) \in S /\ cycleMember(S, i) \in Above(S, cycleMember(S, i))
           /\ \E p : isPath(S, {cycleMember(S, i)}, p) /\ Last(p) = i
<1> DEFINE U == S \ represented(S, roots)
           M == MaxTreeId
           c == chainOf(S, i)
           closes(n) == c[n] \in {c[m] : m \in 0 .. n - 1}
           First(n) == closes(n) /\ \A m \in 1 .. n - 1 : ~closes(m)
<1>1. M \in Nat /\ M # 0
  BY Numbered
<1>2. \A x \in U : leastParent(S, x) \in U /\ leastParent(S, x) \in parents[x]
  BY UnreachedHaveParents
<1>3. c[0] = i /\ (\A k \in 1 .. M : c[k] = leastParent(S, c[k - 1])) /\ \A k \in 0 .. M : c[k] \in U
  <2> HIDE DEF U, c, M
  <2>1. i \in U
    BY DEF U
  <2>2. chainOf(S, i)[0] = i
    BY <1>2, <2>1, ChainUnfolds
  <2>3. \A k \in 1 .. M : chainOf(S, i)[k] = leastParent(S, chainOf(S, i)[k - 1])
    BY <1>2, <2>1, ChainUnfolds DEF M
  <2>4. \A k \in 0 .. M : chainOf(S, i)[k] \in U
    BY <1>2, <2>1, ChainUnfolds DEF M
  <2> QED
    BY <2>2, <2>3, <2>4 DEF c
<1>4. cycleMember(S, i) = c[CHOOSE n \in 1 .. M : First(n)]
  BY DEF cycleMember
<1> HIDE DEF c
<1>5. \A k \in 1 .. M : c[k] \in parents[c[k - 1]]
  <2> SUFFICES ASSUME NEW k \in 1 .. M PROVE c[k] \in parents[c[k - 1]]
    OBVIOUS
  <2>1. k - 1 \in 0 .. M
    BY <1>1
  <2> QED
    BY <1>2, <1>3, <2>1
<1>6. \E n \in 1 .. M : closes(n)
  <2> DEFINE f == [k \in 0 .. M |-> c[k]]
  <2>1. f \in [0 .. M -> TreeId]
    BY <1>3
  <2>2. IsFiniteSet(0 .. M) /\ Cardinality(0 .. M) = M + 1
    BY <1>1, FS_Interval
  <2>3. IsFiniteSet(TreeId) /\ Cardinality(TreeId) = M
    <3>1. IsFiniteSet(1 .. M) /\ Cardinality(1 .. M) = IF 1 > M THEN 0 ELSE M - 1 + 1
      BY <1>1, FS_Interval
    <3> QED
      BY <1>1, <3>1 DEF TreeId
  <2>4. Cardinality(TreeId) < Cardinality(0 .. M)
    BY <1>1, <2>2, <2>3
  <2> HIDE DEF f
  <2>5. \E x, y \in 0 .. M : x # y /\ f[x] = f[y]
    BY <2>1, <2>2, <2>3, <2>4, FS_PigeonHole
  <2>6. PICK x \in 0 .. M, y \in 0 .. M : x # y /\ c[x] = c[y]
    BY <2>5 DEF f
  <2>7. CASE x < y
    <3>1. y \in 1 .. M /\ x \in 0 .. y - 1
      BY <1>1, <2>7
    <3> QED
      BY <2>6, <3>1
  <2>8. CASE y < x
    <3>1. x \in 1 .. M /\ y \in 0 .. x - 1
      BY <1>1, <2>8
    <3> QED
      BY <2>6, <3>1
  <2> QED
    BY <1>1, <2>6, <2>7, <2>8
<1>7. \E n \in 1 .. M : First(n)
  <2> DEFINE I == {n \in 1 .. M : closes(n)}
  <2>1. I \in SUBSET Nat /\ I # {}
    BY <1>6
  <2>2. PICK n \in I : \A m \in I : n <= m
    BY <2>1, LeastOf
  <2>3. n \in 1 .. M /\ closes(n)
    OBVIOUS
  <2> HIDE DEF closes
  <2>4. \A m \in 1 .. n - 1 : ~closes(m)
    <3> SUFFICES ASSUME NEW m \in 1 .. n - 1, closes(m) PROVE FALSE
      OBVIOUS
    <3>1. m \in 1 .. M /\ ~(n <= m)
      BY <1>1, <2>3
    <3> QED
      BY <2>2, <3>1
  <2> QED
    BY <2>3, <2>4
<1> DEFINE n == CHOOSE n \in 1 .. M : First(n)
<1>8. n \in 1 .. M /\ First(n)
  <2> HIDE DEF First
  <2> QED
    BY <1>7
<1> HIDE DEF n
<1>9. PICK m \in 0 .. n - 1 : c[m] = c[n]
  BY <1>8
<1>10. m \in Nat /\ n \in Nat /\ m < n /\ n <= M
  BY <1>1, <1>8
<1>11. \A k, l \in 0 .. n - 1 : c[k] = c[l] => k = l
  <2>1. ASSUME NEW k \in 0 .. n - 1, NEW l \in 0 .. n - 1, k < l PROVE c[k] # c[l]
    <3>1. l \in 1 .. n - 1 /\ k \in 0 .. l - 1
      BY <1>10, <2>1
    <3> QED
      BY <1>8, <3>1
  <2> SUFFICES ASSUME NEW k \in 0 .. n - 1, NEW l \in 0 .. n - 1, k # l PROVE c[k] # c[l]
    OBVIOUS
  <2>2. k < l \/ l < k
    BY <1>10
  <2> QED
    BY <2>1, <2>2
<1> HIDE DEF closes, M
<1>12. \A k \in 0 .. n : c[k] \in S
  <2> SUFFICES ASSUME NEW k \in 0 .. n PROVE c[k] \in S
    OBVIOUS
  <2>1. k \in 0 .. M
    BY <1>1, <1>10
  <2> QED
    BY <1>3, <2>1
<1>13. \A k \in 1 .. n : c[k] \in parents[c[k - 1]]
  <2> SUFFICES ASSUME NEW k \in 1 .. n PROVE c[k] \in parents[c[k - 1]]
    OBVIOUS
  <2>1. k \in 1 .. M
    BY <1>1, <1>10
  <2> QED
    BY <1>5, <2>1
<1>14. \E p : isPath(S, {c[n]}, p) /\ Len(p) = n - m + 1 /\ Last(p) = c[m]
  <2>1. \A k \in m .. n : c[k] \in S
    BY <1>10, <1>12
  <2>2. \A k \in m + 1 .. n : c[k] \in parents[c[k - 1]]
    BY <1>10, <1>13
  <2>3. \A k, l \in m + 1 .. n : c[k] = c[l] => k = l
    <3> SUFFICES ASSUME NEW k \in m + 1 .. n, NEW l \in m + 1 .. n, c[k] = c[l] PROVE k = l
      OBVIOUS
    <3>1. CASE k # n /\ l # n
      <4>1. k \in 0 .. n - 1 /\ l \in 0 .. n - 1
        BY <1>10, <3>1
      <4> QED
        BY <1>11, <4>1
    <3>2. CASE k = n /\ l # n
      <4>1. l \in 0 .. n - 1 /\ l # m
        BY <1>10, <3>2
      <4>2. c[l] = c[m]
        BY <1>9, <3>2
      <4> QED
        BY <1>9, <1>11, <4>1, <4>2
    <3>3. CASE k # n /\ l = n
      <4>1. k \in 0 .. n - 1 /\ k # m
        BY <1>10, <3>3
      <4>2. c[k] = c[m]
        BY <1>9, <3>3
      <4> QED
        BY <1>9, <1>11, <4>1, <4>2
    <3> QED
      BY <3>1, <3>2, <3>3
  <2>4. climbs(S, c, m, n)
    BY <1>10, <2>1, <2>2, <2>3 DEF climbs
  <2> QED
    BY <2>4, ChainIsPath
<1>15. \E p : isPath(S, {c[m]}, p) /\ Last(p) = c[0]
  <2>1. \A k \in 0 .. m : c[k] \in S
    BY <1>10, <1>12
  <2>2. \A k \in 0 + 1 .. m : c[k] \in parents[c[k - 1]]
    BY <1>10, <1>13
  <2>3. \A k, l \in 0 + 1 .. m : c[k] = c[l] => k = l
    BY <1>10, <1>11
  <2>4. climbs(S, c, 0, m)
    BY <1>10, <2>1, <2>2, <2>3 DEF climbs
  <2>5. \E p : isPath(S, {c[m]}, p) /\ Len(p) = m - 0 + 1 /\ Last(p) = c[0]
    BY <2>4, ChainIsPath
  <2> QED
    BY <2>5
<1>16. cycleMember(S, i) = c[n] /\ c[n] \in S
  <2>1. n \in 0 .. n
    BY <1>10
  <2> QED
    BY <1>4, <1>12, <2>1 DEF n
<1>17. c[n] \in Above(S, c[n])
  <2>1. PICK p : isPath(S, {c[n]}, p) /\ Len(p) = n - m + 1 /\ Last(p) = c[n]
    BY <1>9, <1>14
  <2>2. p \in buildNode(S, {c[n]})
    BY <1>16, <2>1, NodesArePaths
  <2>3. Len(p) > 1
    BY <1>10, <2>1
  <2> QED
    BY <1>16, <2>1, <2>2, <2>3 DEF Above
<1> QED
  BY <1>3, <1>9, <1>15, <1>16, <1>17

-----------------------------------------------------------------------------
(* The roots *)
\* The roots after another step.
nextRoots(S, n, built) ==
    IF n \in naturalRoots(S) THEN Append(built, n)
    ELSE IF n - MaxTreeId \in S \ represented(S, ToSet(built)) THEN Append(built, cycleMember(S, n - MaxTreeId))
    ELSE built

\* The roots are found one by one.
LEMMA RootsUnfold ==
    ASSUME NEW S \in SUBSET TreeId
    PROVE  /\ rootsUpTo(S)[0] = <<>>
           /\ \A n \in 1 .. 2 * MaxTreeId : rootsUpTo(S)[n] = nextRoots(S, n, rootsUpTo(S)[n - 1])
<1> DEFINE M == 2 * MaxTreeId
           W == S \cup {cycleMember(S, j) : j \in S}
           A == Seq(W)
           first == <<>>
           G == [x \in (1 .. M) \X A |-> nextRoots(S, x[1], x[2])]
           Is(roots) == roots = [n \in 0 .. M |-> IF n = 0 THEN <<>> ELSE nextRoots(S, n, roots[n - 1])]
<1>1. M \in Nat
  BY Numbered
<1>2. \A n \in 1 .. M, built \in A : nextRoots(S, n, built) \in A
  <2> SUFFICES ASSUME NEW n \in 1 .. M, NEW built \in A PROVE nextRoots(S, n, built) \in A
    OBVIOUS
  <2>1. n \in naturalRoots(S) => n \in W
    BY DEF naturalRoots
  <2>2. n - MaxTreeId \in S => cycleMember(S, n - MaxTreeId) \in W
    OBVIOUS
  <2> HIDE DEF W
  <2>3. \A x \in W : Append(built, x) \in A
    OBVIOUS
  <2> HIDE DEF A
  <2> QED
    BY <2>1, <2>2, <2>3 DEF nextRoots
<1>3. rootsUpTo(S) = CHOOSE roots : Is(roots)
  BY DEF rootsUpTo, nextRoots
<1>4. first \in A
  OBVIOUS
<1> HIDE DEF A, M, first
<1>5. G \in [(1 .. M) \X A -> A]
  BY <1>2
<1> HIDE DEF G
<1>6. PICK f : Unfolds(f, M, A, first, G)
  BY <1>1, <1>4, <1>5, Recursion
<1>7. Is(f)
  <2>1. f \in [0 .. M -> A]
    BY <1>6 DEF Unfolds
  <2>2. \A n \in 0 .. M : f[n] = IF n = 0 THEN <<>> ELSE nextRoots(S, n, f[n - 1])
    <3> SUFFICES ASSUME NEW n \in 0 .. M PROVE f[n] = IF n = 0 THEN <<>> ELSE nextRoots(S, n, f[n - 1])
      OBVIOUS
    <3>1. CASE n = 0
      BY <1>6, <3>1 DEF Unfolds, first
    <3>2. CASE n # 0
      <4>1. n \in 1 .. M /\ n - 1 \in 0 .. M
        BY <1>1, <3>2
      <4>2. f[n - 1] \in A
        BY <2>1, <4>1
      <4>3. <<n, f[n - 1]>> \in (1 .. M) \X A
        BY <4>1, <4>2
      <4>4. G[<<n, f[n - 1]>>] = nextRoots(S, n, f[n - 1])
        BY <4>3 DEF G
      <4>5. f[n] = G[<<n, f[n - 1]>>]
        BY <1>6, <4>1 DEF Unfolds
      <4> QED
        BY <3>2, <4>4, <4>5
    <3> QED
      BY <3>1, <3>2
  <2> QED
    BY <2>1, <2>2
<1> DEFINE r == rootsUpTo(S)
<1>8. Is(r)
  <2> HIDE DEF Is
  <2> QED
    BY <1>3, <1>7
<1> HIDE DEF r
<1>9. r[0] = <<>>
  <2>1. 0 \in 0 .. M
    BY <1>1
  <2> QED
    BY <1>8, <2>1
<1>10. \A n \in 1 .. M : r[n] = nextRoots(S, n, r[n - 1])
  <2> SUFFICES ASSUME NEW n \in 1 .. M PROVE r[n] = nextRoots(S, n, r[n - 1])
    OBVIOUS
  <2>1. n \in 0 .. M /\ n # 0
    BY <1>1
  <2> QED
    BY <1>8, <2>1
<1> QED
  BY <1>9, <1>10 DEF r, M

\* What the roots found up to n are.
RootsSoFar(S, n) ==
    LET built == rootsUpTo(S)[n] IN
    /\ built \in Seq(S)
    /\ \A i \in naturalRoots(S) : i <= n => i \in ToSet(built)
    /\ \A i \in ToSet(built) : i \in naturalRoots(S) \/ i \in Above(S, i)
    /\ \A i \in S : i <= n - MaxTreeId => i \in represented(S, ToSet(built))

\* Appending adds one to the set of a sequence.
LEMMA AppendedSet ==
    ASSUME NEW S, NEW s \in Seq(S), NEW x \in S
    PROVE  Append(s, x) \in Seq(S) /\ ToSet(Append(s, x)) = ToSet(s) \cup {x} /\ ToSet(s) \in SUBSET S
<1> DEFINE t == Append(s, x)
<1>1. /\ Len(s) \in Nat /\ DOMAIN s = 1 .. Len(s) /\ \A k \in 1 .. Len(s) : s[k] \in S
      /\ t \in Seq(S) /\ Len(t) = Len(s) + 1 /\ DOMAIN t = 1 .. Len(s) + 1
      /\ (\A k \in 1 .. Len(s) : t[k] = s[k]) /\ t[Len(s) + 1] = x
  OBVIOUS
<1> HIDE DEF t
<1>2. ToSet(t) \subseteq ToSet(s) \cup {x}
  BY <1>1 DEF ToSet
<1>3. ToSet(s) \subseteq ToSet(t)
  <2> SUFFICES ASSUME NEW k \in 1 .. Len(s) PROVE s[k] \in ToSet(t)
    BY <1>1 DEF ToSet
  <2>1. k \in 1 .. Len(s) + 1 /\ t[k] = s[k]
    BY <1>1
  <2> QED
    BY <1>1, <2>1 DEF ToSet
<1>4. x \in ToSet(t)
  <2>1. Len(s) + 1 \in 1 .. Len(s) + 1
    BY <1>1
  <2> QED
    BY <1>1, <2>1 DEF ToSet
<1>5. ToSet(s) \in SUBSET S
  BY <1>1 DEF ToSet
<1> QED
  BY <1>1, <1>2, <1>3, <1>4, <1>5 DEF t

\* Each step keeps what the roots so far are.
LEMMA RootsStep ==
    ASSUME NEW S \in SUBSET TreeId, NEW n \in 1 .. 2 * MaxTreeId, RootsSoFar(S, n - 1)
    PROVE  RootsSoFar(S, n)
<1> DEFINE M == MaxTreeId
           old == rootsUpTo(S)[n - 1]
           new == rootsUpTo(S)[n]
<1>1. M \in Nat /\ n \in Nat /\ \A i \in S : i \in Nat /\ 1 <= i /\ i <= M
  BY Numbered DEF TreeId
<1>2. new = nextRoots(S, n, old)
  BY RootsUnfold
<1>3. /\ old \in Seq(S)
      /\ \A i \in naturalRoots(S) : i <= n - 1 => i \in ToSet(old)
      /\ \A i \in ToSet(old) : i \in naturalRoots(S) \/ i \in Above(S, i)
      /\ \A i \in S : i <= n - 1 - M => i \in represented(S, ToSet(old))
  BY DEF RootsSoFar
<1>4. SUFFICES /\ new \in Seq(S)
               /\ \A i \in naturalRoots(S) : i <= n => i \in ToSet(new)
               /\ \A i \in ToSet(new) : i \in naturalRoots(S) \/ i \in Above(S, i)
               /\ \A i \in S : i <= n - M => i \in represented(S, ToSet(new))
  BY <1>4 DEF RootsSoFar
<1> HIDE DEF old, new, M
<1>5. naturalRoots(S) \subseteq S
  BY DEF naturalRoots
<1>6. CASE n \in naturalRoots(S)
  <2>1. new = Append(old, n) /\ n \in S
    BY <1>2, <1>5, <1>6 DEF nextRoots
  <2>2. new \in Seq(S) /\ ToSet(new) = ToSet(old) \cup {n}
    BY <1>3, <2>1, AppendedSet
  <2>3. \A i \in naturalRoots(S) : i <= n => i \in ToSet(new)
    <3> SUFFICES ASSUME NEW i \in naturalRoots(S), i <= n, i # n PROVE i \in ToSet(old)
      BY <2>2
    <3>1. i <= n - 1
      BY <1>1, <1>5
    <3> QED
      BY <1>3, <3>1
  <2>4. \A i \in S : ~(i <= n - M)
    BY <1>1, <2>1
  <2> QED
    BY <1>3, <1>6, <2>2, <2>3, <2>4
<1>7. CASE n \notin naturalRoots(S) /\ n - M \in S \ represented(S, ToSet(old))
  <2> DEFINE i0 == n - M
             x == cycleMember(S, i0)
  <2>1. new = Append(old, x) /\ i0 \in S \ represented(S, ToSet(old))
    BY <1>2, <1>7 DEF nextRoots, M
  <2>2. ToSet(old) \in SUBSET S
    <3>1. DOMAIN old = 1 .. Len(old) /\ \A k \in 1 .. Len(old) : old[k] \in S
      BY <1>3
    <3> QED
      BY <3>1 DEF ToSet
  <2>3. naturalRoots(S) \subseteq ToSet(old)
    <3> SUFFICES ASSUME NEW i \in naturalRoots(S) PROVE i \in ToSet(old)
      OBVIOUS
    <3>1. n - M \in S
      BY <1>7
    <3>2. i <= M /\ i \in Nat /\ 1 <= n - M
      BY <1>1, <1>5, <3>1
    <3>3. i <= n - 1
      BY <1>1, <3>2
    <3> QED
      BY <1>3, <3>3
  <2> HIDE DEF i0, x
  <2>4. x \in S /\ x \in Above(S, x) /\ \E p : isPath(S, {x}, p) /\ Last(p) = i0
    BY <2>1, <2>2, <2>3, CycleMemberIs DEF x
  <2>5. new \in Seq(S) /\ ToSet(new) = ToSet(old) \cup {x}
    BY <1>3, <2>1, <2>4, AppendedSet
  <2>6. ToSet(old) \in SUBSET TreeId /\ ToSet(new) \in SUBSET TreeId
    BY <2>2, <2>4, <2>5
  <2>7. i0 \in represented(S, ToSet(new))
    <3>1. PICK p : isPath(S, {x}, p) /\ Last(p) = i0
      BY <2>4
    <3>2. isPath(S, ToSet(new), p)
      BY <2>5, <3>1 DEF isPath
    <3> QED
      BY <2>6, <3>1, <3>2, PathRepresents
  <2>8. \A i \in S : i <= n - M => i \in represented(S, ToSet(new))
    <3> SUFFICES ASSUME NEW i \in S, i <= n - M PROVE i \in represented(S, ToSet(new))
      OBVIOUS
    <3>1. CASE i = n - M
      BY <2>7, <3>1 DEF i0
    <3>2. CASE i # n - M
      <4>1. i <= n - 1 - M
        BY <1>1, <3>2
      <4>2. i \in represented(S, ToSet(old))
        BY <1>3, <4>1
      <4> QED
        BY <2>5, <2>6, <4>2, RepresentedGrows
    <3> QED
      BY <3>1, <3>2
  <2>9. \A i \in naturalRoots(S) : i \in ToSet(new)
    BY <2>3, <2>5
  <2> QED
    BY <1>3, <2>4, <2>5, <2>8, <2>9
<1>8. CASE n \notin naturalRoots(S) /\ ~(n - M \in S \ represented(S, ToSet(old)))
  <2>1. new = old
    BY <1>2, <1>8 DEF nextRoots, M
  <2>2. \A i \in naturalRoots(S) : i <= n => i \in ToSet(new)
    <3> SUFFICES ASSUME NEW i \in naturalRoots(S), i <= n PROVE i \in ToSet(old)
      BY <2>1
    <3>1. i <= n - 1
      BY <1>1, <1>5, <1>8
    <3> QED
      BY <1>3, <3>1
  <2>3. \A i \in S : i <= n - M => i \in represented(S, ToSet(new))
    <3> SUFFICES ASSUME NEW i \in S, i <= n - M PROVE i \in represented(S, ToSet(old))
      BY <2>1
    <3>1. CASE i = n - M
      BY <1>8, <3>1
    <3>2. CASE i # n - M
      <4>1. i <= n - 1 - M
        BY <1>1, <3>2
      <4> QED
        BY <1>3, <4>1
    <3> QED
      BY <3>1, <3>2
  <2> QED
    BY <1>3, <2>1, <2>2, <2>3
<1> QED
  BY <1>6, <1>7, <1>8

\* The roots reach every issue, those without a parent are among them, and the others are
\* members of cycles.
LEMMA RootsAre ==
    ASSUME NEW S \in SUBSET TreeId
    PROVE  /\ builtRoots(S) \in Seq(S) /\ ToSet(builtRoots(S)) \in SUBSET S
           /\ \A i \in ToSet(builtRoots(S)) : i \in naturalRoots(S) \/ i \in Above(S, i)
           /\ represented(S, ToSet(builtRoots(S))) = S
<1> DEFINE M == 2 * MaxTreeId
           Wrong == {n \in 0 .. M : ~RootsSoFar(S, n)}
<1>1. M \in Nat /\ MaxTreeId \in Nat /\ \A i \in S : i \in Nat /\ 1 <= i /\ i <= MaxTreeId
  BY Numbered DEF TreeId
<1>2. RootsSoFar(S, 0)
  <2>1. rootsUpTo(S)[0] = <<>>
    BY RootsUnfold
  <2>2. ToSet(<<>>) = {} /\ <<>> \in Seq(S)
    BY DEF ToSet
  <2>3. \A i \in S : ~(i <= 0) /\ ~(i <= 0 - MaxTreeId)
    BY <1>1
  <2>4. naturalRoots(S) \subseteq S
    BY DEF naturalRoots
  <2> QED
    BY <2>1, <2>2, <2>3, <2>4 DEF RootsSoFar
<1>3. Wrong = {}
  <2> SUFFICES ASSUME Wrong # {} PROVE FALSE
    OBVIOUS
  <2>1. Wrong \in SUBSET Nat
    BY <1>1
  <2>2. PICK n \in Wrong : \A m \in Wrong : n <= m
    BY <2>1, LeastOf
  <2>3. n \in 0 .. M /\ ~RootsSoFar(S, n)
    OBVIOUS
  <2>4. n # 0
    BY <1>2, <2>3
  <2>5. n \in 1 .. M /\ n - 1 \in 0 .. M /\ ~(n <= n - 1)
    BY <1>1, <2>3, <2>4
  <2>6. RootsSoFar(S, n - 1)
    BY <2>2, <2>5
  <2> QED
    BY <2>3, <2>5, <2>6, RootsStep
<1>4. RootsSoFar(S, M)
  <2>1. M \in 0 .. M
    BY <1>1
  <2> QED
    BY <1>3, <2>1
<1> DEFINE r == builtRoots(S)
<1>5. r = rootsUpTo(S)[M]
  BY DEF builtRoots
<1> HIDE DEF r
<1>6. r \in Seq(S) /\ \A i \in ToSet(r) : i \in naturalRoots(S) \/ i \in Above(S, i)
  BY <1>4, <1>5 DEF RootsSoFar
<1>7. ToSet(r) \in SUBSET S
  <2>1. DOMAIN r = 1 .. Len(r) /\ \A k \in 1 .. Len(r) : r[k] \in S
    BY <1>6
  <2> QED
    BY <2>1 DEF ToSet
<1>8. S \subseteq represented(S, ToSet(r))
  <2> SUFFICES ASSUME NEW i \in S PROVE i \in represented(S, ToSet(r))
    OBVIOUS
  <2>1. i <= M - MaxTreeId
    BY <1>1
  <2> QED
    BY <1>4, <1>5, <2>1 DEF RootsSoFar
<1>9. represented(S, ToSet(r)) \subseteq S
  <2> SUFFICES ASSUME NEW i \in represented(S, ToSet(r)) PROVE i \in S
    OBVIOUS
  <2>1. ToSet(r) \in SUBSET TreeId
    BY <1>7
  <2>2. PICK p : isPath(S, ToSet(r), p) /\ Last(p) = i
    BY <2>1, RepresentedUncut
  <2>3. p \in Paths /\ Len(p) # 0
    BY <2>2 DEF isPath
  <2>4. Len(p) \in 1 .. Len(p) /\ Last(p) = p[Len(p)]
    BY <2>3, PathParts
  <2> QED
    BY <1>7, <2>2, <2>4, PathIsOfIssues
<1> QED
  BY <1>6, <1>7, <1>8, <1>9 DEF r

-----------------------------------------------------------------------------
(* The shape of the tree *)
\* The nodes N of the issues S with the node that map has of each: no more than finitely many,
\* with what is above each, and of every issue one that is not cut.
Shaped(S, N, map) ==
    /\ S \in SUBSET TreeId /\ N \in SUBSET Paths /\ IsFiniteSet(N)
    /\ \A p \in N : Len(p) # 0 /\ Last(p) \in S /\ \A k \in 1 .. Len(p) : SubSeq(p, 1, k) \in N
    /\ map \in [S -> N] /\ \A i \in S : Last(map[i]) = i /\ ~isCut(map[i])

\* Only a member of a cycle of parents is a root although it has a parent.
RootsAreCyclic(S, N) ==
    \A p \in N : Len(p) = 1 /\ parents[p[1]] \cap S # {} => p[1] \in Above(S, p[1])

\* The node of an issue is one of it that is not cut.
LEMMA MappedIs ==
    ASSUME NEW S \in SUBSET TreeId
    PROVE  Mapped(S) \in [S -> treeNodes(S)] /\ \A i \in S : Last(Mapped(S)[i]) = i /\ ~isCut(Mapped(S)[i])
<1> DEFINE r == builtRoots(S)
           own(k, i) == {p \in buildNode(S, {r[k]}) : Last(p) = i /\ ~isCut(p)}
           last(i) == CHOOSE k \in DOMAIN r : own(k, i) # {} /\ \A l \in k + 1 .. Len(r) : own(l, i) = {}
<1>1. Mapped(S) = [i \in S |-> lastOf(own(last(i), i))]
  BY DEF Mapped
<1>2. r \in Seq(S) /\ ToSet(r) \in SUBSET TreeId /\ represented(S, ToSet(r)) = S
  BY RootsAre
<1>3. treeNodes(S) = buildNode(S, ToSet(r))
  BY DEF treeNodes
<1> HIDE DEF r
<1>4. DOMAIN r = 1 .. Len(r) /\ Len(r) \in Nat /\ \A k \in 1 .. Len(r) : r[k] \in ToSet(r) /\ r[k] \in TreeId
  BY <1>2 DEF ToSet
<1>5. \A i : \A k \in 1 .. Len(r) : own(k, i) \in SUBSET Paths /\ IsFiniteSet(own(k, i)) /\ own(k, i) \subseteq treeNodes(S)
  <2> SUFFICES ASSUME NEW k \in 1 .. Len(r), NEW i
               PROVE  own(k, i) \in SUBSET Paths /\ IsFiniteSet(own(k, i)) /\ own(k, i) \subseteq treeNodes(S)
    OBVIOUS
  <2>1. {r[k]} \in SUBSET TreeId /\ {r[k]} \subseteq ToSet(r)
    BY <1>4
  <2>2. IsFiniteSet(buildNode(S, {r[k]})) /\ buildNode(S, {r[k]}) \in SUBSET Paths
    BY <2>1, NodesAreFinite
  <2>3. own(k, i) \in SUBSET buildNode(S, {r[k]})
    OBVIOUS
  <2>4. buildNode(S, {r[k]}) \subseteq treeNodes(S)
    <3> SUFFICES ASSUME NEW p \in buildNode(S, {r[k]}) PROVE p \in buildNode(S, ToSet(r))
      BY <1>3
    <3>1. isPath(S, {r[k]}, p)
      BY <2>1, NodesArePaths
    <3>2. isPath(S, ToSet(r), p)
      BY <2>1, <3>1 DEF isPath
    <3> QED
      BY <1>2, <3>2, NodesArePaths
  <2> HIDE DEF own
  <2>5. IsFiniteSet(own(k, i))
    BY <2>2, <2>3, FS_Subset
  <2> QED
    BY <2>2, <2>3, <2>4, <2>5
<1>6. ASSUME NEW i \in S
      PROVE  last(i) \in 1 .. Len(r) /\ own(last(i), i) # {}
  <2> DEFINE I == {k \in 1 .. Len(r) : own(k, i) # {}}
  <2>1. I # {}
    <3>1. PICK p : isPath(S, ToSet(r), p) /\ Last(p) = i /\ ~isCut(p)
      BY <1>2, RepresentedUncut
    <3>2. PICK k \in 1 .. Len(r) : p[1] = r[k]
      BY <1>4, <3>1 DEF isPath, ToSet
    <3>3. isPath(S, {r[k]}, p) /\ {r[k]} \in SUBSET TreeId
      BY <1>4, <3>1, <3>2 DEF isPath
    <3>4. p \in buildNode(S, {r[k]})
      BY <3>3, NodesArePaths
    <3>5. p \in own(k, i)
      BY <3>1, <3>4
    <3>6. k \in I
      BY <3>5
    <3> QED
      BY <3>6
  <2>2. I \in SUBSET (0 .. Len(r))
    BY <1>4
  <2>3. PICK k \in I : \A l \in I : l <= k
    <3> HIDE DEF I
    <3> QED
      BY <1>4, <2>1, <2>2, GreatestOf
  <2>4. k \in 1 .. Len(r) /\ own(k, i) # {}
    BY <2>3
  <2> HIDE DEF own
  <2>5. \A l \in k + 1 .. Len(r) : own(l, i) = {}
    <3> SUFFICES ASSUME NEW l \in k + 1 .. Len(r), own(l, i) # {} PROVE FALSE
      OBVIOUS
    <3>1. l \in 1 .. Len(r) /\ ~(l <= k)
      BY <1>4, <2>4
    <3> QED
      BY <2>3, <3>1
  <2>6. \E j \in DOMAIN r : own(j, i) # {} /\ \A l \in j + 1 .. Len(r) : own(l, i) = {}
    BY <1>4, <2>4, <2>5
  <2>7. last(i) \in DOMAIN r /\ own(last(i), i) # {}
    BY <2>6
  <2> QED
    BY <1>4, <2>7
<1>7. ASSUME NEW i \in S
      PROVE  lastOf(own(last(i), i)) \in own(last(i), i) /\ own(last(i), i) \subseteq treeNodes(S)
  <2> HIDE DEF own, last
  <2> QED
    BY <1>5, <1>6, <1>7, LastIsIn
<1>8. \A k, i : \A p \in own(k, i) : Last(p) = i /\ ~isCut(p)
  OBVIOUS
<1> HIDE DEF own, last
<1> QED
  BY <1>1, <1>7, <1>8

\* The tree that is built of any issues has the shape that the rest of the code counts on.
LEMMA BuiltIsShaped ==
    ASSUME NEW S \in SUBSET TreeId
    PROVE  Shaped(S, treeNodes(S), Mapped(S)) /\ RootsAreCyclic(S, treeNodes(S))
<1> DEFINE R == ToSet(builtRoots(S))
           N == treeNodes(S)
<1>1. R \in SUBSET S /\ R \in SUBSET TreeId /\ represented(S, R) = S
  BY RootsAre
<1>2. N = buildNode(S, R)
  BY DEF treeNodes
<1>3. N \in SUBSET Paths /\ IsFiniteSet(N) /\ \A p : p \in N <=> isPath(S, R, p)
  BY <1>1, <1>2, NodesAreFinite, NodesArePaths
<1>4. \A p \in N : Len(p) # 0 /\ Last(p) \in S /\ \A k \in 1 .. Len(p) : SubSeq(p, 1, k) \in N
  <2> HIDE DEF N, R
  <2> SUFFICES ASSUME NEW p \in N
               PROVE  Len(p) # 0 /\ Last(p) \in S /\ \A k \in 1 .. Len(p) : SubSeq(p, 1, k) \in N
    OBVIOUS
  <2>1. isPath(S, R, p)
    BY <1>3
  <2>2. Len(p) # 0
    BY <2>1 DEF isPath
  <2>3. Last(p) \in S
    BY <1>1, <2>1, PathRepresents
  <2>4. \A k \in 1 .. Len(p) : SubSeq(p, 1, k) \in N
    BY <1>3, <2>1, PrefixIsPath
  <2> QED
    BY <2>2, <2>3, <2>4
<1>5. RootsAreCyclic(S, N)
  <2> SUFFICES ASSUME NEW p \in N, Len(p) = 1, parents[p[1]] \cap S # {} PROVE p[1] \in Above(S, p[1])
    BY DEF RootsAreCyclic
  <2>1. p[1] \in R
    BY <1>3 DEF isPath
  <2>2. p[1] \notin naturalRoots(S)
    BY DEF naturalRoots
  <2> QED
    BY <2>1, <2>2, RootsAre
<1> QED
  BY <1>3, <1>4, <1>5, MappedIs DEF Shaped

\* Without issues the tree is empty.
LEMMA EmptyTree == treeNodes({}) = {}
<1>1. \A p \in treeNodes({}) : Last(p) \in {}
  BY BuiltIsShaped DEF Shaped
<1> QED
  BY <1>1

-----------------------------------------------------------------------------
(* The list and the window *)
\* The nodes all whose ancestors are open.
visible(N, opened) == {p \in N : \A k \in 1 .. Len(p) - 1 : SubSeq(p, 1, k) \in opened}

\* The flat list has the visible nodes.
LEMMA FlatIs ==
    ASSUME NEW N \in SUBSET Paths, IsFiniteSet(N), NEW opened
    PROVE  LET flat == flatList(N, opened) IN
           /\ Len(flat) \in Nat /\ DOMAIN flat = 1 .. Len(flat) /\ (flat = <<>> <=> Len(flat) = 0)
           /\ \A k \in 1 .. Len(flat) : flat[k] \in visible(N, opened)
           /\ \A p \in visible(N, opened) : \E k \in 1 .. Len(flat) : flat[k] = p
<1> DEFINE V == visible(N, opened)
           flat == flatList(N, opened)
<1>1. flat = DepthFirst(V)
  BY DEF flatList, visible
<1>2. V \in SUBSET N
  BY DEF visible
<1> HIDE DEF V, flat
<1>3. V \in SUBSET Paths /\ IsFiniteSet(V)
  BY <1>2, FS_Subset
<1>4. /\ Len(flat) \in Nat /\ DOMAIN flat = 1 .. Len(flat) /\ flat \in Seq(V)
      /\ \A k \in 1 .. Len(flat) : flat[k] \in V
      /\ \A p \in V : \E k \in 1 .. Len(flat) : flat[k] = p
  BY <1>1, <1>3, DepthFirstLists
<1>5. flat = <<>> <=> Len(flat) = 0
  BY <1>4
<1> QED
  BY <1>4, <1>5 DEF V, flat

\* A cursor that is clamped is on a line.
LEMMA ClampedIs ==
    ASSUME NEW c \in Nat, NEW flat, Len(flat) \in Nat, flat = <<>> <=> Len(flat) = 0
    PROVE  clamped(c, flat) \in Nat /\ (flat # <<>> => clamped(c, flat) < Len(flat))
BY DEF clamped

\* The window that follows has the cursor, and does not end past the last line unless it
\* begins with the first.
LEMMA WindowIs ==
    ASSUME NEW c \in Nat, NEW flat, Len(flat) \in Nat, flat = <<>> <=> Len(flat) = 0,
           offset \in Nat, height \in Nat, height # 0
    PROVE  /\ ensureCursorVisible(c, flat) \in Nat
           /\ flat # <<>> /\ c < Len(flat) =>
                  ensureCursorVisible(c, flat) <= c /\ c < ensureCursorVisible(c, flat) + height
<1> DEFINE above == IF c < offset THEN c ELSE offset
           low == IF c >= above + height THEN c - height + 1 ELSE above
           most == AtLeast0(Len(flat) - height)
<1>1. above \in Nat /\ above <= c
  OBVIOUS
<1> HIDE DEF above
<1>2. low \in Nat /\ low <= c /\ c < low + height
  BY <1>1
<1>3. most \in Nat /\ Len(flat) <= most + height
  BY DEF AtLeast0
<1>4. ensureCursorVisible(c, flat) = IF flat = <<>> THEN offset ELSE IF low > most THEN most ELSE AtLeast0(low)
  BY DEF ensureCursorVisible, above
<1> HIDE DEF low, most
<1>5. AtLeast0(low) = low
  BY <1>2 DEF AtLeast0
<1> QED
  BY <1>2, <1>3, <1>4, <1>5

\* If there are as many nodes as issues, each is the one of its issue.
LEMMA OneNodeEach ==
    ASSUME NEW S, NEW N, NEW map, Shaped(S, N, map), Cardinality(N) = Cardinality(S)
    PROVE  /\ \A p \in N : Last(p) \in S /\ p = map[Last(p)] /\ ~isCut(p)
           /\ \A p, q \in N : Last(p) = Last(q) => p = q
<1> DEFINE f == [p \in N |-> Last(p)]
<1>1. /\ IsFiniteSet(N) /\ \A p \in N : Last(p) \in S
      /\ \A i \in S : map[i] \in N /\ Last(map[i]) = i /\ ~isCut(map[i])
  BY DEF Shaped
<1>2. f \in [N -> S]
  BY <1>1
<1>3. \A i \in S : \E p \in N : f[p] = i
  BY <1>1
<1>4. f \in Surjection(N, S)
  BY <1>2, <1>3 DEF Surjection
<1> HIDE DEF f
<1>5. f \in Injection(N, S)
  BY <1>1, <1>4, FS_SurjSameCardinalityImpliesInj
<1>6. \A p, q \in N : f[p] = f[q] => p = q
  BY <1>5 DEF Injection, IsInjective
<1>7. \A p, q \in N : Last(p) = Last(q) => p = q
  BY <1>6 DEF f
<1> QED
  BY <1>1, <1>7

-----------------------------------------------------------------------------
(* The invariant *)

\* The tree is empty until it is built, and then has its shape.
TreeIsBuilt ==
    /\ builtOf = NotBuilt => nodes = {}
    /\ builtOf # NotBuilt => Shaped(builtOf, nodes, issueMap) /\ RootsAreCyclic(builtOf, nodes)

\* The cursor is on a visible node, whether the tree is shown or not, and in the window that follows.
CursorKept ==
    Flat # <<>> => cursor < Len(Flat) /\ (follows => offset <= cursor /\ cursor < offset + lines)

TreeInv == TreeTypeOK /\ TreeIsBuilt /\ CursorKept /\ FoldsAreStored

\* No issues are not the same as no tree.
LEMMA BuiltFromIssues == \A S \in SUBSET TreeId : S # NotBuilt
BY Numbered DEF NotBuilt, TreeId

\* The lines of the terminal.
LEMMA LinesAre ==
    ASSUME TreeTypeOK
    PROVE  /\ lines \in Nat /\ height \in Nat /\ height # 0 /\ height <= lines
           /\ lines - 1 \in {lines - 1, lines}
<1>1. lines \in Nat \ {0, 1}
  BY TreeAssumption DEF TreeTypeOK
<1> QED
  BY <1>1 DEF TreeTypeOK

\* What the tree shows.
LEMMA NodesAre ==
    ASSUME TreeTypeOK, TreeIsBuilt
    PROVE  /\ nodes \in SUBSET Paths /\ IsFiniteSet(nodes)
           /\ \A p \in nodes : Len(p) # 0 /\ \A k \in 1 .. Len(p) : SubSeq(p, 1, k) \in nodes
<1>1. CASE builtOf = NotBuilt
  BY <1>1, FS_EmptySet DEF TreeIsBuilt
<1>2. CASE builtOf # NotBuilt
  BY <1>2 DEF TreeIsBuilt, Shaped
<1> QED
  BY <1>1, <1>2

\* The flat list at present.
LEMMA FlatNow ==
    ASSUME TreeTypeOK, TreeIsBuilt
    PROVE  /\ Len(Flat) \in Nat /\ DOMAIN Flat = 1 .. Len(Flat) /\ (Flat = <<>> <=> Len(Flat) = 0)
           /\ \A k \in 1 .. Len(Flat) : Flat[k] \in visible(nodes, expanded)
           /\ \A p \in visible(nodes, expanded) : \E k \in 1 .. Len(Flat) : Flat[k] = p
BY NodesAre, FlatIs DEF Flat

\* The roots stay members of cycles as long as no issue changes its parents.
LEMMA CyclesStay ==
    ASSUME parents' = parents, RootsAreCyclic(builtOf', nodes')
    PROVE  RootsAreCyclic(builtOf, nodes)'
<1>1. \A x : buildNode(builtOf, {x})' = buildNode(builtOf', {x})
  BY DEF buildNode, levels, childrenOf
<1>2. \A x : x \in Above(builtOf', x) => (x \in Above(builtOf, x))'
  <2> SUFFICES ASSUME NEW x, x \in Above(builtOf', x) PROVE (x \in Above(builtOf, x))'
    OBVIOUS
  <2>1. x \in builtOf' /\ \E p \in buildNode(builtOf', {x}) : Len(p) > 1 /\ Last(p) = x
    BY DEF Above
  <2>2. \E p \in buildNode(builtOf, {x})' : Len(p) > 1 /\ Last(p) = x
    BY <1>1, <2>1
  <2> QED
    BY <2>1, <2>2 DEF Above
<1> QED
  BY <1>2 DEF RootsAreCyclic

\* What a step keeps that leaves the tree and the file alone.
LEMMA TreeStays ==
    ASSUME TreeInv, UNCHANGED <<parents, builtOf, nodes, issueMap, expanded, stored>>
    PROVE  TreeIsBuilt' /\ FoldsAreStored' /\ Flat' = Flat /\ nodes' \subseteq Seq(TreeId) /\ expanded' \subseteq nodes'
<1>1. TreeIsBuilt'
  <2>1. CASE builtOf = NotBuilt
    BY <2>1 DEF TreeInv, TreeIsBuilt
  <2>2. CASE builtOf # NotBuilt
    <3>1. Shaped(builtOf, nodes, issueMap) /\ RootsAreCyclic(builtOf, nodes)
      BY <2>2 DEF TreeInv, TreeIsBuilt
    <3>2. RootsAreCyclic(builtOf', nodes')
      BY <3>1 DEF RootsAreCyclic
    <3>3. RootsAreCyclic(builtOf, nodes)'
      BY <3>2, CyclesStay
    <3> QED
      BY <2>2, <3>1, <3>3 DEF TreeIsBuilt
  <2> QED
    BY <2>1, <2>2
<1>2. FoldsAreStored'
  BY DEF TreeInv, FoldsAreStored, loadState
<1>3. Flat' = Flat
  BY DEF Flat
<1> QED
  BY <1>1, <1>2, <1>3 DEF TreeInv, TreeTypeOK

\* Nothing is open, or known by an issue, before the tree is built.
LEMMA InitHolds == TreeInit => TreeInv
<1> SUFFICES ASSUME TreeInit PROVE TreeInv
  OBVIOUS
<1>1. TreeTypeOK
  <2>1. parents \in [TreeId -> SUBSET TreeId] /\ MaxRebuilds \in Nat
    BY TreeAssumption DEF TreeInit, TreeId
  <2>2. stored \in [TreeId -> {"default", "open", "closed"}]
    BY DEF TreeInit
  <2>3. source \in {"snapshot", "without", "issues"} /\ listed \subseteq TreeId
    BY DEF TreeInit
  <2>6. place = "elsewhere" /\ follows \in BOOLEAN
    BY DEF TreeInit
  <2>7. builtOf \in {NotBuilt} \cup SUBSET TreeId
    BY DEF TreeInit
  <2>4. cursor \in Nat /\ offset \in Nat /\ lines \in Heights /\ height \in {lines - 1, lines} /\ rebuilds \in 0 .. MaxRebuilds
    BY <2>1 DEF TreeInit
  <2>5. nodes \subseteq Seq(TreeId) /\ expanded \subseteq nodes
    BY DEF TreeInit
  <2> QED
    BY <2>1, <2>2, <2>3, <2>4, <2>5, <2>6, <2>7 DEF TreeTypeOK
<1>2. TreeIsBuilt
  BY DEF TreeInit, TreeIsBuilt
<1>3. CursorKept
  <2>1. visible(nodes, expanded) = {}
    BY DEF TreeInit, visible
  <2>2. Len(Flat) \in Nat /\ (Flat = <<>> <=> Len(Flat) = 0) /\ \A k \in 1 .. Len(Flat) : Flat[k] \in {}
    BY <1>1, <1>2, <2>1, FlatNow
  <2>3. Flat = <<>>
    BY <2>2
  <2> QED
    BY <2>3 DEF CursorKept
<1>4. FoldsAreStored
  BY DEF TreeInit, FoldsAreStored
<1> QED
  BY <1>1, <1>2, <1>3, <1>4 DEF TreeInv

\* What a key leaves alone.
keyFrame == UNCHANGED <<parents, source, listed, place, builtOf, rebuilds>>

\* A move to a line keeps the cursor in the window.
LEMMA MoveKeeps ==
    ASSUME TreeInv, NEW c \in Nat, Flat # <<>> => c < Len(Flat), Move(c), keyFrame
    PROVE  TreeInv'
<1>1. TreeTypeOK /\ TreeIsBuilt
  BY DEF TreeInv
<1>2. TreeIsBuilt' /\ FoldsAreStored' /\ Flat' = Flat /\ nodes' \subseteq Seq(TreeId) /\ expanded' \subseteq nodes'
  BY TreeStays DEF Move, keyFrame
<1>3. Len(Flat) \in Nat /\ (Flat = <<>> <=> Len(Flat) = 0)
  BY <1>1, FlatNow
<1>4. offset \in Nat /\ height \in Nat /\ height # 0 /\ height <= lines /\ lines \in Nat
  BY <1>1, LinesAre DEF TreeTypeOK
<1>5. /\ cursor' = c /\ offset' \in Nat
      /\ Flat # <<>> => offset' <= c /\ c < offset' + height
  BY <1>3, <1>4, WindowIs DEF Move
<1>6. TreeTypeOK'
  BY <1>1, <1>2, <1>5 DEF TreeTypeOK, Move, keyFrame
<1>7. CursorKept'
  BY <1>2, <1>3, <1>4, <1>5 DEF CursorKept, Move
<1> QED
  BY <1>2, <1>6, <1>7 DEF TreeInv

\* With one node of each issue, the file gives back what is written to it.
LEMMA SavedIsLoaded ==
    ASSUME TreeInv, builtOf # NotBuilt, Cardinality(nodes) = Cardinality(builtOf),
           NEW opened \in SUBSET nodes, stored' = saveState(opened), UNCHANGED <<nodes, issueMap>>
    PROVE  opened = loadState(nodes, issueMap)'
<1> DEFINE S == builtOf
           map == issueMap
           explicit(i) == {p \in nodes : Last(p) = i /\ openByDefault(p) # (p \in opened)}
<1>1. Shaped(S, nodes, map)
  BY DEF TreeInv, TreeIsBuilt
<1>2. /\ S \in SUBSET TreeId /\ DOMAIN map = S
      /\ \A i \in S : map[i] \in nodes /\ Last(map[i]) = i
      /\ \A p \in nodes : Len(p) \in Nat
  BY <1>1, Numbered DEF Shaped
<1>3. \A p \in nodes : Last(p) \in S /\ p = map[Last(p)] /\ ~isCut(p)
  BY <1>1, OneNodeEach
<1>4. \A i \in TreeId : stored'[i] = IF explicit(i) = {} THEN "default"
                                    ELSE IF lastOf(explicit(i)) \in opened THEN "open" ELSE "closed"
  BY DEF saveState
<1>5. \A p \in nodes : p \in opened /\ Len(p) <= 2 => stored'[Last(p)] = "default"
  <2> SUFFICES ASSUME NEW p \in nodes, p \in opened, Len(p) <= 2 PROVE explicit(Last(p)) = {}
    BY <1>2, <1>3, <1>4
  <2> SUFFICES ASSUME NEW q \in nodes, Last(q) = Last(p) PROVE openByDefault(q) = (q \in opened)
    OBVIOUS
  <2>1. q = p
    BY <1>3
  <2> QED
    BY <2>1 DEF openByDefault
<1>6. \A p \in nodes : p \notin opened /\ ~(Len(p) <= 2) => stored'[Last(p)] = "default"
  <2> SUFFICES ASSUME NEW p \in nodes, p \notin opened, ~(Len(p) <= 2) PROVE explicit(Last(p)) = {}
    BY <1>2, <1>3, <1>4
  <2> SUFFICES ASSUME NEW q \in nodes, Last(q) = Last(p) PROVE openByDefault(q) = (q \in opened)
    OBVIOUS
  <2>1. q = p
    BY <1>3
  <2> QED
    BY <2>1 DEF openByDefault
<1>7. \A p \in nodes : openByDefault(p) # (p \in opened) => explicit(Last(p)) = {p}
  <2> SUFFICES ASSUME NEW p \in nodes, openByDefault(p) # (p \in opened) PROVE explicit(Last(p)) = {p}
    OBVIOUS
  <2>1. \A q \in nodes : Last(q) = Last(p) => q = p
    BY <1>3
  <2> QED
    BY <2>1
<1> HIDE DEF explicit
<1>8. \A p \in nodes : p \in opened /\ ~(Len(p) <= 2) => stored'[Last(p)] = "open"
  <2> SUFFICES ASSUME NEW p \in nodes, p \in opened, ~(Len(p) <= 2) PROVE stored'[Last(p)] = "open"
    OBVIOUS
  <2>1. explicit(Last(p)) = {p}
    BY <1>7 DEF openByDefault
  <2>2. lastOf({p}) = p
    BY LastOfOne
  <2> QED
    BY <1>2, <1>3, <1>4, <2>1, <2>2
<1>9. \A p \in nodes : p \notin opened /\ Len(p) <= 2 => stored'[Last(p)] = "closed"
  <2> SUFFICES ASSUME NEW p \in nodes, p \notin opened, Len(p) <= 2 PROVE stored'[Last(p)] = "closed"
    OBVIOUS
  <2>1. explicit(Last(p)) = {p}
    BY <1>7 DEF openByDefault
  <2>2. lastOf({p}) = p
    BY LastOfOne
  <2> QED
    BY <1>2, <1>3, <1>4, <2>1, <2>2
<1> DEFINE applied(what) == {map[i] : i \in {i \in DOMAIN map : stored'[i] = what}}
           byDefault == {p \in nodes : openByDefault(p) /\ ~isCut(p)}
<1>10. loadState(nodes, issueMap)' = (byDefault \ applied("closed")) \cup applied("open")
  BY DEF loadState
<1>11. \A what : applied(what) \subseteq nodes /\ \A p \in nodes : p \in applied(what) <=> stored'[Last(p)] = what
  BY <1>2, <1>3
<1>12. \A p \in nodes : p \in byDefault <=> Len(p) <= 2
  BY <1>3 DEF openByDefault
<1>13. byDefault \subseteq nodes
  OBVIOUS
<1> HIDE DEF applied, byDefault
<1>14. \A p \in nodes : p \in opened <=> (p \in byDefault /\ p \notin applied("closed")) \/ p \in applied("open")
  <2> SUFFICES ASSUME NEW p \in nodes
               PROVE  p \in opened <=> (p \in byDefault /\ p \notin applied("closed")) \/ p \in applied("open")
    OBVIOUS
  <2>1. "default" # "open" /\ "default" # "closed" /\ "open" # "closed"
    OBVIOUS
  <2>2. p \in applied("open") <=> stored'[Last(p)] = "open"
    BY <1>11
  <2>3. p \in applied("closed") <=> stored'[Last(p)] = "closed"
    BY <1>11
  <2>4. p \in byDefault <=> Len(p) <= 2
    BY <1>12
  <2>5. CASE p \in opened /\ Len(p) <= 2
    BY <1>5, <2>1, <2>2, <2>3, <2>4, <2>5
  <2>6. CASE p \in opened /\ ~(Len(p) <= 2)
    BY <1>8, <2>1, <2>2, <2>3, <2>4, <2>6
  <2>7. CASE p \notin opened /\ Len(p) <= 2
    BY <1>9, <2>1, <2>2, <2>3, <2>4, <2>7
  <2>8. CASE p \notin opened /\ ~(Len(p) <= 2)
    BY <1>6, <2>1, <2>2, <2>3, <2>4, <2>8
  <2> QED
    BY <2>5, <2>6, <2>7, <2>8
<1>15. applied("open") \subseteq nodes
  BY <1>11
<1> QED
  BY <1>10, <1>13, <1>14, <1>15

-----------------------------------------------------------------------------
(* Folds and moves *)
\* What is saved of the folds can be stored.
LEMMA SavedIsTyped == \A opened : saveState(opened) \in [TreeId -> {"default", "open", "closed"}]
BY DEF saveState

\* A fold keeps the cursor on a line and stores what is open.
LEMMA RefoldKeeps ==
    ASSUME TreeInv, NEW opened \in SUBSET nodes, Refold(opened), keyFrame
    PROVE  TreeInv'
<1> DEFINE flat == flatList(nodes, opened)
<1>1. TreeTypeOK /\ TreeIsBuilt
  BY DEF TreeInv
<1>2. nodes \in SUBSET Paths /\ IsFiniteSet(nodes)
  BY <1>1, NodesAre
<1>3. Len(flat) \in Nat /\ (flat = <<>> <=> Len(flat) = 0)
  BY <1>2, FlatIs
<1>4. offset \in Nat /\ height \in Nat /\ height # 0 /\ height <= lines /\ lines \in Nat /\ cursor \in Nat
  BY <1>1, LinesAre DEF TreeTypeOK
<1>5. expanded' = opened /\ stored' = saveState(opened) /\ cursor' = clamped(cursor, flat)
      /\ offset' = ensureCursorVisible(cursor', flat) /\ UNCHANGED <<nodes, issueMap, height, lines>> /\ follows' = TRUE
  BY DEF Refold
<1>6. Flat' = flat
  BY <1>5 DEF Flat
<1> HIDE DEF flat
<1>7. cursor' \in Nat /\ (flat # <<>> => cursor' < Len(flat))
  BY <1>3, <1>4, <1>5, ClampedIs
<1>8. offset' \in Nat /\ (flat # <<>> => offset' <= cursor' /\ cursor' < offset' + height)
  <2> DEFINE c == cursor'
  <2>1. c \in Nat /\ (flat # <<>> => c < Len(flat)) /\ offset' = ensureCursorVisible(c, flat)
    BY <1>5, <1>7
  <2> HIDE DEF c
  <2>2. offset' \in Nat /\ (flat # <<>> => offset' <= c /\ c < offset' + height)
    BY <1>3, <1>4, <2>1, WindowIs
  <2> QED
    BY <2>2 DEF c
<1>9. TreeTypeOK'
  BY <1>1, <1>5, <1>7, <1>8, SavedIsTyped DEF TreeTypeOK, keyFrame
<1>10. CursorKept'
  BY <1>4, <1>5, <1>6, <1>7, <1>8 DEF CursorKept
<1>11. TreeIsBuilt'
  <2>1. CASE builtOf = NotBuilt
    BY <1>1, <1>5, <2>1 DEF TreeIsBuilt, keyFrame
  <2>2. CASE builtOf # NotBuilt
    <3>1. Shaped(builtOf, nodes, issueMap) /\ RootsAreCyclic(builtOf, nodes)
      BY <1>1, <2>2 DEF TreeIsBuilt
    <3>2. RootsAreCyclic(builtOf', nodes') /\ parents' = parents
      BY <1>5, <3>1 DEF RootsAreCyclic, keyFrame
    <3>3. RootsAreCyclic(builtOf, nodes)'
      BY <3>2, CyclesStay
    <3> QED
      BY <1>5, <2>2, <3>1, <3>3 DEF TreeIsBuilt, keyFrame
  <2> QED
    BY <2>1, <2>2
<1>12. FoldsAreStored'
  <2> SUFFICES ASSUME (builtOf # NotBuilt /\ Cardinality(nodes) = Cardinality(builtOf))'
               PROVE  (expanded = loadState(nodes, issueMap))'
    BY DEF FoldsAreStored
  <2>1. builtOf # NotBuilt /\ Cardinality(nodes) = Cardinality(builtOf)
    BY <1>5 DEF keyFrame
  <2>2. opened = loadState(nodes, issueMap)'
    BY <1>5, <2>1, SavedIsLoaded
  <2> QED
    BY <1>5, <2>2
<1> QED
  BY <1>9, <1>10, <1>11, <1>12 DEF TreeInv

\* The selected node is a visible one.
LEMMA SelectedIs ==
    ASSUME TreeInv, Flat # <<>>
    PROVE  /\ Selected \in nodes /\ Selected \in visible(nodes, expanded)
           /\ cursor + 1 \in 1 .. Len(Flat)
<1>1. TreeTypeOK /\ TreeIsBuilt /\ CursorKept
  BY DEF TreeInv
<1>2. cursor \in Nat /\ cursor < Len(Flat) /\ Len(Flat) \in Nat
  BY <1>1, FlatNow DEF TreeTypeOK, CursorKept
<1>3. cursor + 1 \in 1 .. Len(Flat)
  BY <1>2
<1>4. Flat[cursor + 1] \in visible(nodes, expanded)
  BY <1>1, <1>3, FlatNow
<1> QED
  BY <1>3, <1>4 DEF Selected, visible

\* The line of a visible node.
LEMMA IndexIs ==
    ASSUME TreeInv, NEW p \in visible(nodes, expanded)
    PROVE  indexOf(p) - 1 \in Nat /\ indexOf(p) - 1 < Len(Flat)
<1>1. TreeTypeOK /\ TreeIsBuilt
  BY DEF TreeInv
<1>2. Len(Flat) \in Nat /\ DOMAIN Flat = 1 .. Len(Flat) /\ \E k \in 1 .. Len(Flat) : Flat[k] = p
  BY <1>1, FlatNow
<1>3. indexOf(p) \in 1 .. Len(Flat)
  BY <1>2 DEF indexOf
<1> QED
  BY <1>2, <1>3

\* A node's parent, and the first child of an open one, are visible when the node is.
LEMMA ParentIsVisible ==
    ASSUME TreeInv, NEW p \in visible(nodes, expanded), Len(p) > 1
    PROVE  Front(p) \in visible(nodes, expanded)
<1>1. nodes \in SUBSET Paths /\ p \in nodes /\ Len(p) # 0 /\ \A k \in 1 .. Len(p) : SubSeq(p, 1, k) \in nodes
  BY NodesAre DEF TreeInv, visible
<1>2. p \in Paths
  BY <1>1
<1> DEFINE n == Len(p) - 1
           q == SubSeq(p, 1, n)
<1>3. Len(p) \in Nat /\ Front(p) = q
  BY <1>1, <1>2, PathParts
<1>4. n \in 1 .. Len(p) /\ n \in Nat
  BY <1>3
<1>5. q \in nodes /\ Len(q) = n
  BY <1>1, <1>2, <1>4, PathParts
<1>6. \A k \in 1 .. n - 1 : SubSeq(q, 1, k) = SubSeq(p, 1, k)
  <2> SUFFICES ASSUME NEW k \in 1 .. n - 1 PROVE SubSeq(q, 1, k) = SubSeq(p, 1, k)
    OBVIOUS
  <2>1. k \in 1 .. n /\ k \in 1 .. Len(p) /\ k \in Nat /\ q \in Paths
    BY <1>1, <1>3, <1>4, <1>5
  <2>2. \A l \in 1 .. n : q[l] = p[l]
    BY <1>1, <1>2, <1>4, PathParts
  <2> HIDE DEF q, n
  <2>3. /\ SubSeq(q, 1, k) \in Seq(TreeId) /\ Len(SubSeq(q, 1, k)) = k
        /\ \A l \in 1 .. k : SubSeq(q, 1, k)[l] = q[l]
    BY <1>4, <1>5, <2>1, PathParts DEF Paths
  <2>4. /\ SubSeq(p, 1, k) \in Seq(TreeId) /\ Len(SubSeq(p, 1, k)) = k
        /\ \A l \in 1 .. k : SubSeq(p, 1, k)[l] = p[l]
    BY <1>1, <1>2, <2>1, PathParts DEF Paths
  <2>5. \A l \in 1 .. k : l \in 1 .. n
    BY <1>4, <2>1
  <2>6. \A l \in 1 .. k : SubSeq(q, 1, k)[l] = SubSeq(p, 1, k)[l]
    BY <2>2, <2>3, <2>4, <2>5
  <2> QED
    BY <2>3, <2>4, <2>6
<1>7. \A k \in 1 .. Len(q) - 1 : SubSeq(q, 1, k) \in expanded
  <2> SUFFICES ASSUME NEW k \in 1 .. n - 1 PROVE SubSeq(p, 1, k) \in expanded
    BY <1>5, <1>6
  <2>1. k \in 1 .. Len(p) - 1
    BY <1>3
  <2> QED
    BY <2>1 DEF visible
<1> QED
  BY <1>3, <1>5, <1>7 DEF visible

\* The first child of an open node is visible when the node is.
LEMMA ChildIsVisible ==
    ASSUME TreeInv, NEW p \in visible(nodes, expanded), p \in expanded, Children(p) # {}
    PROVE  FirstChild(p) \in visible(nodes, expanded)
<1>1. nodes \in SUBSET Paths /\ IsFiniteSet(nodes) /\ \A q \in nodes : Len(q) # 0
  BY NodesAre DEF TreeInv
<1>2. Children(p) \in SUBSET nodes
  BY DEF Children
<1>3. Children(p) \in SUBSET Paths /\ IsFiniteSet(Children(p))
  BY <1>1, <1>2, FS_Subset
<1>4. FirstChild(p) \in Children(p)
  BY <1>3, FirstIsIn DEF FirstChild
<1> DEFINE q == FirstChild(p)
           n == Len(q) - 1
<1>5. q \in nodes /\ q \in Paths /\ Len(q) # 0 /\ Front(q) = p
  BY <1>1, <1>4 DEF Children
<1> HIDE DEF q
<1>6. Len(q) \in Nat /\ p = SubSeq(q, 1, n)
  BY <1>5, PathParts
<1>7. \A k \in 1 .. n : SubSeq(q, 1, k) \in expanded
  <2> SUFFICES ASSUME NEW k \in 1 .. n PROVE SubSeq(q, 1, k) \in expanded
    OBVIOUS
  <2>1. k \in 1 .. Len(q) /\ n \in 1 .. Len(q) /\ n \in Nat /\ k \in Nat
    BY <1>5, <1>6
  <2>2. CASE k = n
    BY <1>6, <2>2
  <2>3. CASE k # n
    <3>1. p \in Paths /\ Len(p) = n /\ \A l \in 1 .. n : p[l] = q[l]
      BY <1>5, <1>6, <2>1, PathParts
    <3>2. k \in 1 .. Len(p) - 1 /\ k \in 1 .. Len(p) /\ Len(p) # 0 /\ \A l \in 1 .. k : l \in 1 .. n
      BY <2>1, <2>3, <3>1
    <3>3. SubSeq(p, 1, k) \in expanded
      BY <3>2 DEF visible
    <3>4. /\ SubSeq(p, 1, k) \in Seq(TreeId) /\ Len(SubSeq(p, 1, k)) = k
          /\ \A l \in 1 .. k : SubSeq(p, 1, k)[l] = p[l]
      BY <3>1, <3>2, PathParts DEF Paths
    <3>5. /\ SubSeq(q, 1, k) \in Seq(TreeId) /\ Len(SubSeq(q, 1, k)) = k
          /\ \A l \in 1 .. k : SubSeq(q, 1, k)[l] = q[l]
      BY <1>5, <2>1, PathParts DEF Paths
    <3>6. \A l \in 1 .. k : SubSeq(p, 1, k)[l] = SubSeq(q, 1, k)[l]
      BY <3>1, <3>2, <3>4, <3>5
    <3>7. SubSeq(q, 1, k) = SubSeq(p, 1, k)
      BY <2>1, <3>4, <3>5, <3>6
    <3> QED
      BY <3>3, <3>7
  <2> QED
    BY <2>2, <2>3
<1> QED
  BY <1>5, <1>7 DEF visible, q

\* Every key of the tree keeps the invariant.
LEMMA KeysKeep == ASSUME TreeInv, handleTreeKeys PROVE TreeInv'
<1>1. keyFrame
  BY DEF handleTreeKeys, keyFrame
<1>2. TreeTypeOK /\ TreeIsBuilt /\ CursorKept
  BY DEF TreeInv
<1>3. Len(Flat) \in Nat /\ (Flat = <<>> <=> Len(Flat) = 0)
  BY <1>2, FlatNow
<1>4. cursor \in Nat /\ height \in Nat /\ expanded \subseteq nodes /\ (Flat # <<>> => cursor < Len(Flat))
  BY <1>2, LinesAre DEF TreeTypeOK, CursorKept
<1>5. CASE MoveDown
  <2>1. cursor + 1 \in Nat /\ cursor + 1 < Len(Flat) /\ Move(cursor + 1)
    BY <1>3, <1>4, <1>5 DEF MoveDown
  <2> QED
    BY <1>1, <2>1, MoveKeeps
<1>6. CASE MoveUp
  <2>1. cursor - 1 \in Nat /\ (Flat # <<>> => cursor - 1 < Len(Flat)) /\ Move(cursor - 1)
    BY <1>3, <1>4, <1>6 DEF MoveUp
  <2> QED
    BY <1>1, <2>1, MoveKeeps
<1>7. CASE JumpToTop
  <2>1. 0 \in Nat /\ (Flat # <<>> => 0 < Len(Flat)) /\ Move(0)
    BY <1>3, <1>7 DEF JumpToTop
  <2> QED
    BY <1>1, <2>1, MoveKeeps
<1>8. CASE JumpToBottom
  <2>1. Len(Flat) - 1 \in Nat /\ Len(Flat) - 1 < Len(Flat) /\ Move(Len(Flat) - 1)
    BY <1>3, <1>8 DEF JumpToBottom
  <2> QED
    BY <1>1, <2>1, MoveKeeps
<1>9. CASE PageDown
  <2>1. cursor + page \in Nat
    <3>1. height \div 2 \in Nat
      BY <1>4
    <3> QED
      BY <1>4, <3>1 DEF page
  <2> DEFINE c == clamped(cursor + page, Flat)
  <2>2. c \in Nat /\ (Flat # <<>> => c < Len(Flat))
    BY <1>3, <2>1, ClampedIs
  <2>3. Move(c)
    BY <1>9 DEF PageDown
  <2> HIDE DEF c
  <2> QED
    BY <1>1, <2>2, <2>3, MoveKeeps
<1>10. CASE PageUp
  <2>1. page \in Nat
    <3>1. height \div 2 \in Nat
      BY <1>4
    <3> QED
      BY <3>1 DEF page
  <2> DEFINE c == AtLeast0(cursor - page)
  <2>2. c \in Nat /\ (Flat # <<>> => c < Len(Flat))
    BY <1>3, <1>4, <2>1 DEF AtLeast0
  <2>3. Move(c)
    BY <1>10 DEF PageUp
  <2> HIDE DEF c
  <2> QED
    BY <1>1, <2>2, <2>3, MoveKeeps
<1>11. CASE ToggleExpand
  <2> DEFINE opened == IF Selected \in expanded THEN expanded \ {Selected} ELSE expanded \cup {Selected}
  <2>1. Flat # <<>> /\ Refold(opened)
    BY <1>11 DEF ToggleExpand
  <2>2. opened \in SUBSET nodes
    BY <1>4, <2>1, SelectedIs
  <2> HIDE DEF opened
  <2> QED
    BY <1>1, <2>1, <2>2, RefoldKeeps
<1>12. CASE ExpandAll
  BY <1>1, <1>12, RefoldKeeps DEF ExpandAll
<1>13. CASE CollapseAll
  BY <1>1, <1>13, RefoldKeeps DEF CollapseAll
<1>14. CASE ExpandOrMoveToChild
  <2>1. Flat # <<>> /\ Children(Selected) # {}
    BY <1>14 DEF ExpandOrMoveToChild
  <2>2. CASE Selected \notin expanded
    <3> DEFINE opened == expanded \cup {Selected}
    <3>1. Refold(opened)
      BY <1>14, <2>2 DEF ExpandOrMoveToChild
    <3>2. opened \in SUBSET nodes
      BY <1>4, <2>1, SelectedIs
    <3> HIDE DEF opened
    <3> QED
      BY <1>1, <3>1, <3>2, RefoldKeeps
  <2>3. CASE Selected \in expanded
    <3> DEFINE c == indexOf(FirstChild(Selected)) - 1
    <3>1. Move(c)
      BY <1>14, <2>3 DEF ExpandOrMoveToChild
    <3>2. FirstChild(Selected) \in visible(nodes, expanded)
      BY <2>1, <2>3, SelectedIs, ChildIsVisible
    <3>3. c \in Nat /\ c < Len(Flat)
      BY <3>2, IndexIs
    <3> HIDE DEF c
    <3> QED
      BY <1>1, <3>1, <3>3, MoveKeeps
  <2> QED
    BY <2>2, <2>3
<1>15. CASE CollapseOrJumpToParent
  <2>1. Flat # <<>>
    BY <1>15 DEF CollapseOrJumpToParent
  <2>2. CASE Refold(expanded \ {Selected})
    BY <1>1, <1>4, <2>2, RefoldKeeps
  <2>3. CASE Len(Selected) > 1 /\ Move(indexOf(Front(Selected)) - 1)
    <3> DEFINE c == indexOf(Front(Selected)) - 1
    <3>1. Front(Selected) \in visible(nodes, expanded)
      BY <2>1, <2>3, SelectedIs, ParentIsVisible
    <3>2. c \in Nat /\ c < Len(Flat) /\ Move(c)
      BY <2>3, <3>1, IndexIs
    <3> HIDE DEF c
    <3> QED
      BY <1>1, <3>2, MoveKeeps
  <2> QED
    BY <1>15, <2>2, <2>3 DEF CollapseOrJumpToParent
<1> QED
  BY <1>5, <1>6, <1>7, <1>8, <1>9, <1>10, <1>11, <1>12, <1>13, <1>14, <1>15 DEF handleTreeKeys

\* So does leaving the tree.
LEMMA LeaveKeeps == ASSUME TreeInv, LeaveTree PROVE TreeInv'
<1>1. UNCHANGED <<parents, source, listed, builtOf, nodes, issueMap, expanded, cursor, offset, height, lines,
                  follows, stored, rebuilds>> /\ place' = "elsewhere"
  BY DEF LeaveTree, windowVars
<1>2. TreeIsBuilt' /\ FoldsAreStored' /\ Flat' = Flat
  BY <1>1, TreeStays
<1>3. TreeTypeOK'
  BY <1>1 DEF TreeInv, TreeTypeOK
<1>4. CursorKept'
  BY <1>1, <1>2 DEF TreeInv, CursorKept
<1> QED
  BY <1>2, <1>3, <1>4 DEF TreeInv

\* So does an overlay, or a modal, above the tree.
LEMMA CoverKeeps == ASSUME TreeInv, Cover PROVE TreeInv'
<1>1. UNCHANGED <<parents, source, listed, builtOf, nodes, issueMap, expanded, cursor, offset, height, lines,
                  follows, stored, rebuilds>> /\ place' \in {"covered", "sessions"}
  BY DEF Cover, windowVars
<1>2. TreeIsBuilt' /\ FoldsAreStored' /\ Flat' = Flat
  BY <1>1, TreeStays
<1>3. TreeTypeOK'
  BY <1>1 DEF TreeInv, TreeTypeOK
<1>4. CursorKept'
  BY <1>1, <1>2 DEF TreeInv, CursorKept
<1> QED
  BY <1>2, <1>3, <1>4 DEF TreeInv

\* So does closing it.
LEMMA UncoverKeeps == ASSUME TreeInv, Uncover PROVE TreeInv'
<1>1. UNCHANGED <<parents, source, listed, builtOf, nodes, issueMap, expanded, cursor, offset, lines,
                  follows, stored, rebuilds>> /\ place' = "tree" /\ height' = lines
  BY DEF Uncover
<1>2. TreeIsBuilt' /\ FoldsAreStored' /\ Flat' = Flat
  BY <1>1, TreeStays
<1>3. TreeTypeOK'
  BY <1>1 DEF TreeInv, TreeTypeOK
<1>4. CursorKept'
  BY <1>1, <1>2 DEF TreeInv, CursorKept
<1> QED
  BY <1>2, <1>3, <1>4 DEF TreeInv

\* So does a window of another size.
LEMMA ResizeKeeps == ASSUME TreeInv, NEW h \in Heights, Resize(h) PROVE TreeInv'
<1>1. UNCHANGED <<parents, source, listed, place, builtOf, nodes, issueMap, expanded, cursor, offset, stored, rebuilds>>
      /\ height' = h /\ lines' = h /\ follows' = FALSE
  BY DEF Resize
<1>2. TreeIsBuilt' /\ FoldsAreStored' /\ Flat' = Flat
  BY <1>1, TreeStays
<1>3. TreeTypeOK'
  BY <1>1 DEF TreeInv, TreeTypeOK
<1>4. CursorKept'
  BY <1>1, <1>2 DEF TreeInv, CursorKept
<1> QED
  BY <1>2, <1>3, <1>4 DEF TreeInv

\* So does another session.
LEMMA RestartKeeps == ASSUME TreeInv, Restart PROVE TreeInv'
<1>1. /\ rebuilds < MaxRebuilds /\ rebuilds' = rebuilds + 1 /\ place' = "elsewhere"
      /\ builtOf' = NotBuilt /\ nodes' = {} /\ issueMap' = <<>> /\ expanded' = {}
      /\ cursor' = 0 /\ offset' = 0 /\ height' = lines /\ follows' = TRUE
      /\ UNCHANGED <<parents, source, listed, lines, stored>>
  BY DEF Restart
<1>2. TreeTypeOK'
  <2>1. rebuilds' \in 0 .. MaxRebuilds
    BY <1>1, TreeAssumption DEF TreeInv, TreeTypeOK
  <2>2. builtOf' \in {NotBuilt} \cup SUBSET TreeId
    BY <1>1
  <2>3. cursor' \in Nat /\ offset' \in Nat /\ height' = lines' /\ follows' \in BOOLEAN
    BY <1>1
  <2>4. nodes' \subseteq Seq(TreeId) /\ expanded' \subseteq nodes'
    BY <1>1
  <2> QED
    BY <1>1, <2>1, <2>2, <2>3, <2>4 DEF TreeInv, TreeTypeOK
<1>3. TreeIsBuilt'
  BY <1>1 DEF TreeIsBuilt
<1>4. CursorKept'
  <2> DEFINE flat == flatList({}, {})
  <2>1. visible({}, {}) = {} /\ {} \in SUBSET Paths /\ IsFiniteSet({})
    BY FS_EmptySet DEF visible
  <2>2. Len(flat) \in Nat /\ (flat = <<>> <=> Len(flat) = 0) /\ \A k \in 1 .. Len(flat) : flat[k] \in {}
    BY <2>1, FlatIs
  <2> HIDE DEF flat
  <2>3. flat = <<>>
    BY <2>2
  <2>4. Flat' = flat
    BY <1>1 DEF Flat, flat
  <2> QED
    BY <2>3, <2>4 DEF CursorKept
<1>5. FoldsAreStored'
  BY <1>1 DEF FoldsAreStored
<1> QED
  BY <1>2, <1>3, <1>4, <1>5 DEF TreeInv

-----------------------------------------------------------------------------
(* Building the tree *)
\* The tree is built of the issues S, and the folds are read.
Rebuilt(S) ==
    /\ builtOf' = S /\ nodes' = treeNodes(S) /\ issueMap' = Mapped(S)
    /\ expanded' = loadState(nodes', issueMap') /\ UNCHANGED <<parents, stored>>

\* What is read of the folds is of the nodes.
LEMMA LoadedAreNodes ==
    ASSUME NEW S, NEW N, NEW map, Shaped(S, N, map)
    PROVE  loadState(N, map) \subseteq N
BY DEF loadState, Shaped

\* A tree that is built has its shape, and folds as they are stored.
LEMMA RebuiltKeeps ==
    ASSUME NEW S \in SUBSET TreeId, Rebuilt(S)
    PROVE  /\ TreeIsBuilt' /\ FoldsAreStored' /\ builtOf' \in {NotBuilt} \cup SUBSET TreeId
           /\ nodes' \in SUBSET Paths /\ IsFiniteSet(nodes') /\ expanded' \subseteq nodes'
<1>1. Shaped(S, treeNodes(S), Mapped(S)) /\ RootsAreCyclic(S, treeNodes(S))
  BY BuiltIsShaped
<1>2. builtOf' = S /\ nodes' = treeNodes(S) /\ issueMap' = Mapped(S) /\ expanded' = loadState(nodes', issueMap')
      /\ parents' = parents /\ stored' = stored
  BY DEF Rebuilt
<1>3. TreeIsBuilt'
  <2>1. RootsAreCyclic(builtOf', nodes')
    BY <1>1, <1>2
  <2>2. RootsAreCyclic(builtOf, nodes)'
    BY <1>2, <2>1, CyclesStay
  <2>3. S # NotBuilt
    BY BuiltFromIssues
  <2> QED
    BY <1>1, <1>2, <2>2, <2>3 DEF TreeIsBuilt
<1>4. FoldsAreStored'
  <2>1. expanded' = loadState(nodes, issueMap)'
    BY <1>2 DEF loadState
  <2> QED
    BY <2>1 DEF FoldsAreStored
<1>5. expanded' \subseteq nodes'
  BY <1>1, <1>2, LoadedAreNodes
<1> QED
  BY <1>1, <1>2, <1>3, <1>4, <1>5 DEF Shaped

\* The line that is chosen of the ones that show the issue.
LEMMA LineIs ==
    ASSUME NEW here \in SUBSET Nat, here # {}
    PROVE  (CHOOSE k \in here : \A l \in here : k <= l) \in here
<1>1. \E k \in here : \A l \in here : k <= l
  BY LeastOf
<1> QED
  BY <1>1

\* The selection that is restored is on a line, in the window if it is the issue it was.
LEMMA RestoreKeeps ==
    ASSUME TreeInv, NEW flat, Len(flat) \in Nat, DOMAIN flat = 1 .. Len(flat), flat = <<>> <=> Len(flat) = 0,
           RestoreSelection(flat)
    PROVE  /\ cursor' \in Nat /\ offset' \in Nat /\ follows' \in BOOLEAN
           /\ flat # <<>> => cursor' < Len(flat) /\ (follows' => offset' <= cursor' /\ cursor' < offset' + lines)
<1> DEFINE here == {k \in DOMAIN flat : Flat # <<>> /\ Last(flat[k]) = Last(Selected)}
           line == CHOOSE k \in here : \A l \in here : k <= l
<1>1. TreeTypeOK
  BY DEF TreeInv
<1>2. cursor \in Nat /\ offset \in Nat /\ lines \in Nat /\ height \in Nat /\ height # 0 /\ height <= lines
  BY <1>1, LinesAre DEF TreeTypeOK
<1>3. CASE here = {}
  <2>1. cursor' = clamped(cursor, flat) /\ follows' = FALSE /\ offset' = offset
    BY <1>3 DEF RestoreSelection
  <2>2. cursor' \in Nat /\ (flat # <<>> => cursor' < Len(flat))
    BY <1>2, <2>1, ClampedIs
  <2> QED
    BY <1>2, <2>1, <2>2
<1>4. CASE here # {}
  <2>1. cursor' = line - 1 /\ offset' = ensureCursorVisible(cursor', flat) /\ follows' = TRUE
    BY <1>4 DEF RestoreSelection
  <2>2. here \in SUBSET (1 .. Len(flat)) /\ here \in SUBSET Nat
    OBVIOUS
  <2>3. line \in here
    <3> HIDE DEF here
    <3> QED
      BY <1>4, <2>2, LineIs
  <2> DEFINE c == line - 1
  <2>4. c \in Nat /\ c < Len(flat) /\ cursor' = c /\ offset' = ensureCursorVisible(c, flat)
    <3> HIDE DEF here, line
    <3> QED
      BY <2>1, <2>2, <2>3
  <2> HIDE DEF c
  <2>5. offset' \in Nat /\ (flat # <<>> => offset' <= c /\ c < offset' + height)
    BY <1>2, <2>4, WindowIs
  <2> QED
    BY <1>2, <2>1, <2>4, <2>5
<1> QED
  BY <1>3, <1>4

\* What building the tree is, in either way.
BuildsTree(S) == (Build(S) \/ BuildFromSnapshot(S)) /\ UNCHANGED <<parents, stored, lines>>

\* What the height of the model says does not matter to the rest.
LEMMA BuildKeeps ==
    ASSUME TreeInv, NEW S \in SUBSET TreeId, BuildsTree(S)
    PROVE  /\ TreeIsBuilt' /\ FoldsAreStored' /\ CursorKept'
           /\ builtOf' \in {NotBuilt} \cup SUBSET TreeId /\ nodes' \subseteq Seq(TreeId) /\ expanded' \subseteq nodes'
           /\ cursor' \in Nat /\ offset' \in Nat /\ follows' \in BOOLEAN
<1>1. TreeTypeOK /\ CursorKept
  BY DEF TreeInv
<1>2. cursor \in Nat /\ offset \in Nat /\ lines \in Nat /\ height \in Nat /\ height # 0 /\ height <= lines
  BY <1>1, LinesAre DEF TreeTypeOK
<1>3. UNCHANGED <<parents, stored, lines>>
  BY DEF BuildsTree
<1> DEFINE flat == flatList(nodes', expanded')
<1>4. ASSUME Rebuilt(S)
      PROVE  Flat' = flat /\ Len(flat) \in Nat /\ DOMAIN flat = 1 .. Len(flat) /\ (flat = <<>> <=> Len(flat) = 0)
  <2>1. nodes' \in SUBSET Paths /\ IsFiniteSet(nodes')
    BY <1>4, RebuiltKeeps
  <2>2. Flat' = flat
    BY DEF Flat
  <2> QED
    BY <2>1, <2>2, FlatIs
<1>5. CASE Build(S)
  <2>1. Rebuilt(S) /\ cursor' = 0 /\ follows' = (offset = 0) /\ offset' = offset
    BY <1>3, <1>5 DEF Build, Rebuilt
  <2>2. CursorKept'
    <3> HIDE DEF flat
    <3>1. flat # <<>> => cursor' < Len(flat)
      BY <1>4, <2>1
    <3>2. follows' => offset' <= cursor' /\ cursor' < offset' + lines'
      <4>1. follows' => offset = 0
        BY <2>1
      <4>2. 0 <= 0 /\ 0 < 0 + lines
        BY <1>2
      <4> QED
        BY <1>3, <2>1, <4>1, <4>2
    <3> QED
      BY <1>4, <2>1, <3>1, <3>2 DEF CursorKept
  <2>3. cursor' \in Nat /\ offset' \in Nat /\ follows' \in BOOLEAN
    BY <1>2, <2>1
  <2> QED
    BY <2>1, <2>2, <2>3, RebuiltKeeps DEF Paths
<1>6. CASE BuildFromSnapshot(S)
  <2>1. CASE builtOf = S
    <3>1. UNCHANGED <<builtOf, nodes, issueMap, expanded, cursor, offset, follows>>
      BY <1>6, <2>1 DEF BuildFromSnapshot
    <3>2. TreeIsBuilt' /\ FoldsAreStored' /\ Flat' = Flat /\ nodes' \subseteq Seq(TreeId) /\ expanded' \subseteq nodes'
      BY <1>3, <3>1, TreeStays
    <3>3. CursorKept'
      BY <1>1, <1>3, <3>1, <3>2 DEF CursorKept
    <3> QED
      BY <1>1, <3>1, <3>2, <3>3 DEF TreeTypeOK
  <2>2. CASE builtOf # S /\ (source = "without" \/ S = {})
    <3>1. Build(S)
      BY <1>6, <2>2 DEF BuildFromSnapshot
    <3> QED
      BY <1>5, <3>1
  <2>3. CASE builtOf # S /\ ~(source = "without" \/ S = {})
    <3>1. Rebuilt(S) /\ RestoreSelection(flat)
      BY <1>3, <1>6, <2>3 DEF BuildFromSnapshot, Rebuilt
    <3>2. Flat' = flat /\ Len(flat) \in Nat /\ DOMAIN flat = 1 .. Len(flat) /\ (flat = <<>> <=> Len(flat) = 0)
      BY <1>4, <3>1
    <3> HIDE DEF flat
    <3>3. /\ cursor' \in Nat /\ offset' \in Nat /\ follows' \in BOOLEAN
          /\ flat # <<>> => cursor' < Len(flat) /\ (follows' => offset' <= cursor' /\ cursor' < offset' + lines)
      BY <3>1, <3>2, RestoreKeeps
    <3>4. CursorKept'
      BY <1>3, <3>2, <3>3 DEF CursorKept
    <3> QED
      BY <3>1, <3>3, <3>4, RebuiltKeeps DEF Paths
  <2> QED
    BY <2>1, <2>2, <2>3
<1> QED
  BY <1>5, <1>6 DEF BuildsTree

-----------------------------------------------------------------------------
(* The theorems *)

\* Entering the tree keeps the invariant.
LEMMA EnterKeeps == ASSUME TreeInv, EnterTree PROVE TreeInv'
<1>1. TreeTypeOK
  BY DEF TreeInv
<1>2. /\ place' = "tree" /\ height' = lines
      /\ UNCHANGED <<parents, source, listed, lines, stored, rebuilds>>
  BY DEF EnterTree
<1>3. listed \in SUBSET TreeId
  BY <1>1 DEF TreeTypeOK
<1>4. BuildsTree(listed)
  BY <1>2 DEF EnterTree, BuildsTree
<1>5. /\ TreeIsBuilt' /\ FoldsAreStored' /\ CursorKept'
      /\ builtOf' \in {NotBuilt} \cup SUBSET TreeId /\ nodes' \subseteq Seq(TreeId) /\ expanded' \subseteq nodes'
      /\ cursor' \in Nat /\ offset' \in Nat /\ follows' \in BOOLEAN
  BY <1>3, <1>4, BuildKeeps
<1>6. TreeTypeOK'
  BY <1>1, <1>2, <1>5 DEF TreeTypeOK
<1> QED
  BY <1>5, <1>6 DEF TreeInv

\* So does a reload, under the open tree or not.
LEMMA ReloadTreeKeeps == ASSUME TreeInv, NEW S \in SUBSET TreeId, ReloadTree(S) PROVE TreeInv'
<1>1. TreeTypeOK
  BY DEF TreeInv
<1>2. /\ rebuilds < MaxRebuilds /\ rebuilds' = rebuilds + 1 /\ listed' = S
      /\ UNCHANGED <<parents, source, place, lines, stored>>
  BY DEF ReloadTree
<1>3. rebuilds' \in 0 .. MaxRebuilds
  BY <1>1, <1>2, TreeAssumption DEF TreeTypeOK
<1>4. CASE onTree /\ source # "issues"
  <2>1. BuildsTree(S) /\ height' = IF place = "tree" THEN lines ELSE lines - 1
    BY <1>2, <1>4 DEF ReloadTree, BuildsTree
  <2>2. /\ TreeIsBuilt' /\ FoldsAreStored' /\ CursorKept'
        /\ builtOf' \in {NotBuilt} \cup SUBSET TreeId /\ nodes' \subseteq Seq(TreeId) /\ expanded' \subseteq nodes'
        /\ cursor' \in Nat /\ offset' \in Nat /\ follows' \in BOOLEAN
    BY <2>1, BuildKeeps
  <2>3. TreeTypeOK'
    BY <1>1, <1>2, <1>3, <2>1, <2>2 DEF TreeTypeOK
  <2> QED
    BY <2>2, <2>3 DEF TreeInv
<1>5. CASE ~(onTree /\ source # "issues")
  <2>1. UNCHANGED <<builtOf, nodes, issueMap, expanded, cursor, offset, height, follows>>
    BY <1>5 DEF ReloadTree
  <2>2. TreeIsBuilt' /\ FoldsAreStored' /\ Flat' = Flat
    BY <1>2, <2>1, TreeStays
  <2>3. TreeTypeOK'
    BY <1>1, <1>2, <1>3, <2>1 DEF TreeTypeOK
  <2>4. CursorKept'
    BY <1>2, <2>1, <2>2 DEF TreeInv, CursorKept
  <2> QED
    BY <2>2, <2>3, <2>4 DEF TreeInv
<1> QED
  BY <1>4, <1>5

\* Every step keeps the invariant.
LEMMA TreeStep == TreeInv /\ [TreeNext]_treeVars => TreeInv'
<1> SUFFICES ASSUME TreeInv, [TreeNext]_treeVars PROVE TreeInv'
  OBVIOUS
<1>1. CASE handleTreeKeys
  BY <1>1, KeysKeep
<1>2. CASE LeaveTree
  BY <1>2, LeaveKeeps
<1>3. CASE EnterTree
  BY <1>3, EnterKeeps
<1>8. CASE Cover
  BY <1>8, CoverKeeps
<1>9. CASE Uncover
  BY <1>9, UncoverKeeps
<1>4. CASE \E h \in Heights : Resize(h)
  BY <1>4, ResizeKeeps
<1>5. ASSUME NEW i \in TreeId, ReloadTree(listed \ {i}) \/ ReloadTree(listed \cup {i})
      PROVE  TreeInv'
  <2>1. listed \ {i} \in SUBSET TreeId /\ listed \cup {i} \in SUBSET TreeId
    BY DEF TreeInv, TreeTypeOK
  <2> QED
    BY <1>5, <2>1, ReloadTreeKeeps
<1>6. CASE Restart
  BY <1>6, RestartKeeps
<1>7. CASE UNCHANGED treeVars
  <2>1. UNCHANGED <<parents, source, listed, place, builtOf, nodes, issueMap, expanded, cursor, offset,
                    height, lines, stored, follows, rebuilds>>
    BY <1>7 DEF treeVars
  <2>2. TreeIsBuilt' /\ FoldsAreStored' /\ Flat' = Flat
    BY <2>1, TreeStays
  <2>3. TreeTypeOK'
    BY <2>1 DEF TreeInv, TreeTypeOK
  <2>4. CursorKept'
    BY <2>1, <2>2 DEF TreeInv, CursorKept
  <2> QED
    BY <2>2, <2>3, <2>4 DEF TreeInv
<1> QED
  BY <1>1, <1>2, <1>3, <1>4, <1>5, <1>6, <1>7, <1>8, <1>9 DEF TreeNext

(* The shape of the tree, the folds that are stored and the cursor on a    *)
(* line hold together after any number of keys, resizes, reloads and       *)
(* restarts, for any parents (TreeInv: buildIssueTreeNodes, loadState,     *)
(* saveState, rebuildFlatList, ensureCursorVisible).                       *)
THEOREM TreeInvariant == TreeSpec => []TreeInv
<1>1. TreeInit => TreeInv
  BY InitHolds
<1>2. TreeInv /\ [TreeNext]_treeVars => TreeInv'
  BY TreeStep
<1> QED
  BY <1>1, <1>2, PTL DEF TreeSpec

(* The fields of TreeModel keep their types: what is expanded is a node of *)
(* the tree, and when a key comes the height is what is rendered.          *)
THEOREM TreeTypeCorrect == TreeSpec => []TreeTypeOK
<1>1. TreeInv => TreeTypeOK
  BY DEF TreeInv
<1> QED
  BY <1>1, TreeInvariant, PTL

\* Every issue has a node.
LEMMA InvIsWhole == TreeInv => TreeIsWhole
<1> SUFFICES ASSUME TreeInv, builtOf # NotBuilt
             PROVE  /\ \A i \in builtOf : \E p \in nodes : Last(p) = i /\ ~isCut(p)
                    /\ \A p \in nodes : Len(p) = 1 /\ parents[p[1]] \cap builtOf # {} => p[1] \in Above(builtOf, p[1])
  BY DEF TreeIsWhole
<1>1. Shaped(builtOf, nodes, issueMap) /\ RootsAreCyclic(builtOf, nodes)
  BY DEF TreeInv, TreeIsBuilt
<1> QED
  BY <1>1 DEF Shaped, RootsAreCyclic

\* The cursor is on a line that is rendered.
LEMMA InvIsInView == TreeInv => CursorInView
<1> SUFFICES ASSUME TreeInv, place = "tree", Flat # <<>>
             PROVE  cursor < Len(Flat) /\ (follows => cursor \in visibleRange)
  BY DEF CursorInView
<1>1. TreeTypeOK /\ TreeIsBuilt /\ CursorKept
  BY DEF TreeInv
<1>2. cursor \in Nat /\ offset \in Nat /\ lines \in Nat /\ Len(Flat) \in Nat
  BY <1>1, LinesAre, FlatNow DEF TreeTypeOK
<1>3. cursor < Len(Flat) /\ (follows => offset <= cursor /\ cursor < offset + lines)
  BY <1>1 DEF CursorKept
<1>4. ASSUME follows PROVE cursor \in visibleRange
  <2>1. offset <= cursor /\ cursor < offset + lines
    BY <1>3, <1>4
  <2>2. CASE offset + lines > Len(Flat)
    <3>1. visibleRange = AtLeast0(Len(Flat) - lines) .. Len(Flat) - 1
      BY <2>2 DEF visibleRange
    <3>2. cursor >= AtLeast0(Len(Flat) - lines)
      BY <1>2, <2>1, <2>2 DEF AtLeast0
    <3>3. AtLeast0(Len(Flat) - lines) \in Nat
      BY <1>2 DEF AtLeast0
    <3> QED
      BY <1>2, <1>3, <3>1, <3>2, <3>3
  <2>3. CASE ~(offset + lines > Len(Flat))
    <3>1. visibleRange = offset .. offset + lines - 1
      BY <2>3 DEF visibleRange
    <3> QED
      BY <1>2, <2>1, <3>1
  <2> QED
    BY <2>2, <2>3
<1> QED
  BY <1>3, <1>4

(* For any parents, cyclic ones included: every loaded issue has a node and*)
(* only a member of a cycle is a root despite its parent                   *)
(* (buildIssueTreeNodes); the cursor is on a line that View renders        *)
(* (ensureCursorVisible, visibleRange); and tree-state.json gives back what*)
(* is open (saveState, loadState).                                         *)
THEOREM TreeIsSoundHolds == TreeSpec => []TreeIsSound
<1>1. TreeInv => TreeIsSound
  BY InvIsWhole, InvIsInView DEF TreeIsSound, TreeInv
<1> QED
  BY <1>1, TreeInvariant, PTL

\* What a step keeps of the selection.
KeepsSelection ==
    /\ onTree /\ onTree' /\ source = "snapshot" /\ builtOf' # builtOf /\ Flat # <<>>
    /\ \E k \in DOMAIN Flat' : Last(Flat'[k]) = Last(Selected)
    => Last(Selected') = Last(Selected)

\* The first line of the issue that was selected is selected again.
LEMMA ReloadKeepsSelection ==
    ASSUME TreeInv, NEW S \in SUBSET TreeId, ReloadTree(S) PROVE KeepsSelection
<1> SUFFICES ASSUME onTree, source = "snapshot", builtOf' # builtOf, Flat # <<>>,
                    \E k \in DOMAIN Flat' : Last(Flat'[k]) = Last(Selected)
             PROVE  Last(Selected') = Last(Selected)
  BY DEF KeepsSelection
<1>1. BuildFromSnapshot(S) /\ UNCHANGED <<parents, stored>>
  BY DEF ReloadTree
<1>2. builtOf # S /\ Rebuilt(S)
  BY <1>1 DEF BuildFromSnapshot, Build, Rebuilt
<1> DEFINE flat == flatList(nodes', expanded')
<1>3. nodes' \in SUBSET Paths /\ IsFiniteSet(nodes')
  BY <1>2, RebuiltKeeps
<1>4. Flat' = flat
  BY DEF Flat
<1>5. Len(flat) \in Nat /\ DOMAIN flat = 1 .. Len(flat) /\ \A k \in 1 .. Len(flat) : flat[k] \in visible(nodes', expanded')
  BY <1>3, FlatIs
<1>6. S # {}
  <2> SUFFICES ASSUME S = {} PROVE FALSE
    OBVIOUS
  <2>1. nodes' = {}
    BY <1>2, EmptyTree DEF Rebuilt
  <2>2. visible(nodes', expanded') = {}
    BY <2>1 DEF visible
  <2> HIDE DEF flat
  <2> QED
    BY <1>4, <1>5, <2>2
<1>7. RestoreSelection(flat)
  BY <1>1, <1>2, <1>6 DEF BuildFromSnapshot
<1> HIDE DEF flat
<1> DEFINE here == {k \in DOMAIN flat : Flat # <<>> /\ Last(flat[k]) = Last(Selected)}
           line == CHOOSE k \in here : \A l \in here : k <= l
<1>8. here # {} /\ here \in SUBSET Nat
  BY <1>4, <1>5
<1>9. cursor' = line - 1
  BY <1>7, <1>8 DEF RestoreSelection
<1>10. line \in here
  <2> HIDE DEF here
  <2> QED
    BY <1>8, LineIs
<1>11. line \in Nat /\ Last(flat[line]) = Last(Selected)
  BY <1>5, <1>10
<1>12. Selected' = flat[cursor' + 1]
  BY <1>4 DEF Selected
<1>13. cursor' + 1 = line
  <2> HIDE DEF line
  <2> QED
    BY <1>9, <1>11
<1> QED
  BY <1>11, <1>12, <1>13

\* No other step keeps the tree open and changes what it is built of.
LEMMA StepKeepsSelection == TreeInv /\ [TreeNext]_treeVars => [KeepsSelection]_treeVars
<1> SUFFICES ASSUME TreeInv, TreeNext, onTree, onTree', builtOf' # builtOf PROVE KeepsSelection
  BY DEF KeepsSelection
<1>1. ~handleTreeKeys /\ ~LeaveTree /\ ~Cover /\ ~Uncover /\ ~EnterTree /\ ~Restart
  BY DEF handleTreeKeys, LeaveTree, Cover, Uncover, EnterTree, Restart, onTree
<1>2. \A h \in Heights : ~Resize(h)
  BY DEF Resize
<1>3. PICK i \in TreeId : ReloadTree(listed \ {i}) \/ ReloadTree(listed \cup {i})
  BY <1>1, <1>2 DEF TreeNext
<1>4. listed \ {i} \in SUBSET TreeId /\ listed \cup {i} \in SUBSET TreeId
  BY DEF TreeInv, TreeTypeOK
<1> QED
  BY <1>3, <1>4, ReloadKeepsSelection

(* However the issues change under the open tree, the cursor stays on its  *)
(* issue as long as that is visible (BuildFromSnapshot).                   *)
THEOREM SelectionIsKeptHolds == TreeSpec => SelectionIsKept
<1>1. TreeInv /\ [TreeNext]_treeVars => [KeepsSelection]_treeVars
  BY StepKeepsSelection
<1>2. TreeSpec => [][KeepsSelection]_treeVars
  BY <1>1, TreeInvariant, PTL DEF TreeSpec
<1> QED
  BY <1>2 DEF SelectionIsKept, KeepsSelection
=============================================================================
