-------------------------------- MODULE TreeView --------------------------------
(***************************************************************************)
(* pkg/ui/tree.go under Update: the tree of parents and children, with a   *)
(* cursor, a scrolled window and folds that are written to a file.  The    *)
(* user moves, folds, resizes, and opens the help or the sessions above    *)
(* it; the issues are reloaded meanwhile; bv ends and is started again.  A *)
(* node is the path of issues from its root, since an issue with two       *)
(* parents has two nodes.  Sort keys are distinct and agree with the order *)
(* in which the issues are loaded; the view is drawn after every step;     *)
(* the file with the folds can be written and read.                        *)
(***************************************************************************)
EXTENDS Integers, Sequences, FiniteSets, SequencesExt

CONSTANTS
    MaxTreeId,     \* bound: issues of the tree
    Forests,       \* bound: the parents each issue may have, for all issues
    Heights,       \* bound: lines of the terminal above the footer
    MaxRebuilds    \* bound: reloads and restarts

ASSUME TreeAssumption ==
    /\ MaxTreeId \in Nat \ {0} /\ Forests \subseteq [1 .. MaxTreeId -> SUBSET (1 .. MaxTreeId)]
    /\ Heights \subseteq Nat \ {0, 1} /\ MaxRebuilds \in Nat

TreeId == 1 .. MaxTreeId

VARIABLES
    parents,     \* the parent-child dependencies of each issue
    source,      \* what the tree is built from: a snapshot with the tree or "without"
                 \* (large datasets), or, without a worker, the "issues"
    listed,      \* the issues loaded at present
    place,       \* where the user is: "elsewhere", at the "tree", or at the tree "covered" by the
                 \* help (or a panel that takes the keys only) or by the modal of the "sessions"
    builtOf,     \* the issues the tree was built from, NotBuilt at first
    nodes,       \* all nodes
    issueMap,    \* the node of each issue
    expanded,    \* the nodes whose Expanded is set
    cursor, offset, height,   \* of TreeModel; the cursor counts from 0
    lines,       \* of the terminal, for the tree
    stored,      \* tree-state.json: what is "open" or "closed" explicitly
    follows,     \* history: nothing has moved the cursor or the window apart
    rebuilds     \* counter of the bound

windowVars == <<cursor, offset, height, lines, follows>>
treeVars == <<parents, source, listed, place, builtOf, nodes, issueMap, expanded, cursor, offset,
              height, lines, stored, follows, rebuilds>>

NotBuilt == {0}

\* underlyingFocus: a reload leaves the tree alone under the sessions, which have their own focus.
onTree == place \in {"tree", "covered"}

-----------------------------------------------------------------------------
(* The nodes, level by level.  A path that comes back to an issue is cut.  *)
isCut(p) == \E k \in 1 .. Len(p) - 1 : p[k] = Last(p)

childrenOf(S, i) == {c \in S : i \in parents[c]}

levels(S, roots) ==
    LET level[n \in 1 .. MaxTreeId + 1] ==
            IF n = 1 THEN {<<r>> : r \in roots}
            ELSE UNION {{Append(p, c) : c \in childrenOf(S, Last(p))} :
                           p \in {p \in level[n - 1] : ~isCut(p)}}
    IN  level

buildNode(S, roots) == UNION {levels(S, roots)[n] : n \in 1 .. MaxTreeId + 1}

represented(S, roots) == {Last(p) : p \in buildNode(S, roots)}

\* An issue without an existing parent is a root.
naturalRoots(S) == {i \in S : parents[i] \cap S = {}}

\* Fault: the first issue found becomes the root.
anyMember(S, i) == i

(* What no root reaches hangs below a cycle: the least parent is followed  *)
(* to a member of the cycle, which becomes a root.                         *)
leastParent(S, x) == CHOOSE q \in parents[x] \cap S : \A r \in parents[x] \cap S : q <= r

chainOf(S, i) ==
    LET up[n \in 0 .. MaxTreeId] == IF n = 0 THEN i ELSE leastParent(S, up[n - 1])
    IN  up

cycleMember(S, i) ==
    LET onPath(n) == {chainOf(S, i)[m] : m \in 0 .. n - 1}
        closes(n) == chainOf(S, i)[n] \in onPath(n)
    IN  chainOf(S, i)[CHOOSE n \in 1 .. MaxTreeId : closes(n) /\ \A m \in 1 .. n - 1 : ~closes(m)]

\* The roots as they are built: first the natural ones, then those for what is left.
rootsUpTo(S) ==
    LET roots[n \in 0 .. 2 * MaxTreeId] ==
            IF n = 0 THEN <<>>
            ELSE LET built == roots[n - 1] IN
                 IF n \in naturalRoots(S) THEN Append(built, n)
                 ELSE IF n - MaxTreeId \in S \ represented(S, ToSet(built))
                 THEN Append(built, cycleMember(S, n - MaxTreeId))
                 ELSE built
    IN  roots

builtRoots(S) == rootsUpTo(S)[2 * MaxTreeId]

\* buildIssueTreeNodes
treeNodes(S) == buildNode(S, ToSet(builtRoots(S)))

\* Depth-first order, children (and roots) in the order of their issues: where they first
\* differ, p ends or has the lesser issue.
Before(p, q) ==
    \E k \in 1 .. Len(q) :
        /\ k <= Len(p) + 1 /\ \A l \in 1 .. k - 1 : p[l] = q[l]
        /\ k = Len(p) + 1 \/ p[k] < q[k]

DepthFirst(N) ==
    LET rank == [p \in N |-> Cardinality({q \in N : Before(q, p)})]
    IN  [k \in 1 .. Cardinality(N) |-> CHOOSE p \in N : rank[p] = k - 1]

lastOf(N) == CHOOSE p \in N : \A q \in N \ {p} : Before(q, p)

(* issueMap: of the nodes of an issue the one built last, cut ones apart.  *)
Mapped(S) ==
    LET roots == builtRoots(S)
        own(k, i) == {p \in buildNode(S, {roots[k]}) : Last(p) = i /\ ~isCut(p)}
        last(i) == CHOOSE k \in DOMAIN roots :
                       own(k, i) # {} /\ \A l \in k + 1 .. Len(roots) : own(l, i) = {}
    IN  [i \in S |-> lastOf(own(last(i), i))]

-----------------------------------------------------------------------------
(* Folds: two levels are open by default; the file holds what is not as by *)
(* default.  Of several nodes of an issue the last one that is shown counts.*)
openByDefault(p) == Len(p) <= 2

saveState(opened) ==
    [i \in TreeId |->
        LET explicit == {p \in nodes : Last(p) = i /\ openByDefault(p) # (p \in opened)}
        IN  IF explicit = {} THEN "default"
            ELSE IF lastOf(explicit) \in opened THEN "open" ELSE "closed"]

loadState(all, map) ==
    LET applied(what) == {map[i] : i \in {i \in DOMAIN map : stored[i] = what}}
        byDefault == {p \in all : openByDefault(p) /\ ~isCut(p)}
    IN  (byDefault \ applied("closed")) \cup applied("open")

\* rebuildFlatList: the nodes that are visible, and the cursor kept within them.
flatList(all, opened) ==
    DepthFirst({p \in all : \A k \in 1 .. Len(p) - 1 : SubSeq(p, 1, k) \in opened})

clamped(c, flat) == IF c < Len(flat) THEN c ELSE IF flat = <<>> THEN 0 ELSE Len(flat) - 1

Flat == flatList(nodes, expanded)
Selected == Flat[cursor + 1]

\* The window.
page == IF height \div 2 < 1 THEN 5 ELSE height \div 2

AtLeast0(x) == IF x < 0 THEN 0 ELSE x

ensureCursorVisible(c, flat) ==
    LET above == IF c < offset THEN c ELSE offset
        below == IF c >= above + height THEN c - height + 1 ELSE above
        maxOffset == AtLeast0(Len(flat) - height)
    IN  IF flat = <<>> THEN offset
        ELSE IF below > maxOffset THEN maxOffset ELSE AtLeast0(below)

\* The lines that are rendered.
visibleRange ==
    IF offset + lines > Len(Flat) THEN AtLeast0(Len(Flat) - lines) .. Len(Flat) - 1
    ELSE offset .. offset + lines - 1

-----------------------------------------------------------------------------
TreeInit ==
    /\ parents \in Forests
    /\ source \in {"snapshot", "without", "issues"}
    /\ listed = TreeId /\ place = "elsewhere"
    /\ builtOf = NotBuilt /\ nodes = {} /\ issueMap = <<>> /\ expanded = {}
    /\ cursor = 0 /\ offset = 0 /\ lines \in Heights /\ height = lines
    /\ stored = [i \in TreeId |-> "default"]
    /\ follows = TRUE /\ rebuilds = 0

Move(c) ==
    /\ cursor' = c /\ offset' = ensureCursorVisible(c, Flat) /\ follows' = TRUE
    /\ UNCHANGED <<nodes, issueMap, expanded, stored, height, lines>>

\* rebuildFlatList, saveState and ensureCursorVisible after a fold.
Refold(opened) ==
    LET flat == flatList(nodes, opened) IN
    /\ expanded' = opened /\ stored' = saveState(opened)
    /\ cursor' = clamped(cursor, flat)
    /\ offset' = ensureCursorVisible(cursor', flat) /\ follows' = TRUE
    /\ UNCHANGED <<nodes, issueMap, height, lines>>

Children(p) == {q \in nodes : Front(q) = p}
FirstChild(p) == CHOOSE q \in Children(p) : \A r \in Children(p) \ {q} : Before(q, r)

indexOf(p) == CHOOSE k \in DOMAIN Flat : Flat[k] = p

MoveDown == cursor < Len(Flat) - 1 /\ Move(cursor + 1)

MoveUp == cursor > 0 /\ Move(cursor - 1)
JumpToTop == Move(0)
JumpToBottom == Flat # <<>> /\ Move(Len(Flat) - 1)
PageDown == Move(clamped(cursor + page, Flat))
PageUp == Move(AtLeast0(cursor - page))

ToggleExpand ==
    /\ Flat # <<>> /\ Children(Selected) # {}
    /\ Refold(IF Selected \in expanded THEN expanded \ {Selected} ELSE expanded \cup {Selected})

ExpandAll == Refold(nodes)
CollapseAll == Refold({})

ExpandOrMoveToChild ==
    /\ Flat # <<>> /\ Children(Selected) # {}
    /\ IF Selected \notin expanded THEN Refold(expanded \cup {Selected})
       ELSE Move(indexOf(FirstChild(Selected)) - 1)

CollapseOrJumpToParent ==
    /\ Flat # <<>>
    /\ \/ Children(Selected) # {} /\ Selected \in expanded /\ Refold(expanded \ {Selected})
       \/ /\ Children(Selected) = {} \/ Selected \notin expanded
          /\ Len(Selected) > 1 /\ Move(indexOf(Front(Selected)) - 1)

handleTreeKeys ==
    /\ place = "tree"
    /\ \/ MoveDown \/ MoveUp \/ JumpToTop \/ JumpToBottom \/ PageDown \/ PageUp
       \/ ToggleExpand \/ ExpandAll \/ CollapseAll
       \/ ExpandOrMoveToChild \/ CollapseOrJumpToParent
    /\ UNCHANGED <<parents, source, listed, place, builtOf, rebuilds>>

\* Esc, E, tab or another view; and from what is above the tree, other overlays lead away.
LeaveTree ==
    /\ place # "elsewhere" /\ place' = "elsewhere"
    /\ UNCHANGED <<parents, source, listed, builtOf, nodes, issueMap, expanded, windowVars, stored, rebuilds>>

Cover ==
    /\ place = "tree" /\ place' \in {"covered", "sessions"}
    /\ UNCHANGED <<parents, source, listed, builtOf, nodes, issueMap, expanded, windowVars, stored, rebuilds>>

\* The next frame renders the tree again, at its full height.
Uncover ==
    /\ place \in {"covered", "sessions"} /\ place' = "tree" /\ height' = lines
    /\ UNCHANGED <<parents, source, listed, builtOf, nodes, issueMap, expanded, cursor, offset, lines,
                   stored, follows, rebuilds>>

Resize(h) ==
    /\ height' = h /\ lines' = h /\ follows' = FALSE
    /\ UNCHANGED <<parents, source, listed, place, builtOf, nodes, issueMap, expanded, cursor, offset,
                   stored, rebuilds>>

\* Build: the cursor goes to the top, the window stays.
Build(S) ==
    /\ builtOf' = S /\ nodes' = treeNodes(S) /\ issueMap' = Mapped(S)
    /\ expanded' = loadState(nodes', issueMap')
    /\ cursor' = 0 /\ follows' = (offset = 0)
    /\ UNCHANGED offset

\* Fault: the cursor keeps its line.
KeepLine(flat) == cursor' = clamped(cursor, flat) /\ follows' = FALSE /\ UNCHANGED offset

\* The cursor goes back to the issue it was on, if that is visible.
RestoreSelection(flat) ==
    LET here == {k \in DOMAIN flat : Flat # <<>> /\ Last(flat[k]) = Last(Selected)} IN
    IF here = {} THEN cursor' = clamped(cursor, flat) /\ follows' = FALSE /\ UNCHANGED offset
    ELSE /\ cursor' = (CHOOSE k \in here : \A l \in here : k <= l) - 1
         /\ offset' = ensureCursorVisible(cursor', flat) /\ follows' = TRUE

BuildFromSnapshot(S) ==
    IF builtOf = S THEN UNCHANGED <<builtOf, nodes, issueMap, expanded, cursor, offset, follows>>
    ELSE IF source = "without" \/ S = {} THEN Build(S)
    ELSE /\ builtOf' = S /\ nodes' = treeNodes(S) /\ issueMap' = Mapped(S)
         /\ expanded' = loadState(nodes', issueMap')
         /\ RestoreSelection(flatList(nodes', expanded'))

\* E.  The height that is set afterwards, one line less, lasts until the frame that follows.
EnterTree ==
    /\ place = "elsewhere" /\ place' = "tree"
    /\ IF source = "issues" THEN Build(listed) ELSE BuildFromSnapshot(listed)
    /\ height' = lines
    /\ UNCHANGED <<parents, source, listed, lines, stored, rebuilds>>

\* SnapshotReadyMsg, or a FileChangedMsg, which leaves the open tree as it was.  Frames without
\* the tree leave its height at one line less.
ReloadTree(S) ==
    /\ rebuilds < MaxRebuilds /\ rebuilds' = rebuilds + 1
    /\ listed' = S
    /\ IF onTree /\ source # "issues" THEN BuildFromSnapshot(S) /\ height' = IF place = "tree" THEN lines ELSE lines - 1
       ELSE UNCHANGED <<builtOf, nodes, issueMap, expanded, cursor, offset, height, follows>>
    /\ UNCHANGED <<parents, source, place, lines, stored>>

\* bv ends and is started again.
Restart ==
    /\ rebuilds < MaxRebuilds /\ rebuilds' = rebuilds + 1
    /\ place' = "elsewhere"
    /\ builtOf' = NotBuilt /\ nodes' = {} /\ issueMap' = <<>> /\ expanded' = {}
    /\ cursor' = 0 /\ offset' = 0 /\ height' = lines /\ follows' = TRUE
    /\ UNCHANGED <<parents, source, listed, lines, stored>>

TreeNext ==
    \/ handleTreeKeys \/ LeaveTree \/ Cover \/ Uncover \/ EnterTree
    \/ \E h \in Heights : Resize(h)
    \/ \E i \in TreeId : ReloadTree(listed \ {i}) \/ ReloadTree(listed \cup {i})
    \/ Restart

TreeSpec == TreeInit /\ [][TreeNext]_treeVars

-----------------------------------------------------------------------------
\* The types of the tree's state (TreeModel).
TreeTypeOK ==
    /\ parents \in [TreeId -> SUBSET TreeId] /\ source \in {"snapshot", "without", "issues"}
    /\ listed \subseteq TreeId /\ place \in {"elsewhere", "tree", "covered", "sessions"}
    /\ builtOf \in {NotBuilt} \cup SUBSET TreeId
    /\ nodes \subseteq Seq(TreeId) /\ expanded \subseteq nodes
    /\ cursor \in Nat /\ offset \in Nat /\ lines \in Heights /\ height \in {lines - 1, lines}
    /\ place = "tree" => height = lines
    /\ stored \in [TreeId -> {"default", "open", "closed"}]
    /\ follows \in BOOLEAN /\ rebuilds \in 0 .. MaxRebuilds

\* Descendants of an issue: what its node shows once all is open.
Above(S, i) == {q \in S : \E p \in buildNode(S, {q}) : Len(p) > 1 /\ Last(p) = i}

(* Every issue has a node with its children, whatever cycles the parents   *)
(* form, and an issue with a parent is a root only as a member of a cycle  *)
(* (buildIssueTreeNodes).                                                  *)
TreeIsWhole ==
    builtOf # NotBuilt =>
        /\ \A i \in builtOf : \E p \in nodes : Last(p) = i /\ ~isCut(p)
        /\ \A p \in nodes : Len(p) = 1 /\ parents[p[1]] \cap builtOf # {} => p[1] \in Above(builtOf, p[1])

(* The cursor is on a visible node, and on a line that is rendered unless, *)
(* since the last key, the window was resized, the tree was built from the *)
(* issues or the selected one was gone (ensureCursorVisible, visibleRange).*)
CursorInView ==
    place = "tree" /\ Flat # <<>> => cursor < Len(Flat) /\ (follows => cursor \in visibleRange)

(* What is open and closed is what the file would give back, to a rebuild  *)
(* or to the next session, if every issue has one node (saveState).        *)
FoldsAreStored ==
    builtOf # NotBuilt /\ Cardinality(nodes) = Cardinality(builtOf) => expanded = loadState(nodes, issueMap)

TreeIsSound == TreeIsWhole /\ CursorInView /\ FoldsAreStored

(* A reload under the open tree leaves the cursor on its issue as long as  *)
(* that is visible (BuildFromSnapshot); a large dataset is not promised it.*)
SelectionIsKept ==
    [][/\ onTree /\ onTree' /\ source = "snapshot" /\ builtOf' # builtOf /\ Flat # <<>>
       /\ \E k \in DOMAIN Flat' : Last(Flat'[k]) = Last(Selected)
       => Last(Selected') = Last(Selected)]_treeVars

=============================================================================
