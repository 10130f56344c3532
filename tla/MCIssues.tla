-------------------------------- MODULE MCIssues --------------------------------
(***************************************************************************)
(* The TLC instance of what is done with issues: the human edits one, the  *)
(* analysis says which are ready, what to plan and how they hang together, *)
(* and the tree shows them.  A behaviour is one of the four; the others    *)
(* stay in an initial state.                                               *)
(***************************************************************************)
EXTENDS HumanEdit, Planning, GraphMetrics, TreeView

VARIABLE part

issuesVars == <<editVars, readyVars, graphVars, treeVars, part>>

\* Bound: what happens in one behaviour, of at most 2 sessions, 2 saves, one br update
\* by another process and one br command that fails.
MaxEvents == 4

\* Bound: a path, an issue with two parents, and a cycle with a parent below it.
Shapes == {<<{}, {1}, {2}, {3}>>, <<{}, {}, {1, 2}, {3}>>, <<{3}, {3}, {2}, {}>>}

NoIssues == [i \in Id |-> [status |-> "absent", candidate |-> TRUE, blockers |-> {}, parents |-> {}]]

\* What only one part begins in more than one way is pinned in the others.
IssuesInit ==
    /\ part \in {"edit", "readiness", "graph", "tree"}
    /\ part # "edit" => async = FALSE
    /\ part # "readiness" => issues = NoIssues
    /\ part # "graph" => graph = {<<1, 2>>}
    /\ part # "tree" => parents = <<{}, {1}, {2}, {3}>> /\ source = "issues" /\ lines = 2
    /\ EditInit /\ ReadinessInit /\ GraphInit /\ TreeInit

OnEdit == part = "edit" /\ UNCHANGED <<readyVars, graphVars, treeVars, part>>
OnReadiness == part = "readiness" /\ UNCHANGED <<editVars, graphVars, treeVars, part>>
OnGraph == part = "graph" /\ UNCHANGED <<editVars, readyVars, treeVars, part>>
OnTheTree == part = "tree" /\ UNCHANGED <<editVars, readyVars, graphVars, part>>

IssuesNext ==
    \/ OnEdit /\ EditNext /\ sessions' + saves' + agentWrites' + brFailures' <= MaxEvents
    \/ OnReadiness /\ ReadinessNext
    \/ OnGraph /\ Analyze
    \/ OnTheTree /\ TreeNext

\* The fairness of EditSpec.
IssuesSpec ==
    IssuesInit /\ [][IssuesNext]_issuesVars /\ WF_issuesVars(OnEdit /\ handleEditPoll)

\* The types of what the parts keep that move in steps.
IssuesTypeOK == EditTypeOK /\ TreeTypeOK

(* What is said of the readiness of issues is true of them: which are      *)
(* ready, what becomes ready, the plan and the chains of blockers          *)
(* (ReadinessIsExact, PlanningIsSound).                                    *)
PlansAreTrue == ReadinessIsExact /\ PlanningIsSound
=============================================================================
