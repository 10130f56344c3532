-------------------------------- MODULE MCFiles --------------------------------
(***************************************************************************)
(* TLC instances of the protocols on shared files: the instance lock, the  *)
(* file watcher, AGENTS.md, the updater and the history caches.  They have *)
(* nothing in common but the run: a behaviour is one of them, the others   *)
(* stay in an initial state.                                               *)
(***************************************************************************)
EXTENDS InstanceLock, Watcher, AgentFile, Updater, HistoryDisk

VARIABLE part

\* The blurb versions of the two bv processes.
Versions == [w \in Writers |-> IF w = "old" THEN 1 ELSE 2]

filesVars == <<vars, watcherVars, agentVars, updVars, histVars, part>>

Parts == {"lock", "watcher", "agents", "updater", "history"}

\* What only one part begins in more than one way is pinned in the others.
FilesInit ==
    /\ part \in Parts
    /\ Init /\ WatcherInit /\ AgentInit /\ UpdInit /\ HistInit
    /\ part # "watcher" => exists
    /\ part # "agents" => named = 1 /\ inodes[1].blurbs = <<>>

OnLock == part = "lock" /\ UNCHANGED <<watcherVars, agentVars, updVars, histVars, part>>
OnWatcher == part = "watcher" /\ UNCHANGED <<vars, agentVars, updVars, histVars, part>>
OnAgents == part = "agents" /\ UNCHANGED <<vars, watcherVars, updVars, histVars, part>>
OnUpdater == part = "updater" /\ UNCHANGED <<vars, watcherVars, agentVars, histVars, part>>
OnHistory == part = "history" /\ UNCHANGED <<vars, watcherVars, agentVars, updVars, part>>

FilesNext ==
    \/ OnLock /\ Next
    \/ OnWatcher /\ WatcherNext
    \/ OnAgents /\ AgentNext
    \/ OnUpdater /\ UpdNext
    \/ OnHistory /\ HistNext

FilesSpec == FilesInit /\ [][FilesNext]_filesVars

\* The fairness of FairSpec, WatcherFairSpec and HistFairSpec.
FilesFairSpec ==
    /\ FilesSpec
    /\ \A p \in Proc : WF_filesVars(OnLock /\ pc[p] # "start" /\ NewLock(p))
    /\ WF_filesVars(OnWatcher /\ StartLaunches)
    /\ \A g \in Generation : WF_filesVars(OnWatcher /\ watch(g))
    /\ WF_filesVars(OnWatcher /\ \E t \in timers : callback(t))
    /\ \A c \in Caller : WF_filesVars(OnHistory /\ CallStep(c))

\* The type invariants of the five parts.
FilesTypeOK == TypeOK /\ WatcherTypeOK /\ AgentTypeOK /\ UpdTypeOK /\ HistTypeOK

=============================================================================
