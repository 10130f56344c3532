------------------------------- MODULE MCWorkerLive -------------------------------
(***************************************************************************)
(* The TLC instance of BackgroundWorker and WorkerUI for liveness: a       *)
(* behaviour is either the worker without its UI, with one stall, or the   *)
(* worker under the UI, with the file left alone.                          *)
(***************************************************************************)
EXTENDS WorkerUI

VARIABLE alone

liveVars == <<uiVars, alone>>

LiveInit == UIInit /\ alone \in BOOLEAN

Alone(step) == alone /\ step /\ recoveryCount' <= 1 /\ UNCHANGED <<uiState, history, alone>>
UnderUI(step) == ~alone /\ step /\ UNCHANGED <<file, alone>>

LiveNext == Alone(Next) \/ UnderUI(UINext)

\* The fairness of FairSpec and of UIFairSpec.
LiveSpec ==
    /\ LiveInit /\ [][LiveNext]_liveVars
    /\ \A g \in Goroutine : WF_liveVars(Alone(process(g)))
    /\ WF_liveVars(Alone(processLoop)) /\ WF_liveVars(Alone(attemptRecovery))
    /\ WF_liveVars(Alone(WatcherPublishes /\ ~pending'))
    /\ WF_liveVars(Alone(StartBegins \/ StartWatches \/ StartRefreshes \/ StopAfterFailedStart))
    /\ WF_liveVars(Alone(StopCancels \/ StopDropsSnapshot))
    /\ WF_liveVars(Alone(RefreshForRecipe))
    /\ WF_liveVars(UnderUI(WorkerStep /\ \E g \in Goroutine : process(g)))
    /\ WF_liveVars(UnderUI(WorkerStep /\ attemptRecovery))
    /\ WF_liveVars(UnderUI(WorkerStep /\ (StopCancels \/ StopDropsSnapshot)))
    /\ WF_liveVars(UnderUI(FinishSetRecipe))
    /\ \A w \in Waiter : WF_liveVars(UnderUI(WaiterReceives(w) \/ WaiterEnds(w)))
                      /\ WF_liveVars(UnderUI(Update(w)))

\* Once the file is left alone the worker ends up with its content, and stops
\* rebuilding (RunAgain, attemptRecovery).
AloneCatchesUp == alone => CatchesUp

\* Stop ends whatever it interrupts, with no goroutine left (Stop, processLoop).
AloneStopCompletes == alone => StopCompletes

\* A worker that gives up is detached by the UI: the terminal message gets past
\* whatever is in the mailbox and whoever waits (attemptRecovery, the waiter).
GivingUpIsSeen == ~alone => GivingUpReachesUI

=============================================================================
