-------------------------------- MODULE WorkerUI --------------------------------
(***************************************************************************)
(* The TUI Model of pkg/ui/model.go as the client of one BackgroundWorker: *)
(* the standing waiter that receives the worker's messages, the handlers   *)
(* of Update that apply or reject them, and the user's requests.           *)
(*                                                                         *)
(* Update runs one handler at a time, so a handler is one step.  A waiter  *)
(* is a tea.Cmd goroutine: what it has received reaches Update some time   *)
(* later, and two waiters may be overtaken by each other.                  *)
(***************************************************************************)
EXTENDS BackgroundWorker

CONSTANTS
    Waiter,       \* slots for WaitForBackgroundWorkerMsgCmd goroutines: a bound
    FirstWaiter,  \* the slot of the waiter that Model.Init starts
    BrUpdates     \* whether the user edits issues through br

ASSUME UIConstantsAssumption == FirstWaiter \in Waiter /\ BrUpdates \in BOOLEAN

VARIABLES
    attached,                 \* m.backgroundWorker # nil
    shown,                    \* m.snapshot
    phase2Ready,              \* m.snapshot.phase2Ready
    lastAppliedSnapshotVer, lastWorkerGeneration,
    waiter,                   \* what each waiter is doing
    quit,                     \* Model.Stop has been called: no more updates
    \* history
    sentVer,      \* the highest version whose Ready has been sent
    overtaken,    \* the Ready of an older snapshot was sent after that of sentVer,
                  \* and nothing as new as sentVer has been applied since
    fenced        \* recovery found the worker's snapshot not yet shown, and
                  \* nothing has been applied since

uiState == <<attached, shown, phase2Ready, lastAppliedSnapshotVer,
             lastWorkerGeneration, waiter, quit>>
history == <<sentVer, overtaken, fenced>>
uiVars  == <<vars, uiState, history>>

Off       == [pc |-> "off"]
Waiting   == [pc |-> "waiting"]
Holding(msg) == [pc |-> "holding", msg |-> msg]

\* Model.Init starts the worker and one waiter concurrently.
UIInit ==
    /\ Init
    /\ attached = TRUE
    /\ shown = NoSnapshot /\ phase2Ready = FALSE
    /\ lastAppliedSnapshotVer = 0 /\ lastWorkerGeneration = 0
    /\ waiter = [w \in Waiter |-> IF w = FirstWaiter THEN Waiting ELSE Off]
    /\ quit = FALSE
    /\ sentVer = 0 /\ overtaken = FALSE /\ fenced = FALSE

-----------------------------------------------------------------------------
(* WaitForBackgroundWorkerMsgCmd *)

workerOnly == <<fileVars, state, refreshVars, generation, recoveryCount,
                currentRecipe, resultVars, phase2, loopVars, lifeVars, clientVars>>

\* Fault: a closed or empty channel is taken for a message.
WaiterReceivesNil(w) ==
    /\ waiter[w] = Waiting
    /\ waiter' = [waiter EXCEPT ![w] = Holding(mailbox)]
    /\ mailbox' = NoMessage
    /\ UNCHANGED <<workerOnly, attached, shown, phase2Ready, lastAppliedSnapshotVer,
                   lastWorkerGeneration, quit, history>>

WaiterReceives(w) ==
    /\ waiter[w] = Waiting /\ mailbox # NoMessage
    /\ waiter' = [waiter EXCEPT ![w] = Holding(mailbox)]
    /\ mailbox' = NoMessage
    /\ UNCHANGED <<workerOnly, attached, shown, phase2Ready, lastAppliedSnapshotVer,
                   lastWorkerGeneration, quit, history>>

\* Done is closed and the last drain finds nothing: the chain ends.
WaiterEnds(w) ==
    /\ waiter[w] = Waiting /\ mailbox = NoMessage /\ ctxDone
    /\ waiter' = [waiter EXCEPT ![w] = Off]
    /\ UNCHANGED <<vars, attached, shown, phase2Ready, lastAppliedSnapshotVer,
                   lastWorkerGeneration, quit, history>>

-----------------------------------------------------------------------------
(* Update *)

rejectWorkerGeneration(gen) == gen # generation \/ gen < lastWorkerGeneration

acceptWorkerGeneration(gen) ==
    lastWorkerGeneration' = IF gen > lastWorkerGeneration THEN gen ELSE lastWorkerGeneration

\* The event loop is free: no handler is inside SetRecipe, and it has not ended.
UpdateRuns == ~quit /\ ~recipeChanged

Delivered(w, kinds) ==
    UpdateRuns /\ waiter[w].pc = "holding" /\ waiter[w].msg.kind \in kinds

Rearm(w) == waiter' = [waiter EXCEPT ![w] = Waiting]

\* The pointer-identity fence of backgroundWorkerMsg: no re-arm.
UpdateDetached(w) ==
    /\ UpdateRuns /\ waiter[w].pc = "holding" /\ ~attached
    /\ waiter' = [waiter EXCEPT ![w] = Off]
    /\ UNCHANGED <<vars, attached, shown, phase2Ready, lastAppliedSnapshotVer,
                   lastWorkerGeneration, quit, history>>

\* Fault: no version fence.
IgnoresReadyByGeneration(msg) ==
    msg.snap = shown \/ rejectWorkerGeneration(msg.gen)

\* SnapshotReadyMsg is ignored: already shown, stale generation or version.
IgnoresReady(msg) ==
    \/ msg.snap = shown
    \/ rejectWorkerGeneration(msg.gen)
    \/ msg.snap.ver <= lastAppliedSnapshotVer

UpdateSnapshotReady(w) ==
    /\ attached /\ Delivered(w, {"ready"})
    /\ LET msg == waiter[w].msg
       IN IF IgnoresReady(msg)
          THEN UNCHANGED <<shown, phase2Ready, lastAppliedSnapshotVer,
                           lastWorkerGeneration, overtaken, fenced>>
          ELSE /\ lastAppliedSnapshotVer' = msg.snap.ver
               /\ acceptWorkerGeneration(msg.gen)
               /\ shown' = msg.snap
               /\ phase2Ready' = FALSE
               /\ overtaken' = (overtaken /\ msg.snap.ver < sentVer)
               /\ fenced' = FALSE
    /\ Rearm(w)
    /\ UNCHANGED <<vars, attached, quit, sentVer>>

\* Fault: a stale completion is dropped without waiting for the next message.
UpdatePhase2StaleEndsChain(w) ==
    /\ attached /\ Delivered(w, {"phase2"})
    /\ IF rejectWorkerGeneration(waiter[w].msg.gen) \/ shown # waiter[w].msg.snap
       THEN /\ waiter' = [waiter EXCEPT ![w] = Off]
            /\ UNCHANGED phase2Ready
       ELSE phase2Ready' = TRUE /\ Rearm(w)
    /\ UNCHANGED <<vars, attached, shown, lastAppliedSnapshotVer,
                   lastWorkerGeneration, quit, history>>

UpdatePhase2(w) ==
    /\ attached /\ Delivered(w, {"phase2"})
    /\ LET msg   == waiter[w].msg
           stale == \/ rejectWorkerGeneration(msg.gen)
                    \/ shown = NoSnapshot \/ shown # msg.snap
                    \/ msg.snap.ver # lastAppliedSnapshotVer
       IN IF stale
          THEN UNCHANGED <<phase2Ready, lastWorkerGeneration>>
          ELSE phase2Ready' = TRUE /\ acceptWorkerGeneration(msg.gen)
    /\ Rearm(w)
    /\ UNCHANGED <<vars, attached, shown, lastAppliedSnapshotVer, quit, history>>

UpdateError(w) ==
    /\ attached /\ Delivered(w, {"error"})
    /\ LET msg == waiter[w].msg
       IN IF rejectWorkerGeneration(msg.gen)
          THEN UNCHANGED lastWorkerGeneration
          ELSE acceptWorkerGeneration(msg.gen)
    /\ Rearm(w)
    /\ UNCHANGED <<vars, attached, shown, phase2Ready, lastAppliedSnapshotVer, quit, history>>

\* A terminal error detaches the worker, stops it and ends the waiter chain.
UpdateTerminalError(w) ==
    /\ attached /\ Delivered(w, {"terminal"})
    /\ LET msg == waiter[w].msg
       IN IF rejectWorkerGeneration(msg.gen)
          THEN /\ Rearm(w)
               /\ UNCHANGED <<vars, attached, lastWorkerGeneration>>
          ELSE /\ acceptWorkerGeneration(msg.gen)
               /\ attached' = FALSE
               /\ Stop
               /\ waiter' = [waiter EXCEPT ![w] = Off]
               /\ UNCHANGED <<fileVars, dirty, forceNext, job, generation,
                              recoveryCount, currentRecipe, resultVars, mailbox,
                              phase2, loopVars, startPc, recoveryPc, clientVars>>
    /\ UNCHANGED <<shown, phase2Ready, lastAppliedSnapshotVer, quit, history>>

\* backgroundWorkerStartErrorMsg.
UpdateStartError ==
    /\ UpdateRuns /\ attached /\ startPc = "over"
    /\ attached' = FALSE
    /\ UNCHANGED <<vars, shown, phase2Ready, lastAppliedSnapshotVer,
                   lastWorkerGeneration, waiter, quit, history>>

-----------------------------------------------------------------------------
(* The user *)

uiUnchanged == <<shown, phase2Ready, lastAppliedSnapshotVer, lastWorkerGeneration,
                 quit, history>>

\* Ctrl+R: a stopped worker is detached and the reload is synchronous.
CtrlR ==
    /\ UpdateRuns /\ attached
    /\ \/ state # "stopped" /\ RequestForce /\ UNCHANGED attached
       \/ state = "stopped" /\ attached' = FALSE /\ UNCHANGED vars
    /\ UNCHANGED <<uiUnchanged, waiter>>

\* brUpdateResultMsg: refresh, and one more waiter.
BrUpdateDone ==
    /\ UpdateRuns /\ attached /\ BrUpdates
    /\ RequestForce
    /\ \E w \in Waiter : waiter[w] = Off /\ waiter' = [waiter EXCEPT ![w] = Waiting]
    /\ UNCHANGED <<uiUnchanged, attached>>

SetActiveRecipe(r) ==
    /\ UpdateRuns /\ attached
    /\ setRecipe(r)
    /\ UNCHANGED <<uiUnchanged, attached, waiter>>

FinishSetRecipe ==
    /\ RefreshForRecipe
    /\ UNCHANGED <<uiUnchanged, attached, waiter>>

\* Model.Stop, when the program ends.
Quit ==
    /\ UpdateRuns
    /\ quit' = TRUE
    /\ IF attached
       THEN /\ Stop
            /\ UNCHANGED <<fileVars, dirty, forceNext, job, generation, recoveryCount,
                           currentRecipe, resultVars, mailbox, phase2, loopVars,
                           startPc, recoveryPc, clientVars>>
       ELSE UNCHANGED vars
    /\ UNCHANGED <<attached, shown, phase2Ready, lastAppliedSnapshotVer,
                   lastWorkerGeneration, waiter, history>>

-----------------------------------------------------------------------------
(* The worker's own steps; they touch nothing of the UI but the history *)

\* The Ready that this step sends, if it sends one.
ReadySent ==
    {job[g].msg.snap.ver : g \in {h \in Goroutine : /\ job[h].pc = "sending"
                                                  /\ job[h].msg.kind = "ready"
                                                  /\ job'[h] # job[h]}}

WorkerStep ==
    /\ Worker \/ Environment
    /\ sentVer' = IF \E v \in ReadySent : v > sentVer
                  THEN CHOOSE v \in ReadySent : v > sentVer ELSE sentVer
    /\ overtaken' = \/ overtaken
                    \/ /\ \E v \in ReadySent : v < sentVer
                       /\ lastAppliedSnapshotVer < sentVer
    /\ fenced' = (fenced \/ (generation' # generation /\ snapshot # shown))
    /\ UNCHANGED uiState

Update(w) ==
    \/ UpdateDetached(w) \/ UpdateSnapshotReady(w) \/ UpdatePhase2(w)
    \/ UpdateError(w) \/ UpdateTerminalError(w)

User ==
    \/ CtrlR \/ BrUpdateDone \/ Quit
    \/ \E r \in Recipe : SetActiveRecipe(r)

UINext ==
    \/ WorkerStep
    \/ \E w \in Waiter : WaiterReceives(w) \/ WaiterEnds(w) \/ Update(w)
    \/ UpdateStartError \/ FinishSetRecipe
    \/ User

UISpec == UIInit /\ [][UINext]_uiVars

\* The goroutines of the worker and of bubbletea run, and Update handles what it
\* is given; the user, the file and the timeouts owe nothing.
UIFairSpec ==
    /\ UISpec
    /\ WF_uiVars(WorkerStep /\ \E g \in Goroutine : process(g))
    /\ WF_uiVars(WorkerStep /\ attemptRecovery)
    /\ WF_uiVars(WorkerStep /\ (StopCancels \/ StopDropsSnapshot))
    /\ WF_uiVars(FinishSetRecipe)
    /\ \A w \in Waiter : WF_uiVars(WaiterReceives(w) \/ WaiterEnds(w))
                      /\ WF_uiVars(Update(w))

-----------------------------------------------------------------------------
(* Properties *)

UITypeOK ==
    /\ TypeOK
    /\ attached \in BOOLEAN /\ phase2Ready \in BOOLEAN /\ quit \in BOOLEAN
    /\ shown \in Snapshot \cup {NoSnapshot}
    /\ lastAppliedSnapshotVer \in Nat /\ lastWorkerGeneration \in Nat
    /\ waiter \in [Waiter -> {Off, Waiting} \cup [pc : {"holding"}, msg : Message]]
    /\ sentVer \in Nat /\ overtaken \in BOOLEAN /\ fenced \in BOOLEAN

\* What the user sees never goes back to an older state of the file, whatever
\* order waiters, builds of several generations and recoveries run in.
ShownNeverOlder ==
    [][shown # NoSnapshot => shown'.rev >= shown.rev /\ shown'.ver >= shown.ver]_uiVars

\* As long as the model has a running worker there is a waiter, or a message on
\* its way to a handler that re-arms: no path of Update drops the chain.
WaiterChainAlive ==
    attached /\ ~quit /\ state # "stopped" => \E w \in Waiter : waiter[w] # Off

\* Nothing is under way between the file and the screen.
UIQuiet ==
    /\ ~RefreshOwed
    /\ \A g \in Goroutine : job[g] = Free
    /\ mailbox = NoMessage
    /\ \A w \in Waiter : waiter[w].pc # "holding"
    /\ attached /\ ~quit /\ state # "stopped"

ShowsLatest == snapshot # NoSnapshot => shown = snapshot

\* The snapshot the worker holds reaches the screen: its Ready is neither
\* evicted from the mailbox by an error or a Phase 2 update nor lost between
\* waiter and handler.  The two ways it can be lost are the ones named here.
LatestShownUnlessOvertakenOrFenced ==
    UIQuiet /\ ~overtaken /\ ~fenced => ShowsLatest

\* The screen agrees with a readable file.
ShowsFile == file.content # Unreadable => /\ shown # NoSnapshot
                                          /\ shown.content = file.content
                                          /\ shown.recipe = currentRecipe

\* ForceRefresh "triggers immediate processing ... so the UI can deterministically
\* refresh even when the data is fresh" (background_worker.go:921): without a
\* recovery, once everything has settled the screen shows the file.
RefreshReachesScreen == UIQuiet /\ ~fenced => ShowsFile

\* "If recoverable, we'll try again on next file change" (model.go:3304): once the
\* file is readable again and everything has settled, the screen shows it.
RecoverableErrorRecovers == UIQuiet /\ ~overtaken => ShowsFile

\* A worker that gives up is detached: "it is the UI's signal to detach the
\* stopped worker" (background_worker.go:1949).
GivingUpReachesUI == recoveryPc = "giveup" ~> (~attached \/ quit)

=============================================================================
