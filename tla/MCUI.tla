---------------------------------- MODULE MCUI ----------------------------------
(***************************************************************************)
(* The TLC instance of the UI for safety: BackgroundWorker, WorkerUI and   *)
(* KeyRouting.  Three scopes of the first two, since one with every bound  *)
(* at its highest is too large: the worker alone, with a client of its     *)
(* own, three process() goroutines and a watcher that may fail to start;   *)
(* worker and UI without recoveries, where the file changes twice and      *)
(* every snapshot waits for Phase 2; and worker and UI with a recovery and *)
(* br updates, where the file changes once and Phase 2 is ready at once.   *)
(* The fourth scope is the keyboard, while the rest stands still.          *)
(***************************************************************************)
EXTENDS WorkerUI, KeyRouting, TLC

\* "alone", "recovery", "keys", or the one readable content of the file in a delivery.
VARIABLE scope

Symmetry == Permutations(Content \ {Unreadable}) \cup Permutations(Recipe)

Readable == Content \ {Unreadable}

ScopesInit ==
    /\ UIInit /\ RoutingInit
    /\ scope \in {"alone", "recovery", "keys"} \cup Readable
    /\ scope \in Readable => file.content = scope
    /\ IF scope = "keys" THEN file.content # Unreadable ELSE on = {}

\* The UI has ended, and leaves the worker to another client.
Alone ==
    /\ scope = "alone" /\ Next
    /\ file'.rev <= 1 /\ phase2' = {}
    /\ quit' = TRUE
    /\ UNCHANGED <<attached, shown, phase2Ready, lastAppliedSnapshotVer, lastWorkerGeneration,
                   waiter, history, routingVars, scope>>

\* Under the UI: two builds at a time, and watchers that start.
Narrow ==
    /\ \E g \in Goroutine : job'[g] = Free
    /\ startPc' = "failed" /\ startPc # "failed" => state = "stopped" \/ ctxDone
    /\ ~(recoveryPc = "restart" /\ recoveryPc' = "giveup")

\* UINext without BrUpdateDone.
DeliveryStep ==
    \/ WorkerStep
    \/ \E w \in Waiter : WaiterReceives(w) \/ WaiterEnds(w) \/ Update(w)
    \/ UpdateStartError \/ FinishSetRecipe
    \/ CtrlR \/ Quit \/ \E r \in Recipe : SetActiveRecipe(r)

Delivery ==
    /\ scope \in Readable /\ DeliveryStep /\ Narrow
    /\ recoveryCount' = 0 /\ file'.rev + requests' <= 2 /\ file'.content \in {scope, Unreadable}
    /\ ReadySent # {} => phase2' # phase2
    /\ UNCHANGED <<routingVars, scope>>

Recovery ==
    /\ scope = "recovery" /\ UINext /\ Narrow
    /\ file'.rev <= 1 /\ currentRecipe' = currentRecipe /\ phase2' = {} /\ ~quit'
    /\ UNCHANGED <<routingVars, scope>>

Keys == scope = "keys" /\ RoutingNext /\ UNCHANGED <<uiVars, scope>>

ScopesSpec ==
    ScopesInit /\ [][Alone \/ Delivery \/ Recovery \/ Keys]_<<uiVars, routingVars, scope>>

=============================================================================
