------------------------------- MODULE FileWatch -------------------------------
(***************************************************************************)
(* What a client of pkg/watcher relies on: every change of the watched     *)
(* file after Start leads to a signal in the one-slot channel Changed(),   *)
(* unless the watcher is stopped or the file goes away first, and nothing  *)
(* of an earlier run is left after Stop.  Signals may be spurious: one     *)
(* change can be signalled more than once.                                 *)
(***************************************************************************)
VARIABLES
    missing,   \* the file is not there
    watching,  \* between Start and Stop
    pending,   \* a change has not been signalled yet
    changed    \* a signal is in the channel

watchVars == <<missing, watching, pending, changed>>

Init ==
    /\ missing \in BOOLEAN
    /\ watching = FALSE /\ pending = FALSE /\ changed = FALSE

FileWritten ==
    /\ missing' = FALSE
    /\ pending' = watching
    /\ UNCHANGED <<watching, changed>>

\* The watcher reports an error, not a change; a pending change may be forgotten
\* as long as the file is away.
FileRemoved ==
    /\ missing' = TRUE
    /\ pending' \in {pending, FALSE}
    /\ UNCHANGED <<watching, changed>>

Forget ==
    /\ missing /\ pending' = FALSE
    /\ UNCHANGED <<missing, watching, changed>>

Publish ==
    /\ watching /\ pending
    /\ pending' \in BOOLEAN
    /\ changed' = TRUE
    /\ UNCHANGED <<missing, watching>>

Receive ==
    /\ changed
    /\ changed' = FALSE
    /\ UNCHANGED <<missing, watching, pending>>

\* A new run, with the file as it is now for its baseline.
Start ==
    /\ ~watching
    /\ watching' = TRUE
    /\ UNCHANGED <<missing, pending, changed>>

Stop ==
    /\ watching' = FALSE /\ pending' = FALSE /\ changed' = FALSE
    /\ UNCHANGED missing

Next ==
    \/ FileWritten \/ FileRemoved \/ Forget
    \/ Publish \/ Receive \/ Start \/ Stop

Spec == Init /\ [][Next]_watchVars

=============================================================================
