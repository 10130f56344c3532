------------------------------ MODULE PreviewServer ------------------------------
(***************************************************************************)
(* pkg/export/preview.go: PreviewServer.StartWithGracefulShutdown runs     *)
(* Start in a goroutine and waits for it or for a signal, while others may *)
(* call Stop at any moment: before the server is published, between its    *)
(* publication and Serve, and while it serves.                             *)
(***************************************************************************)
EXTENDS Naturals

CONSTANTS
    Stopper       \* goroutines that call Stop once; the owner is not one of them

VARIABLES
    published,      \* p.server is set
    stopRequested,  \* p.stopRequested
    inShutdown,     \* http.Server.Shutdown or Close was called
    startPc,        \* the goroutine in Start
    stopping,       \* the calls of Stop
    serverOwner     \* StartWithGracefulShutdown

previewVars == <<published, stopRequested, inShutdown, startPc, stopping, serverOwner>>

Owner == "owner"
Caller == Stopper \cup {Owner}

PreviewInit ==
    /\ published = FALSE /\ stopRequested = FALSE /\ inShutdown = FALSE
    /\ startPc = "validate" /\ stopping = [c \in Caller |-> "idle"]
    /\ serverOwner = "select"

-----------------------------------------------------------------------------
\* An invalid bundle or a port in use ends Start at once.
Start ==
    /\ \/ startPc = "validate" /\ startPc' \in {"publish", "sent"}
       \/ startPc = "serve" /\ startPc' = IF inShutdown THEN "sent" ELSE "serving"
       \/ startPc = "serving" /\ inShutdown /\ startPc' = "sent"
    /\ UNCHANGED <<published, stopRequested, inShutdown, stopping, serverOwner>>

ServerFails ==
    /\ startPc = "serving" /\ startPc' = "sent"
    /\ UNCHANGED <<published, stopRequested, inShutdown, stopping, serverOwner>>

publishServer ==
    /\ startPc = "publish"
    /\ IF stopRequested THEN startPc' = "sent" /\ UNCHANGED published
       ELSE startPc' = "serve" /\ published' = TRUE
    /\ UNCHANGED <<stopRequested, inShutdown, stopping, serverOwner>>

requestStop(c) ==
    /\ stopping[c] = "idle"
    /\ c = Owner => serverOwner = "stopping"
    /\ stopRequested' = TRUE
    /\ stopping' = [stopping EXCEPT ![c] = IF published THEN "shutdown" ELSE "returned"]
    /\ UNCHANGED <<published, inShutdown, startPc, serverOwner>>

(* Shutdown, with Close when its deadline passes.                          *)
StopShutsDown(c) ==
    /\ stopping[c] = "shutdown" /\ inShutdown' = TRUE
    /\ stopping' = [stopping EXCEPT ![c] = "returned"]
    /\ UNCHANGED <<published, stopRequested, startPc, serverOwner>>

Signal ==
    /\ serverOwner = "select" /\ serverOwner' = "stopping"
    /\ UNCHANGED <<published, stopRequested, inShutdown, startPc, stopping>>

(* Either way the owner returns only after it took the result of Start.    *)
Joins ==
    /\ startPc = "sent"
    /\ \/ serverOwner = "select"
       \/ serverOwner = "stopping" /\ stopping[Owner] = "returned"
    /\ serverOwner' = "returned" /\ startPc' = "taken"
    /\ UNCHANGED <<published, stopRequested, inShutdown, stopping>>

PreviewStep ==
    \/ Start \/ publishServer \/ Joins \/ requestStop(Owner)
    \/ \E c \in Caller : StopShutsDown(c)

PreviewNext == PreviewStep \/ Signal \/ ServerFails \/ \E c \in Stopper : requestStop(c)

PreviewSpec == PreviewInit /\ [][PreviewNext]_previewVars

\* Goroutines run, Shutdown has a deadline and Close behind it.
PreviewFairSpec == PreviewSpec /\ WF_previewVars(PreviewStep)

-----------------------------------------------------------------------------
(* Whenever a signal or a Stop comes, also before there is a server, the   *)
(* owner and the goroutine in Start both end (publishServer, requestStop,  *)
(* StartWithGracefulShutdown).                                             *)
PreviewEnds == stopRequested ~> (serverOwner = "returned" /\ startPc = "taken")
=============================================================================
