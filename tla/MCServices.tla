------------------------------- MODULE MCServices -------------------------------
(***************************************************************************)
(* The TLC instance of the asynchronous services around the UI: the        *)
(* reload of the file by Update itself, the session lookup, the semantic   *)
(* index, the preview server and its live reload.  A behaviour is one of   *)
(* them; the others stay in an initial state.                              *)
(***************************************************************************)
EXTENDS SyncReload, SessionLookup, SemanticIndex, PreviewServer, LiveReload

VARIABLE service

servicesVars == <<reloadVars, lookVars, indexVars, previewVars, liveVars, service>>

\* What only one service begins in more than one way is pinned in the others.
ServicesInit ==
    /\ service \in {"sync", "lookup", "index", "preview", "reload"}
    /\ ReloadInit /\ LookInit /\ IndexInit /\ PreviewInit /\ LiveInit
    /\ service # "sync" => ~early
    /\ service # "lookup" => selected = CHOOSE b \in Bead : TRUE
    /\ service # "index" => {loaded.content, disk.content} = {CHOOSE c \in Issues : TRUE}

OnSync == service = "sync" /\ UNCHANGED <<lookVars, indexVars, previewVars, liveVars, service>>
OnLookup == service = "lookup" /\ UNCHANGED <<reloadVars, indexVars, previewVars, liveVars, service>>
OnIndex == service = "index" /\ UNCHANGED <<reloadVars, lookVars, previewVars, liveVars, service>>
OnPreview == service = "preview" /\ UNCHANGED <<reloadVars, lookVars, indexVars, liveVars, service>>
OnReload == service = "reload" /\ UNCHANGED <<reloadVars, lookVars, indexVars, previewVars, service>>

\* Bound: a second change of the bundle, or a second connection.
OneOrTheOther == bundle' > 1 => \A k \in Connection \ {1} : stream'[k] = ClosedStream

ServicesNext ==
    \/ OnSync /\ ReloadNext
    \/ OnLookup /\ LookNext
    \/ OnIndex /\ IndexNext
    \/ OnPreview /\ PreviewNext
    \/ OnReload /\ LiveNext /\ OneOrTheOther

\* The fairness of ReloadFairSpec, IndexFairSpec, PreviewFairSpec and LiveReloadFairSpec.
ServicesFairSpec ==
    /\ ServicesInit /\ [][ServicesNext]_servicesVars
    /\ WF_servicesVars(OnSync /\ ReloadStep)
    /\ WF_servicesVars(OnIndex /\ IndexStep)
    /\ WF_servicesVars(OnPreview /\ PreviewStep)
    /\ WF_servicesVars(OnReload /\ HubStep)
    /\ \A k \in Connection : WF_servicesVars(OnReload /\ SSEHandler(k))

\* The type invariants of the services.
ServicesTypeOK == ReloadTypeOK /\ LookTypeOK /\ IndexTypeOK /\ LiveTypeOK

(* A file that can be read reaches the screen, and then Phase 2 of its     *)
(* analysis; a search that is on gets the index of the issues              *)
(* (FileChangedMsg, preparePhase2Cmd, startSemanticIndexBuild).            *)
DataArrive == ScreenCatchesUp /\ Phase2Arrives /\ SearchGetsItsIndex

(* Neither the index file nor the screen goes back to older issues         *)
(* (semanticIndexSaver, SnapshotReadyMsg).                                 *)
NothingGoesBack == FileNeverGoesBack /\ ScreenGoesForward

(* Whoever stops the preview, whenever, everything of it ends: the server's*)
(* goroutine and its owner, the hub and every handler of an event stream.  *)
PreviewsEnd == PreviewEnds /\ ShutdownIsGraceful

=============================================================================
