----------------------------- MODULE SemanticIndex -----------------------------
(***************************************************************************)
(* The vector index of the semantic search: commands load it from disk and *)
(* bring it up to date for the loaded issues, Update accepts what is still *)
(* current and lets one save after the other write it back, while datasets *)
(* are replaced, the user switches the search off and on, and builds and   *)
(* saves fail.  The index of a dataset is identified with its content.     *)
(***************************************************************************)
EXTENDS Naturals

CONSTANTS
    Issues,       \* what the loaded issues may be
    MaxDatasets,  \* bound: datasets loaded
    MaxToggles,   \* bound: presses of ctrl+s
    MaxFailures   \* bound: builds and saves that fail

ASSUME IndexAssumption == MaxDatasets \in Nat \ {0} /\ MaxToggles \in Nat /\ MaxFailures \in Nat

VARIABLES
    loaded,     \* the issues, with their semanticDataGeneration
    enabled,    \* semanticSearchEnabled
    fence,      \* semanticIndexBuilding, semanticIndexBuildGen, semanticIndexBuildData
    index,      \* what the search uses: the accepted build, or NoBuild
    builds,     \* BuildSemanticIndexCmd goroutines and their messages
    active, pending,   \* semanticIndexSaveActive, semanticIndexSavePending
    saving,     \* the goroutine of the active save
    disk,       \* the index file
    toggles, failures,
    accepted    \* history: the newest build that was accepted

indexVars == <<loaded, enabled, fence, index, builds, active, pending, saving, disk,
               toggles, failures, accepted>>

NoBuild == [data |-> 0, gen |-> 0]

IndexInit ==
    /\ \E c \in Issues : loaded = [data |-> 1, content |-> c]
    /\ \E c \in Issues : disk = [data |-> 0, gen |-> 0, content |-> c]
    /\ enabled = FALSE /\ fence = [building |-> FALSE, gen |-> 0, data |-> 0]
    /\ index = NoBuild /\ builds = {} /\ active = NoBuild /\ pending = NoBuild
    /\ saving = "none" /\ toggles = 0 /\ failures = 0 /\ accepted = NoBuild

-----------------------------------------------------------------------------
\* The command of one build: what it was started for, and whether what it read
\* from the disk was already the index of these issues.
Build(l, gen) == [data |-> l.data, content |-> l.content, gen |-> gen, at |-> "queued", changed |-> TRUE]

Runs(f, l) == f.building /\ f.data = l.data

startSemanticIndexBuild(f, l) ==
    IF Runs(f, l)
    THEN fence' = f /\ UNCHANGED builds
    ELSE /\ fence' = [building |-> TRUE, gen |-> f.gen + 1, data |-> l.data]
         /\ builds' = builds \cup {Build(l, f.gen + 1)}

Abandoned(f) == [building |-> FALSE, gen |-> f.gen + 1, data |-> 0]

\* Fault: the old index stays in use until the next one is there.
IndexStays(old) == old

IndexDropped(old) == NoBuild

(* beginSemanticDatasetUpdate, then the rest of the handler of a snapshot. *)
DatasetReplaced ==
    /\ loaded.data < MaxDatasets
    /\ \E c \in Issues :
          LET l == [data |-> loaded.data + 1, content |-> c]
          IN  /\ loaded' = l
              /\ IF enabled THEN startSemanticIndexBuild(Abandoned(fence), l)
                 ELSE fence' = Abandoned(fence) /\ UNCHANGED builds
    /\ index' = IndexDropped(index) /\ pending' = NoBuild
    /\ UNCHANGED <<enabled, active, saving, disk, toggles, failures, accepted>>

ToggleOn ==
    /\ ~enabled /\ toggles < MaxToggles /\ toggles' = toggles + 1
    /\ enabled' = TRUE
    /\ IF index = NoBuild THEN startSemanticIndexBuild(fence, loaded) ELSE UNCHANGED <<fence, builds>>
    /\ UNCHANGED <<loaded, index, active, pending, saving, disk, failures, accepted>>

ToggleOff ==
    /\ enabled /\ toggles < MaxToggles /\ toggles' = toggles + 1
    /\ enabled' = FALSE
    /\ fence' = Abandoned(fence)
    /\ UNCHANGED <<loaded, index, builds, active, pending, saving, disk, failures, accepted>>

-----------------------------------------------------------------------------
(* BuildSemanticIndexCmd: reads the file, then embeds what has changed.    *)
LoadOrNewVectorIndex(b) ==
    /\ b.at = "queued"
    /\ builds' = (builds \ {b}) \cup {[b EXCEPT !.at = "loaded", !.changed = disk.content # b.content]}
    /\ UNCHANGED <<loaded, enabled, fence, index, active, pending, saving, disk, toggles,
                   failures, accepted>>

\* Fault: the result of any build is taken.
AcceptsEveryBuild(b) == TRUE

AcceptsBuild(b) == b.data = loaded.data /\ b.data = fence.data /\ b.gen = fence.gen

Accepted == [fence EXCEPT !.building = FALSE, !.data = 0]

(* One save at a time; a newer request takes the place of a waiting one.   *)
queueSemanticIndexSave(request) ==
    IF active # NoBuild
    THEN pending' = request /\ UNCHANGED <<active, saving>>
    ELSE active' = request /\ saving' = "writing" /\ UNCHANGED pending

MustSave(b) == b.changed \/ active # NoBuild

SemanticIndexReadyMsg(b) ==
    /\ b.at = "loaded"
    /\ builds' = builds \ {b}
    /\ IF ~AcceptsBuild(b) THEN UNCHANGED <<fence, index, active, pending, saving, accepted>>
       ELSE /\ fence' = Accepted
            /\ index' = b /\ accepted' = b
            /\ IF MustSave(b) THEN queueSemanticIndexSave(b)
               ELSE UNCHANGED <<active, pending, saving>>
    /\ UNCHANGED <<loaded, enabled, disk, toggles, failures>>

\* No embedder, an unreadable file, a timeout: back to the fuzzy search.
IndexBuildFails(b) ==
    /\ failures < MaxFailures /\ failures' = failures + 1
    /\ builds' = builds \ {b}
    /\ IF AcceptsBuild(b) THEN fence' = Accepted /\ enabled' = FALSE
       ELSE UNCHANGED <<fence, enabled>>
    /\ UNCHANGED <<loaded, index, active, pending, saving, disk, toggles, accepted>>

-----------------------------------------------------------------------------
(* The save writes a temporary file and renames it.                        *)
SaveWrites ==
    /\ saving = "writing" /\ saving' = "written"
    /\ disk' = [data |-> active.data, gen |-> active.gen, content |-> active.content]
    /\ UNCHANGED <<loaded, enabled, fence, index, builds, active, pending, toggles, failures, accepted>>

SaveFails ==
    /\ saving = "writing" /\ saving' = "failed"
    /\ failures < MaxFailures /\ failures' = failures + 1
    /\ UNCHANGED <<loaded, enabled, fence, index, builds, active, pending, disk, toggles, accepted>>

IsCurrent(request) == request.data = loaded.data /\ request.gen = fence.gen

StartsNext == TRUE

(* finishSemanticIndexSave: the waiting save begins if it is still current.*)
semanticIndexSaveDoneMsg ==
    /\ saving \in {"written", "failed"}
    /\ enabled' = (enabled /\ ~(saving = "failed" /\ IsCurrent(active)))
    /\ IF StartsNext THEN pending' = NoBuild ELSE UNCHANGED pending
    /\ IF StartsNext /\ pending # NoBuild /\ IsCurrent(pending)
       THEN active' = pending /\ saving' = "writing"
       ELSE active' = NoBuild /\ saving' = "none"
    /\ UNCHANGED <<loaded, fence, index, builds, disk, toggles, failures, accepted>>

IndexStep ==
    \/ \E b \in builds : LoadOrNewVectorIndex(b) \/ SemanticIndexReadyMsg(b)
    \/ SaveWrites \/ semanticIndexSaveDoneMsg

IndexNext ==
    \/ IndexStep \/ DatasetReplaced \/ ToggleOn \/ ToggleOff
    \/ SaveFails \/ \E b \in builds : IndexBuildFails(b)

IndexSpec == IndexInit /\ [][IndexNext]_indexVars

(* Commands run to their end and Update takes their messages.              *)
IndexFairSpec == IndexSpec /\ WF_indexVars(IndexStep)

-----------------------------------------------------------------------------
IndexTypeOK ==
    /\ loaded.data \in 1 .. MaxDatasets /\ fence.data \in {0, loaded.data}
    /\ fence.building => \E b \in builds : b.gen = fence.gen /\ b.data = loaded.data
    /\ (saving = "none") <=> (active = NoBuild)
    /\ pending # NoBuild => active # NoBuild
    /\ enabled \in BOOLEAN

(* The search never uses vectors of other issues than the loaded ones, at  *)
(* whatever time the builds of earlier datasets, or of before the search   *)
(* was switched off, report (SemanticIndexReadyMsg).                       *)
IndexIsOfLoadedIssues == index # NoBuild => index.data = loaded.data

(* The file only ever moves on to a later build: a slow save is never      *)
(* written over a newer one (queueSemanticIndexSave).                      *)
FileNeverGoesBack ==
    [][disk' # disk => disk'.gen > disk.gen /\ disk'.data >= disk.data]_indexVars

(* With the search on, the index of the loaded issues is in use at last,   *)
(* or a failure switched the search off (startSemanticIndexBuild).         *)
SearchGetsItsIndex == enabled ~> (~enabled \/ index # NoBuild)

(* model.go:2511: a newer accepted build is always the final disk write.   *)
FileIsNewestAccepted ==
    active = NoBuild /\ accepted # NoBuild /\ accepted.data = loaded.data /\ failures = 0 =>
        disk.content = accepted.content
=============================================================================
