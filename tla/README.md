# bv in TLA+

A verification project for `bv` (beads-viewer-edit), the terminal viewer and
editor for the issue file `.beads/issues.jsonl`. It models the parts of the
program in which goroutines, processes, timers, files and messages meet, and the
pure algorithms whose results a test can hardly judge; checks them with TLC on
small instances; and proves the most important properties with TLAPS for every
value of the constants.

Line numbers refer to the Go sources. `PROJECT.json` maps every definition to
the lines it models, lists the hazards each property is aimed at, and gives for
every checked property a plausible bug (a *mutant*) under which it fails. The
bugs are operators of the modules whose comment begins with `Fault:`; no
specification uses them.

Contents: [the system](#1-the-system) · [the modules](#2-the-modules-and-the-code) ·
[the runs](#3-the-runs) · [fairness](#4-fairness) · [the proofs](#5-the-proofs) ·
[findings](#6-where-the-code-and-its-comments-disagree) ·
[what is left out](#7-not-modelled) · [the plan](#8-plan)

## 1. The system

`bv` loads issues from one of several sources, analyses their dependency graph
and shows them in a Bubble Tea TUI that reloads whenever the file changes. Agents
and the `br` command line write the file concurrently, so everything between the
file and the screen is asynchronous:

```
   issues.jsonl ──fsnotify / poll──> Watcher ──Changed()──┬─> BackgroundWorker ──Messages()──> waiter ─┬─> Model.Update ──> screen
   (br, agents)                      debounce             │      build, Phase 2                        │     │  │  │
        ^                                                 │      watchdog, recovery                    │     │  │  └─ tree, lists, modals
        │                                                 └─> waiter (default mode, no worker) ────────┘     │  │
        └──── br update/create/delete <── editor sessions, pickers <─────────────────────────────────────────┘  │
   .bv.lock <── instance.NewLock / Release        AGENTS.md <── pkg/agents        semantic index <── commands ──┤
   bv binary <── PerformUpdate, Rollback          history caches <── pkg/correlation   cass <── lookups ────────┘
   export bundle ──fsnotify──> live-reload hub ──SSE──> browser
```

### Inventory

| Component | State | Operations | Interacts through | Hard behaviour | What makes it correct | Module |
|---|---|---|---|---|---|---|
| **Instance lock** `pkg/instance` | lock file (owner id, pid), `isFirst`, `pid` | `NewLock`, `checkStale`, `takeOverStaleLock`, `Release` | the file system, other bv processes | check-then-act on a path; crash between create and write; dead holder | one primary; a clean exit leaves no lock unless its removal failed; a stale lock is recovered | `InstanceLock` |
| **File watcher** `pkg/watcher` | `started`, `runGeneration`, last stat, debouncer `seq` and timer, `changeCh` | `Start`, `Stop`, two producers, `scheduleChange`, `notifyChange` | fsnotify, timers, one-slot channel | goroutines and fired timers of a stopped run outlive it | every change of the current run is signalled; nothing of an earlier run is | `Watcher`, `FileWatch` |
| **Background worker** `pkg/ui/background_worker.go` | `state`, `dirty`, `processScheduled`, `forceNext`, `generation`, `snapshot`, recipe, `msgCh` | `Start`, `Stop`, `TriggerRefresh`, `ForceRefresh`, `SetRecipe`, `process`, `send`, `runPhase2Analysis`, `processLoop`, `attemptRecovery` | watcher, mailbox, UI calls | builds that time out and finish later; Stop overtaking Start or a recovery; results sent outside the lock | no change lost; one accepted build; the snapshot never goes back; a stopped worker stays down | `BackgroundWorker` |
| **UI as the worker's client** `pkg/ui/model.go` | `snapshot`, `lastAppliedSnapshotVer`, `lastWorkerGeneration`, standing waiter | waiter, message handlers, Ctrl+R, `SetRecipe`, `Stop` | mailbox, calls into the worker | one waiter chain that every path must re-arm; late, stale, reordered messages | the screen never goes back; the chain never breaks; the latest snapshot is shown | `WorkerUI` |
| **Live reload without a worker** `pkg/ui/model.go` (the default mode) | what is loaded, analysed and shown, Phase 2 in preparation, standing waiters | `FileChangedMsg`, `preparePhase2Cmd`, `phase2ReadyMsg`, Ctrl+R, background mode on and off | `FileWatch`, commands, the worker | a Phase 2 of an older load; statistics shared by two loads; failed loads | what is shown belongs together; every file reaches the screen | `SyncReload` |
| **Human edit workflow** `pkg/ui/human_edit.go` | `pendingEdit`, markdown files, br commands in flight | open, poll, apply, exit, cancel, pickers | `br`, an editor, other writers | ticks, an old baseline, refused updates, two sessions | only what the human changed is written; saves are applied; only untouched stubs are deleted | `HumanEdit` |
| **Agent file editing** `pkg/agents` | AGENTS.md, inode locks | lock, read, verify, replace | other bv versions, editors | file changed between read and rename | no concurrent edit is overwritten; the name always holds a whole file | `AgentFile` |
| **Updater** `pkg/updater` | binary, backup, temporary file | `PerformUpdate`, `copyFile`, `Rollback` | file system | crash or failure between two renames | a working binary is always recoverable; outcomes are true | `Updater` |
| **Correlation caches** `pkg/correlation` | two cache files | `GenerateReportCached`, put, evict | git, flock, other processes | HEAD moves during an extraction; crash inside a rewrite | a cached report is the caller's own; calls end | `HistoryDisk` |
| **cass integration** `pkg/cass` under `pkg/ui` | probe cache, correlator and its cache, lookup in flight, modal | `V`, detector, correlator, results, cancel | subprocess, selection, reloads | results of an earlier selection or dataset; cut-off searches | the modal is for the selection; nothing incomplete is cached | `SessionLookup` |
| **Semantic search** `pkg/ui/semantic_search.go` | index, builds, saves | build, accept, save, ctrl+s | file, goroutines | results of an older dataset; saves overtaking each other | the index is of the loaded issues; the file never goes back | `SemanticIndex` |
| **Preview server, live reload** `pkg/export` | server, clients, channels, debounce | `Start`, `Stop`, watch loop, SSE handler | HTTP clients, fsnotify | channels closed while a send is under way; Stop before Start | no send on a closed channel; all of it ends | `PreviewServer`, `LiveReload` |
| **Issue readiness** `pkg/model/readiness.go` | states, work queue | `NewReadinessIndex`, `ReadyAfter`, `Blockers` | | parents in any order, cycles, missing issues | agrees with its definition | `Readiness` |
| **Planning** `pkg/analysis` plan, triage context, insights | | plan and tracks, unblocks, chains, depths, top-k | readiness | transitive unblocking, cycles | agrees with its definition | `Planning` |
| **Graph analysis** `pkg/analysis` | the graph | heights, slack, k-core, cuts, cycles, longest paths, cover | | index arithmetic, cycles | agrees with its definition | `GraphMetrics` |
| **Views and navigation** `pkg/ui` | the tree's nodes, folds, cursor, window; the focus, and a boolean for every view, overlay and input | keys, folds, rebuilds; who gets a key, what is drawn | reloads, a state file, clicks, messages that open a window | parents in cycles, several nodes of an issue, reloads under the cursor; windows over windows | every issue is there; cursor and window agree; selection and folds survive; the window on the screen gets the keys; esc leads out | `TreeView`, `KeyRouting` |
| Datasources, hooks, analysis caches, correlation algorithms, loader, snapshots, other views, exporters, recipes, metrics, command line, vendored code | sequential or immutable data, or I/O | | | | see [not modelled](#7-not-modelled) | |

### How the components interact

* The worker owns a `Watcher`. It receives from `Changed()` in `processLoop`, and
  starts and stops the watcher in `Start`, `Stop` and `attemptRecovery`.
* `process()` runs in goroutines of its own. `TriggerRefresh` starts one when the
  worker is idle and none is scheduled; otherwise it sets `dirty`.
* Recovery increments `generation`. The hung build is not killed: its result is
  fenced off by the generation it captured.
* The worker publishes into `msgCh`, which holds one message. `send()` refuses
  stale messages and ranks the others: terminal error, Ready, error, Phase 2.
* One tea.Cmd goroutine, the *standing waiter*, takes a message out and hands it
  to `Update`; the handler applies or ignores it and starts the next waiter.
* Without a worker (the default) a command waits for the watcher itself, and
  `Update` reloads the file on the event loop. A reload that was slow makes
  `Update` start a worker; one that fails to start is detached again.
* Every reload replaces the dataset: it drops the session correlator, the semantic
  index and their results in flight, and rebuilds the open tree.
* Editor sessions, pickers and the title editor run `br`, which writes the file, so
  an edit comes back through the watcher like anybody else's.

## 2. The modules and the code

| Module | Role |
|---|---|
| `InstanceLock` | the lock file protocol between processes |
| `FileWatch` | abstract: what a client of the watcher may rely on |
| `Watcher` | the watcher and its debouncer; implements `FileWatch` |
| `BackgroundWorker` | the worker with its threads, and a most general client |
| `WorkerUI` | the UI composed with the worker; implements `BackgroundWorker` |
| `SyncReload` | the default mode: `Update` over an `INSTANCE` of `FileWatch`, and the way to and from a worker |
| `HumanEdit` | editor sessions against `br` and other writers |
| `AgentFile`, `Updater`, `HistoryDisk` | files shared by processes that crash |
| `SessionLookup`, `SemanticIndex` | goroutines whose results come back to a UI that has moved on |
| `PreviewServer`, `LiveReload` | the preview of an export and its event streams |
| `Readiness`, `Planning`, `GraphMetrics` | algorithms compared with their definitions |
| `TreeView` | the tree under keys, resizes, reloads and restarts |
| `KeyRouting` | who gets a key and what is drawn: views, overlays, inputs |
| `MCFiles`, `MCWorkerLive`, `MCUI`, `MCIssues`, `MCServices`, `MCWorkerUI`, `MCInstanceLock` | instances for TLC |
| `BackgroundWorkerProofs`, `WorkerUIProofs`, `KeyRoutingProofs`, `TreeViewProofs` | the theorems about the module of the name |
| `FilesProofs` | theorems: lock, watcher, AGENTS.md, updater, history caches, and the types of everything in the run `files` |
| `ServicesProofs` | theorems: default-mode reload, session lookup, semantic index, live reload |
| `PlanningProofs` | theorems: readiness and what is planned from it |
| `IssuesProofs` | theorems: edit workflow, and the parts of the run `issues` together |

**InstanceLock.** A member of `Proc` is one run of bv, with one pid and one owner
id. Each file-system call is a step: `CreateExclusive` is the `O_EXCL` open,
`WriteLockInfo` the JSON write, `ReadExisting` and `Reread` the two reads of an
existing lock, `CheckHolder` the pid lookup, `StatUnreadable` the age test,
`Rename` and `Verify` the takeover, `Release` and `Remove` the two halves of
`Release`. `file.by` is the creator, standing for inode, pid and owner id at
once; `readable` says that the JSON is there, `aged` that
`unreadableLockTakeoverAge` has passed. A process may crash between any two
calls; with `IOFaults` a write, a takeover or a removal may fail, the removal in `Release` as
well as the one after a failed write (`RemovePath`). `unremoved` is a history variable: the
processes that could not remove their lock. Pids are not reused.

**Watcher.** `rev` stands for mtime and size. A run is one `Start`; its goroutine
is `run[g]` and may still be anywhere in its code after `Stop`. `StartStats` and
`StartLaunches` are the two halves of `Start`, which holds `w.mu` in between
(`starting`), so that the file may be written between the baseline stat and the
moment fsnotify watches. `timers` are the debouncer's callbacks that have not
finished: `armed` ones can be stopped, later ones cannot. `Trigger` and `Cancel`
advance `seq`; `CheckSeq`, `Admit` and `Publish` are the callback's look at `seq`
and its two looks at the generation, around the user's `onChange`.

**BackgroundWorker.** A step is one critical section of `w.mu` or of `sendMu`, or
one read of the file. `job[g]` is what a `process()` goroutine is doing, with its
locals: `BeginProcess` is the first critical section, `LoadIssues` the read,
`CommitSnapshot` the second critical section with dedup and fence, `SendResult`
the send and the start of `runPhase2Analysis`, `RunAgain` the recursion on `dirty`.
`Start`, `Stop` and `attemptRecovery` have program counters (`startPc`, `stopPc`,
`recoveryPc`) because each releases the lock between its sections. A snapshot is
its version, the revision and content of the file, and the recipe; `Unreadable`
is the content that `loadIssuesForReload` rejects. The watcher appears as
`FileWatch` describes it, with the file in place: `pending` is a change not yet
signalled, `Resignals` the liberty to signal one change twice. The file is never
deleted here, since the watcher does not report that as a change; a recovery's
restart of the watcher is `Stop` followed by `Start` of `FileWatch`. `Client` is
everything a client may do.

**WorkerUI.** `WorkerUI` EXTENDS `BackgroundWorker` and replaces `Client` by the
UI: each message handler of `Update` is one step because `Update` is one
goroutine (`UpdateRuns`), except `SetRecipe`, whose two critical sections are
`SetActiveRecipe` and `FinishSetRecipe`. A waiter is `Off`, `Waiting` or
`Holding` a message that has not reached `Update`. `UpdateDetached` is the fence
that drops messages of a worker the model has let go. `brUpdateResultMsg` starts
a second waiter, see [findings](#6-where-the-code-and-its-comments-disagree).
`sentVer`, `overtaken` and `fenced` are history variables: no guard reads them.

**SyncReload.** The watcher is an INSTANCE of `FileWatch`, so what is shown rests
on the contract `Watcher` is checked against and not on its code. A handler of
`Update` is one step, except the reload, which is two, since the file may change
between the read and the end of the handler. Of the worker only what it hands to
`Update` is left (`BackgroundWorker` and `WorkerUI` have the rest). A load that
fails is a missing file. `early` marks a write between main's load and the
watcher's baseline (line 1851), which nothing repairs until the next change.
Every `FileChangedMsg` that a waiter did not bring (Ctrl+R, edits) adds a waiter,
which is harmless: several wait on the same channel. After a worker is detached
nothing waits for the watcher any more, and only Ctrl+R and edits reload.

**HumanEdit.** `mdFile` are the markdown files editors write, `pendingEdit` the
polled session, `ticks` the scheduled `pollEditMsg`s; `execing` is the session
for which the event loop is suspended in the synchronous mode. `br` is what br
stores and `shown` what the UI last loaded. `DiffSnapshots` yields the changed
fields; `BrUpdate` writes only those. An editor works on the file as it is on
disk; no key is handled between an editor's exit and its message; opening a
session is one step. A field emptied in the labels means "unchanged" as in the
code, and the repo is never sent. `reopened` is a history variable.

**AgentFile.** A name and the inodes it has pointed to. `flock` is on the inode
that was opened, so a process may hold the lock of a file that is no longer
named; `CreateReplacement` and `WriteReplacement` are the temporary file,
`Unchanged` is the verification just before the rename. The editor takes no lock and
saves in place or by rename. The gap between the last verification and the
rename is real, and `NoEditLostOutsideGap` says that it is the only one.

**Updater.** `files` says what is at the binary's path, the backup, the rejected
binary's (`.bad`) and the download: nothing, a partial or corrupt file, or the old
or new binary. Every rename may fail, every copy may stop half way
and the process may die between any two steps; `PerformUpdate` and `Rollback` are
run any number of times in sequence.

**HistoryDisk.** A call of `GenerateReportCached` goes through `CallStep`: look up
the report, then the history, else extract with several git commands between
which HEAD moves, check HEAD, then rewrite both files under `flock`. A rewrite
truncates first, so a crash leaves an empty file. `PutFails` is a rewrite that cannot be
written after the truncation: the process goes on, as the caller ignores the error, and what
was stored in that file is gone.

**SessionLookup, SemanticIndex.** Commands run in goroutines and come back as
messages with the request, the generation or the dataset they were started for.
What `Update` does with a result is one step; probes, searches, builds and saves
are several. A search that runs out of its budget fails with or without matches (`SearchEnds`);
what it found is shown and not cached. An index is identified with the content it was built from.

**PreviewServer, LiveReload.** Each goroutine has its program counter: `Start`,
the waiter of `StartWithGracefulShutdown`, those who `Stop`; the hub's watch loop
with its sends, `Stop` with its closes, one handler per connection. The script in
the browser reloads on an event and reconnects.

**Readiness, Planning, GraphMetrics.** The issues (or the graph) are any within the
bounds. The index is computed in steps because its queue is filled from a Go map
and any order must give the same states; everything else is an operator,
evaluated and compared with a definition in set theory. An issue is open (or in progress),
parked (any other status between open and closed, or deferred; the instant does not
change), closed, or missing; `candidate` says whether the output may hold it (`IsCandidate`). The recursive walks of the code
(`ReadyAfter`, blocker depths, the search for the chain) are functions on their calls: the
issue, who is being visited, and the memo that all calls share. `TopologicalOrders` and
`Components` are the two functions of gonum, vendored under `src/vendor`, and yield any result
that its order of visits allows.

**TreeView.** A node is the path of issues from its root, since an issue with two
parents has two nodes; a path that comes back to an issue is cut. `nodes` is the set
of the paths, built level by level; `Before` is the order of a depth-first walk, in which
`Flat` lists the visible ones; `offset` and `height` the window, `lines` what is rendered.
Every frame that shows the tree sets the height to that (`model.go:6483`), after each step, so
that the height one line less which `E` and a reload set counts only when the reload comes while
the help is over the tree. `place` is the tree, covered by the help or by the window of the sessions, or
elsewhere: under the help a reload rebuilds the tree, under the sessions it does not. `stored` is `tree-state.json`. `source` tells the three ways in which the
tree is built apart: a snapshot with the tree, a snapshot of a large dataset
without, and the issues themselves when there is no worker.

**KeyRouting.** `focused` is the field of `Model`; `on` is the set of the names of
all booleans that are true (`showHelp`, `isBoardView`, the list's filter being
typed, ...). `Layers` is the order in which `Update` offers a key, `Takes` the
condition of each, and a handler says with `Becomes` what focus, what booleans it
sets and clears; `Drawn` is the order of `renderMainView`. A view keeps some keys
(`Claims`), the others change view. `Key` holds one key of each kind: those that move a
cursor, edit a text or do the same as one that is there are left out. Messages come at
any moment, except that the two that open a window come only while `escs = 0`.
`escs` is history.

## 3. The runs

Independent components share a run: its MC module has a variable that says which
one a behaviour is about, the others stay in an initial state. A behaviour is
therefore one of the component's own, and the state counts add up.

| Run | Instance | What it shows |
|---|---|---|
| `files` | lock: 3 processes, crashes, I/O faults; watcher: both modes, 2 writes, 1 removal, 2 runs; AGENTS.md: an old and a new bv and an editor; updater: 3 runs, 4 faults; history: 2 callers, 2 moves of HEAD, crashes, failing writes. 231 000 states | lock: before a takeover there is one primary (`OnePrimaryUntilTakeover`), a clean exit leaves no lock unless the removal failed (`CleanExitLeavesNoLock`), a stale lock is recovered (`StaleLockRecovered`). Watcher: implements `FileWatch` (`Contract`), signals a change once writing pauses (`ChangeIsSignalled`). AGENTS.md: `AgentsFileSurvives`, `NoDowngrade`. Updater: a binary is always recoverable and outcomes are true (`UpdatesKeepTheirWord`). History: cached reports are the caller's own and entries are lost only to eviction, a crash or a failing write (`HistoryIsCachedTruly`), calls end (`CallsEnd`) |
| `worker_live` | 2 goroutines, 1 write, 2 timeouts, watcher faults, Phase 2; alone and under the UI. 252 000 states | the worker catches up with the file and rests (`AloneCatchesUp`); a Stop is completed (`AloneStopCompletes`); the UI detaches a worker that gives up (`GivingUpIsSeen`) |
| `ui` | four scopes: the worker alone (3 goroutines, watcher faults, 1 recovery), delivery (2 writes, no recovery), recovery (1 write, br updates, 2 waiters), keys (2 windows, views or inputs open). 1.9 million states | `OneBuilder`, `NoRefreshLost`, `StoppedStaysDown`, `SnapshotNeverOlder`; the waiter chain lives (`WaiterChainAlive`), the worker's snapshot reaches the screen (`LatestShownUnlessOvertakenOrFenced`), which never goes back (`ShownNeverOlder`); the window on the screen gets the keys (`KeysAreRouted`), and five presses of esc lead out of anything (`EscLeadsOut`) |
| `issues` | edit: 2 issues, 2 fields, 2 sessions, 4 events; readiness and plan: 3 issues, 4 dependencies, parked issues and non-candidates together; graphs of 4 nodes (undirected 5); tree: 3 forests of 4 issues, 1 reload or restart. 571 000 states | `EditsAreTheHumans`, `DeletesOnlyUnchangedStub`, `SavesAreApplied`; readiness and plans are those of their definitions (`PlansAreTrue`), metrics too (`MetricsAreExact`); `TreeIsSound`, `SelectionIsKept` |
| `services` | default-mode reload: 2 writes, 1 key; lookups: 2 beads, 2 requests; index: 3 datasets, 1 failure; preview: 2 stoppers; live reload: 1 page, 2 connections. 844 000 states | `ShownTogether`, `LookupsAnswerTheirBead`, `IndexIsOfLoadedIssues`, `NothingGoesBack`; what is loaded reaches screen, analysis and search (`DataArrive`); `NoSendOnClosed`, `PreviewsEnd` |
| `instance_lock_race`, `ui_overtaken`, `ui_error_retry`, `human_edit_buffer`, `history_head_returns`, `index_save_order`, `live_reload_burst` | the smallest that show it | findings 1 to 7 |

**Why the bounds are enough for the interesting cases.** Three lock processes
are two competitors for a lock a third left behind. Two runs of the watcher are
one whose leftovers can disturb its successor. Three build slots are a hung
build, its replacement, and one more spawned meanwhile; one timeout is a recovery
that succeeds, two are one that gives up. Contents `a`, `b` and `bad` are two
readable files and one rejected; the dedup test only compares contents, so a
third readable one adds nothing, and readable contents, like recipes, are
interchangeable (symmetry, used only where no liveness is checked). Two versions
of bv are one that must not undo the other. Three updates are an update, one that
fails, and a rollback. Two callers and two moves of HEAD are one call whose
extraction is disturbed while another stores. Two sessions are one that replaces
the other; `MaxEvents` bounds what happens in both together. Three issues are a
parent, a child and a blocker, and every table of them is tried with up to four
dependencies, issues that are parked and issues that are no candidates, counted together; graphs of four nodes have every kind of cycle with a tail,
and a node that both heights and slack go around. Three datasets are one replaced
while the index of its predecessor is being saved. The forests are a path deeper
than the default folds, an issue with two parents, and a cycle with a child below
it, all longer than the window. Two windows, views or inputs open at a time
(`MaxOn`; the split view and the question whether to quit come on top) are one over
another, and `MaxEscs` is tight: with four presses TLC finds a way to be still inside.

`Resignals = TRUE` multiplies the worker's states tenfold, so the runs use FALSE;
the proofs cover both. `MaxChanges`, `MaxRequests`, `MaxTimeouts`, `MaxWrites`,
`MaxRemoves`, `MaxStarts`, `MaxFaults`, `MaxRuns`, `MaxMoves`, `MaxSaves`,
`MaxAgentWrites`, `MaxBrFailures`, `MaxSessions`, `MaxEvents`, `MaxDatasets`,
`MaxToggles`, `MaxFailures`, `MaxExpiries`, `MaxKeys`, `MaxConnects` and
`MaxRebuilds`, `MaxOn` and `MaxEscs` bound what happens to the system, not what it does. Deadlock is not
checked: every modelled system stops when nobody uses it any more.

**Properties in two parts.** `LatestShownUnlessOvertakenOrFenced` says that once all is quiet, the UI
shows the worker's snapshot unless one of two things has happened since the last
applied message: an older Ready was sent after a newer one, or a recovery fenced
off a Ready not yet applied. Findings 2 and 3 are what these two exceptions stand
for, so the property says that there are no others. In the same way
`HistoryIsCachedTruly` is checked with a HEAD that does not return
(`HeadReturns = FALSE`, finding 5), and `NoEditLostOutsideGap` leaves out the gap
between verification and rename, which the code cannot close. `EditsAreTheHumans`
leaves out of its first part the issues that are `reopened`: created here, opened
again by the key before the exit of their own editor was handled, which is possible in
the synchronous mode only (`OnlyCreatedAreReopened`); see the observations.
`DeletesOnlyUnchangedStub` lets a deleted stub differ from what was created in emptied
labels, which are never sent to br. `EscLeadsOut` leaves out the deaf keyboard, and `DrawnOverlayGetsEsc` three cases it names, see the
observations.

**Conjunctions.** `UpdatesKeepTheirWord`, `HistoryIsCachedTruly`,
`EditsAreTheHumans`, `PlansAreTrue`, `MetricsAreExact`, `TreeIsSound`, `DataArrive`,
`NothingGoesBack`, `PreviewsEnd`, `AgentsFileSurvives`,
`LookupsAnswerTheirBead` and `KeysAreRouted` are conjunctions of named parts that belong
together; the parts are in the components' modules.

## 4. Fairness

Weak fairness is assumed of

* a process inside `NewLock`, which never waits for anybody. Not of starting,
  exiting, crashing, or of the two seconds after which a lock has `aged`;
* the watcher's goroutines (with the poll ticker), and timer callbacks: a timer
  that is armed fires, and Go runs runnable goroutines;
* a call of `GenerateReportCached` (`CallStep`): git commands end, and `flock` is
  granted when the holder lets go, by dying if need be;
* the worker's goroutines: `process()`, `processLoop`, the recovery, the caller of
  `Start` and the thread in `Stop`. A build ends since loading and analysis
  terminate; a *hung* build is one that ends late, after a timeout has struck;
* the watcher, in the worker's model: a pending change is signalled for good in
  the end. This is `ChangeIsSignalled` of `Watcher`;
* in `WorkerUI`, the waiters and `Update` for what a waiter holds: Bubble Tea runs
  every command and delivers its message;
* in `SyncReload`, the same for its waiters, handlers and Phase 2 commands
  (`ReloadStep`); the bounds make each of them happen, since a step that is
  enabled can be put off only finitely often;
* editor polling (`handleEditPoll`): a tick that is scheduled comes;
* index builds and saves with their handlers (`IndexStep`), which end by
  themselves or by failing;
* the preview's goroutines (`PreviewStep`), the hub (`HubStep`) and each handler of
  an event stream (`SSEHandler`).

Nothing is assumed of the user, the writers of the file, failures, or timeouts.
In particular `runPhase2Analysis` is not fair: metrics may never become ready.

## 5. The proofs

All theorems hold for any number of processes, goroutines, waiters, inodes, issues,
dependencies, datasets, contents and recipes, and any value of the bounds
(`EscLeadsOutHolds` alone asks for two of them to fit each other). They rest on
the named assumptions, which say of the constants what they are (`NoProcAssumption`: the
"unknown pid" is no pid; `ConstantsAssumption`, `UIConstantsAssumption`,
`WatcherConstants`, `AgentAssumption`, `HistAssumption`, `HumanEditAssumption`,
`ReadinessAssumption`, `ReloadAssumption`, `LookupAssumption`, `IndexAssumption`,
`LiveReloadAssumption`, `RoutingAssumption`: their types). None asks
for a finite set of actors or bounds a number, except that an issue has finitely many
dependencies in `Readiness`, where the code counts them.

Most properties are not inductive; each proof is about a stronger invariant, named
below, with one lemma for each step and part. TLC was asked about each of them first.

**FilesProofs, the lock**: `TypeCorrect`, `OnePrimary`, `NoLockLeftBehind`.
"One primary before a takeover" is not inductive, as a process about to remove
the path might remove another's. `ClaimsAreTheFile` adds that everyone who has
created, owns or is about to remove the lock is the creator of the file at the
path; `CreatorWillRemove` says in which stages a creator may be, so that each clean
exit from one of them passes through `Remove`, where the file goes or the process is
`unremoved`; `Staging` ties
`renamed` and `isFirst` to the stages.

**FilesProofs, the updater**: `UpdatesKeepTheirWordHolds`. `UpdInv` says, for
each stage of `PerformUpdate` and `Rollback`, what may be at the binary's path, the
backup and the download, so that after any failure or death one of them is a
binary that ran, and what an outcome claims is so.

**FilesProofs, the history caches**: `HistoryIsCachedTrulyHolds`,
`StoredEntriesAreKeptHolds`. Every entry is described by the request it was stored for,
in the file, in the copy a rewriter holds, and in what a caller has extracted. The part
about keys needs a HEAD that does not come back (`~HeadReturns`, finding 5); that no
rewrite that goes through loses what another stored, and that reports are the caller's, does not depend on it.

**FilesProofs, AGENTS.md**: `AgentsFileSurvivesHolds`, `NoDowngradeHolds`, `AgentTypeCorrect`.
In `AgentInv`, `FlockInv` says that the lock of an inode has one holder, who is at work;
`TmpInv` that a replacement belongs to one process and is not named before it is
published; `GapInv` that what was verified is still so at the rename, unless the
editor has written since.

**FilesProofs, the watcher**: `WatcherTypeCorrect`, and `ContractHolds`, which is the refinement: every step of the goroutines, the
debouncer, `Start` and `Stop` is a step of `FileWatch` or changes nothing a client can see,
so that `BackgroundWorker` and `SyncReload` may use `FileWatch` instead. `WatcherInv` says that no
timer is of a run to come, that the watcher knows of no revision to come, and
(`MissingInv`) that a poller about to record that the file is away has not overlooked
a file that is back.

**BackgroundWorkerProofs**: `WorkerTypeCorrect`, `StoppedWorkerStaysDown`,
`OneAcceptedBuilder`, `WorkerInvariant`, `NoRefreshIsLost`, `SnapshotNeverGoesBack`.
The inductive invariant is

    IInv == TypeOK /\ Life /\ StoppedStaysDown /\ Builders /\ OneBuilder /\ Revisions /\ Owing

* `Life` connects `state` with Stop's progress, and says that a worker outside
  Start and recovery has a watcher. It is what makes a later write *owed*.
* `Builders`: no build carries a generation that has not begun, and
  `processScheduled` implies a goroutine on its way. Without the second, a
  `TriggerRefresh` that only sets `dirty` could be lost.
* `OneBuilder` is needed for `SnapshotNeverOlder` and for `Owing`: the accepted
  build is the only one, so what it has read decides.
* `Revisions`: the accepted build has read the file no earlier than the build of
  the present snapshot did. A superseded build may have read anything.
* `Owing` strengthens `NoRefreshLost`: while a build is accepted a refresh is owed
  *even if* the snapshot agrees with the file. A build may hold an older content,
  say that of a file since restored; when it commits, the agreement goes, and
  only the owed refresh brings it back.

**WorkerUIProofs**: `UIImplementsWorker` shows that each step of the composed system
is a step of the worker with its general client, or leaves the worker alone
(`UISpec => Spec`), so all of the above holds beneath the UI
(`WorkerInvariantsUnderUI`). `UITypeCorrect` is its type invariant (`UITypeOK`).
`ScreenNeverGoesBack` needs one more, `Chronology`: over all Ready messages
that exist (about to be sent, in the mailbox, or held by a waiter) and the shown
snapshot, a higher version has no lower revision, and none is of a later version
or revision than the worker's own snapshot, so that the next commit comes after
all of them. Every handler that applies a message requires a higher version, hence
the revision on the screen does not decrease. `LatestSnapshotIsShown` locates the Ready
of the last version: with its job, in the mailbox, held by a waiter or applied,
unless it was overtaken or fenced (`DeliveryInvariant`); the ranks of the mailbox show
that nothing else takes its place. `WaiterChainHolds` follows the waiters through the
handlers and the worker's ends.

**ServicesProofs**. `NoSendOnClosedHolds`: whoever the hub still means to signal is
registered, and the channel of a registered client is open (`LiveInv`).
`IndexIsOfLoadedIssuesHolds`: builds are numbered, what was accepted is older than what the fence
waits for, and the file, the save under way, the pending save and the newest accepted build are in
the order of their numbers (`IndexInv`). `LookupsAnswerTheirBeadHolds`: a correlator serves one
dataset with one detector, what a lookup found is of its own dataset, and the request of
the model is one that `cassLookupIsCurrent` accepts (`LookInv`). `ShownTogetherHolds` and
`NothingGoesBackHolds`, the latter with a part from the index: a preparation that carries the
number of the analyzer in use was made for the issues shown, a read under way excludes a worker,
and what the worker in use has sent is not behind the screen (`ReloadInv`). `ServicesTypeCorrect` has the types of all four.

**KeyRoutingProofs**: `KeysAreRoutedHolds`, `EscLeadsOutHolds`, `RoutingInvariant`. The order in which `Update` offers
keys and the order in which `renderMainView` draws are two lists in two places of the code.
`RInv` says that the question whether to quit stands alone and the pickers exclude each other
(`Exclusive`), and where the help and the sessions came from (`Remembered`); under it the
first of one order is the first of the other, with the exceptions that `DrawnOverlayGetsEsc` names. `MaxOn` plays no part: the theorem is of any number of
windows over one another.

`EscLeadsOutHolds` is about every way to open things over one another: for any `MaxOn`, and `MaxEscs` at least
`MaxOn + 3`, `MaxEscs` presses of esc lead out, but for the running update and the deaf keyboard.
`EscEffect` says what one press does in any state of `RInv`: it closes a flag, goes back to the list from a view
that has none, asks whether to quit, or quits. `EscRank` counts what is left to do: the flags esc can close, one for
a view to leave or a graph that a pending g may open, and one or two for the question. Each press that
nobody holds back lowers it (`EscLowers`). A click, the end of an update or a new size of the terminal starts the
count again; the prompt about AGENTS.md and the sessions come only before the first press (the bound
`escs = 0` of their actions); the other messages do not raise the rank. So presses and rank together
stay within `MaxOn + 3` (`Countdown`).
The invariant needs `FilterFocus`, where the focus can be while a filter is typed, as an input that is deaf
stays deaf, and `CassFocus`, that no pending g opens the graph under the sessions. The hypothesis
`MaxEscs >= MaxOn + 3` fixes only how many presses the history variable counts; the run has it with
equality, and with one press fewer TLC finds a way to be still inside.

**IssuesProofs**: `EditTypeCorrect`, `IssuesTypeCorrect` (with the tree's types), `EditsAreTheHumansHolds`,
`DeletesOnlyUnchangedStubHolds`, `LastAppliedIsStoredHolds`, `OnlyCreatedAreReopened`.
`EditInvariant` says that an id that br, the UI or a session knows is not given away again (`KnownIds`), that only issues
created here are treated as new (`CreatedAreNew`), and that a program polls or suspends,
never both (`OneMode`). `HumanInv`
relates three values of a field: what the human did not touch is in the
markdown as it was written from the issue, what differs from that is touched, and what was applied is
what br holds until another process writes it.
`PlansAreTrueHolds` is about the analysis as a part of the same
behaviours and rests on the next module.

**PlanningProofs**: `ComputeInvariant`, `ComputeIsExactHolds`, `ReadinessIsExactHolds`, `PlanningIsSoundHolds`. Any table
of issues may have any cycles of parents and blockers.

* *The work queue of `compute`* is filled from a map in any order and hands down blocked parents. `ComputeInv`
  counts: an issue's pending number is that of its open parents not yet handled, and it is in the queue
  once when that is zero. So the handled issues are closed under parents, whence none of them is on a
  cycle; and an issue that still waits at the end has a parent that waits, from which a shortest line of
  parents leads to a cycle above it, which is what the definition asks.
* *The walk of `ReadyAfter`* cuts cycles and keeps a memo across its calls. What is dangerous is a memo written
  while an ancestor is being visited, as its state depends on who asked. It never matters: an issue that is met while it
  is being visited is in a cycle of parents, so everything between it and itself is in the cycle too, and everything
  that asked is below one: their true state is the unknown that the memo holds (`SoundCall`).
* *Tracks and gain.* Union-find yields the classes of what is linked, so an issue and all its dependencies have one root,
  and what is done elsewhere makes no difference to it (`ExactTracksAreIndependent`). Two independent counts of
  components, by roots and by reachability, agree (`ExactGainIsReal`).
* *Greedy picks*: doing more never makes an issue less ready (`ActionableGrows`), so each pick can be worked on when its
  turn comes, and the gains add up to the new ones, each counted once (`ExactPicksAreFeasible`).
* *What is unblocked in the end*: the simulation looks only at dependents and children of the head of its queue. What it finds is in the
  closure. An issue that has become ready and is not done, and is not below one that is parked or no candidate, always has
  one in its lineage, itself or an ancestor, that is still to be considered (`Awaited`), and an issue is
  queued once, so that the rounds suffice (`ExactUnblocksAreReal`). What is below such an ancestor is missed at times, and really so:
  that the simulation finds the whole closure is refuted by TLC, see the observations.
* *Chains and depths*: the search threads one visited set and one path through its calls. What it has finished has all its
  blockers finished or on the path (`SoundSearch`), so in the end it has visited all that is behind the target, and it has met
  the path exactly if there is a cycle. The memo of the depths holds true depths whatever was asked for first, cycles
  included; outside cycles less is behind a blocker than behind what it blocks (`LessIsBehind`), which is also why there
  is a longest chain (`ExactChainsAreWhole`).

**TreeViewProofs**: `TreeTypeCorrect`, `TreeInvariant`, `TreeIsSoundHolds`, `SelectionIsKeptHolds`. The nodes are the
paths that come back to an issue at their end at most (`NodesArePaths`); none is longer than there are issues and one,
so that the levels suffice. What no root reaches has a parent that no root reaches: following the
least of them comes back to an issue (there are only so many), which is in a cycle and becomes a root that
reaches what the walk began with (`CycleMemberIs`); so every issue has a node and only members of cycles are roots
despite a parent (`RootsAre`). The list is in depth-first order (`DepthFirstLists`). The steps need of all this only the shape of
the tree (`Shaped`). `CursorInView` is not inductive, as nothing puts the cursor back on a rendered line when the
tree is shown again; `CursorKept` has it hold while the tree is not shown, and `TreeTypeOK` that keys meet
the height that is rendered. What is open is what the file would give back,
since each fold is stored unless it is the default (`SavedIsLoaded`). A reload finds the node of the issue again, in the
rebuilt list, if there is one that is visible.

**Recursion.** The proofs above are about functions defined by recursion, on naturals or on calls. Two lemmas without
operator parameters carry them: `Recursion` (a function on `0 .. n` that is described by its first value and a step
exists and unfolds) and `WalkExists` (the same for functions of calls, each of which leaves less room for the calls it makes).
What holds of all calls follows by choosing a least counterexample (`LeastOf`, `CallInduction`).

**Only model-checked.** The liveness properties, since fairness and ENABLED are
beyond the prover: `StaleLockRecovered`, `ChangeIsSignalled`, `CallsEnd`,
`AloneCatchesUp`, `AloneStopCompletes`, `GivingUpIsSeen`, `SavesAreApplied`,
`DataArrive`, `PreviewsEnd`. And one invariant, `MetricsAreExact`: k-core's bucket sort, Tarjan's
numbering and slack are long computations over arrays, compared with their definitions on every graph
within the bounds. Every other invariant that a passing run checks is the statement of a theorem.

## 6. Where the code and its comments disagree

1. **Two winners of one stale lock** (`instance_lock_race`). Two processes find the
   holder dead. The first renames, re-reads its own id and is primary; then the
   second, already past the check, renames over it and verifies in turn. The
   comment at `pkg/instance/lock.go:254` says the re-read handles two processes
   that rename simultaneously.
2. **An older Ready replaces a newer one** (`ui_overtaken`). `process()` becomes idle
   and unlocks before it sends (`background_worker.go:1169`, `:1220`), so a second
   build can commit and send first. The older Ready has the same priority and
   replaces the newer in the mailbox; nothing sends the newer again, and later
   builds of the same content are deduplicated. `ForceRefresh` (line 921) promises
   that the UI can deterministically refresh.
3. **No retry after an error** (`ui_error_retry`). A Ready is fenced off by a
   recovery; the forced rebuild meets an unreadable file, which uses up
   `forceNext`. When the file is restored, dedup compares with the worker's
   snapshot, which the UI never got, and publishes nothing. `model.go:3304` says
   "If recoverable, we'll try again on next file change".
4. **A refused save is not kept** (`human_edit_buffer`). In the polled mode a `br
   update` that fails is reported in the status line only. `bv-human-edit.md:440`
   and `:442` say that on any failure of the full-editor flow the buffer is saved.
5. **A mixed history under an old key** (`history_head_returns`). HEAD leaves a
   commit and comes back while the history is extracted, so that the comparison of
   the two HEADs passes. The comment at `disk_cache.go:448` says it closes the only
   gap.
6. **The index file keeps an older build** (`index_save_order`). Whether a build is
   to be saved is decided from what the file held when it was read, which a save
   still under way then replaces. `model.go:2511` says that the pending save is
   always the final disk write.
7. **The last write of a burst is not reloaded** (`live_reload_burst`). The debounce
   passes the first event and drops what follows within 200 ms
   (`livereload.go:116`). Line 4 says that connected browsers receive reload events
   when files change.

Observations without a sentence in the repository to set them against:

- The comment at `model.go:4075` says that exactly one waiter stands, but the
  handler of `brUpdateResultMsg` (`model.go:2277`) starts one more that re-arms for
  ever. `ui` and `ScreenNeverGoesBack` show that messages delivered out of order by
  two waiters still never take the screen back.
- A Phase 2 completion that the mailbox refuses is never sent again, so the Phase 2
  insights on the screen may wait for the next snapshot.
- A reload in the default mode builds its analyzer without the feedback weights
  that `NewModel` sets (`model.go:1639`).
- Without a worker, a change of the file does not rebuild the open tree; it shows
  the older issues until `E` is pressed twice. The tree of a large dataset, which is
  built on demand, loses its selection with every reload. `Build` puts the cursor
  at the top and leaves the window where it was, so the cursor can be off screen
  until the next key; the same after a resize, or when the selected issue is gone. A reload that comes while the
  window of the sessions is over the tree takes it for left (`model.go:2943`), so the tree
  keeps its older issues until the next reload, or until `E` is pressed twice.
- `countTransitiveUnblocks` counts, as the comment at `priority.go:1039` puts it, the issues
  unblocked including cascading effects, but it queues nothing that is parked, deferred or
  filtered out (`priority.go:1061-1073`), and looks only at dependents and children of what it
  has queued: a child of a parked parent that becomes ready with it is not counted.
  `UnblocksAreReal` leaves out what is `Hidden` below such an issue, and nothing else.
- A cache file of the history that cannot be rewritten, say on a full disk, is empty or cut
  short afterwards: the entries of all other processes are lost with it
  (`disk_cache.go:221-234`, `head_artifact_cache.go:122-135`), and the error is ignored.
- In the split view, `/` and a click on the detail panel leave the keyboard deaf: while
  the filter is typed only the list gets keys, and the list has no focus
  (`handleLeftClick`, `model.go:9038`). Every key is ignored, ctrl+c too, until the list
  is clicked. `Deaf` is this state, the one exception of `EscLeadsOut`. Ctrl+c does not
  quit either while a filter is typed, or over the prompt about AGENTS.md, the session,
  update and alerts windows and the question whether to quit, though the help
  (`model.go:6878`) calls it "Force quit".
- The keys of the window that is drawn go elsewhere in three cases (`DrawnOverlayGetsEsc`):
  the graph of a label is drawn over its drilldown, which gets the keys; the attention
  view keeps its keys under the alerts panel; the prompt about AGENTS.md gets the keys
  under a question whether to quit. Windows without a layer of their own (help, prompt,
  label picker) stay on the screen when `?` or the backtick move the focus away: both are
  asked before the text inputs, so that a `?` typed into the time-travel prompt opens a
  help that is not drawn.
- Esc in the tree asks whether to quit, or clears the filters, since the global esc knows
  every view but the tree (`model.go:4442`; q has it), though README.md:1657 says that it
  returns to the list and `handleTreeKeys` has a case for it. The view keys do nothing
  in the detail panel, which forwards every key to its viewport (`model.go:4774`),
  though the comment at `model.go:4818` lets the detail view open the sprint dashboard.
- A view opened from the sprint dashboard and closed again leaves `isSprintView` on with
  the focus on the list: the dashboard is drawn, the list gets the keys. `g` in the
  history (`model.go:5806`) sets the focus on a graph that is not on. The label dashboard
  is not drawn in the split view.
- With the editor in the foreground, an issue that was just created can be opened by its key
  before the message of its editor's exit is handled. Both sessions then end with a
  whole file written from the first (`createNewIssue` again rewrites the markdown), so a value that another process stored
  meanwhile may be written back over. `reopened` marks these issues.
- The folds of an issue with several nodes are stored under one id, so they do not
  come back as they were.

## 7. Not modelled

*Of the modelled components.*
- Lock: the Windows path (remove, then rename); reuse of pids.
- Watcher: `onError` and its callbacks; fsnotify overflow and stat errors other
  than a missing file, which are reported but not signalled as a change; the
  SQLite `-wal` companion; a rewrite of equal size within the timestamp's
  granularity, which the poller cannot see; callbacks that re-enter the watcher.
- Worker: heartbeat and watchdog timers (a timeout may strike at any moment
  instead, which covers every schedule of theirs); idle GC; metrics and tracing;
  pooled issue leases; `ResetHash`, which only tests call; panics in a build.
- Default-mode reload: what it does to lists, filters and views; the branch that
  prepares Phase 2 again when weights or the day have changed.
- Edit workflow: comments, keys inside the title line, unreadable files,
  serialisation of the markdown.
- Agents file: Markdown scanning, symbolic links, the preference file. Updater:
  download and extraction are one step; concurrent updates. History caches:
  expiry, several repositories in one file, per-commit caches.
- cass: expiry and eviction, scoring, the footer. Semantic search: embedding,
  scoring, hybrid metrics. Live reload: what is served, validation, ports.
- Analysis: everything that is a floating-point fixpoint or a weighted score
  (PageRank, HITS, eigenvector, betweenness, impact and triage scores), and limits
  on time and size.
- Tree: rendering, sort keys; a state file that cannot be written or read.
- Keyboard: what a view does with a key for itself, mouse wheel, the tutorial's pages,
  the shortcuts sidebar, time travel once its prompt has closed.

*Whole components.* About half of the implementation is text: rendering of views,
help and tutorial, exporters, robot output and the command line (`cmd/bv`, 15 000
lines), JSONL and TOON parsing, SQLite readers. None of it has state that a
property could relate to anything, so it stays out. Correlation
heuristics, label health, suggestions and ETA are floating-point scores over an
immutable input. `SourceWatcher` and `AutoRefreshManager` (`internal/datasource/watch.go`),
the correlator `CachedCorrelator`, and `Detector.Invalidate` have no caller outside
their packages' tests and are not part of the running program. Datasource
selection, hooks and the robot's disk cache of analyses are within reach; see the plan.

## 8. Plan

Done: the modules of section 2, the runs of section 3, the theorems of section 5.

*Theorems next.*

1. The parts of `MetricsAreExact` that quantify over the result and not over its construction, such as
   `WouldCreateCycle` and the cycles that represent a component; then articulation points, with an invariant over the numbering.
2. `SyncReload` as an implementation of a worker with one goroutine.

*Models, should the code give reason.*

| Module | Source | Properties |
|---|---|---|
| `Select` | `internal/datasource/select.go`, `validate.go` | the best valid source is chosen, with its fallbacks |
| `Hooks` | `pkg/hooks/executor.go` | a failing pre-hook stops the export; a timeout is not a success |
| `AnalysisCache` | `pkg/analysis/cache.go` 300–700 | an entry is of its graph and configuration |
