------------------------------- MODULE SyncReload -------------------------------
(***************************************************************************)
(* Live reload in the program's default mode (pkg/ui/model.go): commands   *)
(* wait for pkg/watcher, Update reloads the file itself, Phase 2 of the    *)
(* analysis is prepared off the event loop, and after a slow reload a      *)
(* BackgroundWorker takes over.  The watcher is what FileWatch promises;   *)
(* of the worker, which BackgroundWorker and WorkerUI model, only what it  *)
(* hands to Update is left.  Update runs one handler at a time; the reload *)
(* is two steps, since the file may change while it runs.                  *)
(***************************************************************************)
EXTENDS Naturals

CONSTANTS
    MaxWrites,    \* bound: writes of the file
    MaxSpurious,  \* bound: signals beyond the one a change is owed
    MaxKeys       \* bound: what the user does

ASSUME ReloadAssumption ==
    MaxWrites \in Nat \ {0} /\ MaxSpurious \in Nat /\ MaxKeys \in Nat

VARIABLES
    file,                                \* its revision
    missing, watching, unsignalled, changed, \* the watcher: see FileWatch
    began,       \* NewModel and Init are over
    armed,       \* WatchFileCmd goroutines that wait
    inbox,       \* FileChangedMsg on their way
    reading,     \* what the reload in progress has loaded, or NotReading
    shown,       \* m.issues, m.analyzer (numbered), m.analysis
    done,        \* the GraphStats in use whose Phase 2 is done
    snapshot,    \* m.snapshot: the analyzer and the issues it was made of, or NoSnapshot
    hints,       \* the issues the priority hints were computed from, or NoIssues
    travel,      \* the issues time travel compares with, or NoIssues
    preparation, \* preparePhase2Cmd goroutines and their Phase2ReadyMsg
    live,        \* the one whose context is not cancelled, 0 for none
    worker,      \* m.backgroundWorker, numbered: none, installed, running, stopped;
                 \* and the revision of its latest build
    held,        \* SnapshotReadyMsg on their way, one of each worker
    spurious, keys, quit,
    early        \* history: the file was written after it was loaded and before the
                 \* watcher's baseline, and has not been read since

watchState == <<missing, watching, unsignalled, changed>>
shownVars  == <<shown, snapshot, hints, travel, live, preparation>>
workerVars == <<worker, held>>
bounds     == <<spurious, keys>>
reloadVars == <<file, watchState, began, armed, inbox, reading, shownVars, done,
                workerVars, bounds, quit, early>>

Watch == INSTANCE FileWatch WITH pending <- unsignalled

\* No revision of the file.
NoIssues   == 0
NotReading == 0
NoSnapshot == [analyzer |-> 0]

\* NewModel is given the issues that main has loaded, and begins a little later.
ReloadInit ==
    /\ early \in BOOLEAN /\ file = IF early THEN 2 ELSE 1
    /\ missing = FALSE /\ watching = FALSE /\ unsignalled = FALSE /\ changed = FALSE
    /\ began = FALSE /\ armed = 0 /\ inbox = 0 /\ reading = NotReading
    /\ shown = [issues |-> 1, analyzer |-> 1, stats |-> 1]
    /\ done = {}
    /\ snapshot = NoSnapshot /\ hints = NoIssues /\ travel = NoIssues
    /\ preparation = {} /\ live = 0
    /\ worker = [no |-> 0, at |-> "none", built |-> 0] /\ held = {}
    /\ spurious = 0 /\ keys = 0 /\ quit = FALSE

At(state) == worker' = [worker EXCEPT !.at = state]

Detached == worker' = [worker EXCEPT !.at = "none", !.built = 0]

\* NewBackgroundWorker and installBackgroundWorker.
Installs == worker' = [no |-> worker.no + 1, at |-> "installed", built |-> 0]

-----------------------------------------------------------------------------
(* preparePhase2Cmd: cancels the one before, which ends unless it has sent *)
(* its message, and captures what it works on.                             *)

Sent == {p \in preparation : p.at = "ready"}

Prepares(s, snap) ==
    /\ live' = s.analyzer
    /\ preparation' = Sent \cup
          {[stats |-> s.stats, analyzer |-> s.analyzer, issues |-> s.issues,
            source |-> snap, at |-> "waiting"]}

\* NewModel chooses the worker or a watcher, which may fail to start; Init prepares
\* Phase 2 and waits for the first change.
Begins ==
    /\ ~began /\ began' = TRUE
    /\ \/ Watch!Start /\ armed' = 1 /\ UNCHANGED worker
       \/ Installs /\ UNCHANGED <<watchState, armed>>
       \/ UNCHANGED <<watchState, armed, worker>>
    /\ Prepares(shown, snapshot)
    /\ UNCHANGED <<file, inbox, reading, shown, done, snapshot, hints, travel, held,
                   bounds, quit, early>>

\* Phase 2 of an analysis ends, by a time limit if need be.
Phase2Done ==
    /\ began /\ done' = done \cup {shown.stats}
    /\ UNCHANGED <<file, watchState, began, armed, inbox, reading, shownVars, workerVars,
                   bounds, quit, early>>

PreparationEnds(p) ==
    /\ p.at = "waiting" /\ p.analyzer = live /\ p.stats \in done
    /\ Sent = {}  \* bound: one message on its way
    /\ preparation' = (preparation \ {p}) \cup {[p EXCEPT !.at = "ready"]}
    /\ UNCHANGED <<file, watchState, began, armed, inbox, reading, shown, snapshot, hints,
                   travel, live, done, workerVars, bounds, quit, early>>

\* The issues get an analyzer of their own, and an analysis that is new or was computed
\* before, for the same issues or for others with the same graph (the two caches of
\* pkg/analysis).  A cached analysis that nothing here refers to is as good as a new one.
Analyses(issues) ==
    LET n == shown.analyzer + 1
    IN  {[issues |-> issues, analyzer |-> n, stats |-> a] : a \in {n} \cup done}

InUse(s) == done' \in {d \cap ({s.stats} \cup {p.stats : p \in Sent}) : d \in {done, done \cup {s.analyzer}}}

-----------------------------------------------------------------------------
(* The file and the watcher *)

WriteFile ==
    /\ began /\ ~quit /\ file <= MaxWrites
    /\ file' = file + 1
    /\ Watch!FileWritten
    /\ UNCHANGED <<began, armed, inbox, reading, shownVars, done, workerVars, bounds, quit, early>>

RemoveFile ==
    /\ ~quit /\ began /\ ~missing /\ file <= MaxWrites
    /\ Watch!FileRemoved
    /\ UNCHANGED <<file, began, armed, inbox, reading, shownVars, done, workerVars,
                   bounds, quit, early>>

Signals ==
    /\ \/ Watch!Publish \/ Watch!Forget
    /\ unsignalled' => spurious < MaxSpurious
    /\ spurious' = IF unsignalled' THEN spurious + 1 ELSE spurious
    /\ UNCHANGED <<file, began, armed, inbox, reading, shownVars, done, workerVars,
                   keys, quit, early>>

\* WatchFileCmd: a change, or the watcher's Done.
WaiterReceives ==
    /\ armed > 0 /\ armed' = armed - 1
    /\ \/ Watch!Receive /\ inbox' = inbox + 1
       \/ ~watching /\ UNCHANGED <<watchState, inbox>>
    /\ UNCHANGED <<file, began, reading, shownVars, done, workerVars, bounds, quit, early>>

-----------------------------------------------------------------------------
(* FileChangedMsg *)

UpdateRuns == began /\ ~quit /\ reading = NotReading

\* Every path of the handler waits for the next change, if there is a watcher.
Rearmed == IF watching THEN armed + 1 ELSE armed

\* The worker, if there is one, reloads by itself.
FileChangedIgnored ==
    /\ UpdateRuns /\ inbox > 0 /\ worker.at # "none"
    /\ inbox' = inbox - 1 /\ armed' = Rearmed
    /\ UNCHANGED <<file, watchState, began, reading, shownVars, done, workerVars,
                   bounds, quit, early>>

\* Fault: the path of a failed load returns without waiting.
LoadFailsForGood == missing /\ armed' = armed /\ UNCHANGED reading

LoadFails == missing /\ armed' = Rearmed /\ UNCHANGED reading

ReloadReads ==
    /\ UpdateRuns /\ inbox > 0 /\ worker.at = "none"
    /\ inbox' = inbox - 1
    /\ travel' = NoIssues
    /\ early' = FALSE
    /\ \/ ~missing /\ reading' = file /\ UNCHANGED armed
       \/ LoadFails
    /\ UNCHANGED <<file, watchState, began, shown, snapshot, hints, live, preparation,
                   done, workerVars, bounds, quit>>

\* A later Phase 2 must not be added to the snapshot of older issues.
DropsSnapshot == NoSnapshot

\* After a slow reload a worker is installed and the watcher stopped.
WaitsOrHandsOver ==
    \/ armed' = Rearmed /\ UNCHANGED <<watchState, worker>>
    \/ Watch!Stop /\ Installs /\ UNCHANGED armed

\* The rest of the handler.
ReloadApplies ==
    /\ reading # NotReading /\ reading' = NotReading
    /\ \E s \in Analyses(reading) :
          /\ shown' = s /\ InUse(s)
          /\ Prepares(s, DropsSnapshot)
    /\ snapshot' = DropsSnapshot /\ hints' = NoIssues
    /\ WaitsOrHandsOver
    /\ UNCHANGED <<file, began, inbox, travel, held, bounds, quit, early>>

-----------------------------------------------------------------------------
(* Phase2ReadyMsg *)

\* Fault: the analysis alone tells what is current.
SupersededByStats(p) == p.stats # shown.stats

Superseded(p) ==
    \/ p.stats # shown.stats
    \/ p.analyzer # live \/ p.source # snapshot \/ p.analyzer # shown.analyzer

Phase2Ready(p) ==
    /\ UpdateRuns /\ p.at = "ready"
    /\ preparation' = preparation \ {p}
    /\ IF Superseded(p)
       THEN UNCHANGED <<snapshot, hints, live>>
       ELSE /\ live' = 0
            /\ snapshot' = [analyzer |-> p.analyzer, issues |-> p.issues]
            /\ hints' = p.issues
    /\ UNCHANGED <<file, watchState, began, armed, inbox, reading, shown, travel, done,
                   workerVars, bounds, quit, early>>

-----------------------------------------------------------------------------
(* The worker, as Update sees it *)

workerUnchanged == <<file, watchState, began, armed, inbox, reading, shownVars, done,
                     bounds, quit, early>>

\* Start ends; backgroundWorkerStartErrorMsg detaches a worker that could not start.
WorkerStarts ==
    /\ UpdateRuns /\ worker.at = "installed" /\ (At("running") \/ Detached)
    /\ UNCHANGED <<workerUnchanged, held>>

\* A build of the file as it is now; its message replaces the one before.
WorkerBuilds ==
    /\ worker.at = "running" /\ ~quit /\ ~missing /\ worker.built # file
    /\ worker' = [worker EXCEPT !.built = file]
    /\ held' = {h \in held : h.by # worker.no} \cup {[by |-> worker.no, issues |-> file]}
    /\ UNCHANGED workerUnchanged

\* Too many failures: the worker stops itself; the terminal error is on its way.
WorkerGivesUp ==
    /\ worker.at = "running" /\ ~quit /\ At("stopped")
    /\ UNCHANGED <<workerUnchanged, held>>

TerminalError ==
    /\ UpdateRuns /\ worker.at = "stopped" /\ Detached
    /\ UNCHANGED <<workerUnchanged, held>>

Accepts(h) == worker.at # "none" /\ h.by = worker.no

\* backgroundWorkerMsg with a SnapshotReadyMsg.
SnapshotReady(h) ==
    /\ UpdateRuns /\ held' = held \ {h}
    /\ IF Accepts(h)
       THEN /\ \E s \in Analyses(h.issues) :
                  LET snap == [analyzer |-> s.analyzer, issues |-> h.issues]
                  IN  /\ shown' = s /\ InUse(s) /\ snapshot' = snap
                      /\ Prepares(s, snap)
            /\ hints' = NoIssues /\ travel' = NoIssues
       ELSE UNCHANGED <<shownVars, done>>
    /\ UNCHANGED <<file, watchState, began, armed, inbox, reading, worker, bounds, quit, early>>

-----------------------------------------------------------------------------
(* The user *)

Key == UpdateRuns /\ keys < MaxKeys /\ keys' = keys + 1

\* Ctrl+R: a worker that runs builds again; a stopped one is detached.
CtrlR ==
    /\ Key
    /\ IF worker.at \in {"installed", "running"}
       THEN worker' = [worker EXCEPT !.built = 0] /\ UNCHANGED inbox
       ELSE inbox' = inbox + 1 /\ Detached
    /\ UNCHANGED <<file, watchState, began, armed, reading, shownVars, done, held,
                   spurious, quit, early>>

\* editAppliedMsg and its like: one FileChangedMsg of their own.
EditApplied ==
    /\ Key /\ inbox' = inbox + 1
    /\ UNCHANGED <<file, watchState, began, armed, reading, shownVars, done, workerVars,
                   spurious, quit, early>>

EnterTimeTravel ==
    /\ Key /\ travel' = shown.issues
    /\ UNCHANGED <<file, watchState, began, armed, inbox, reading, shown, snapshot, hints, live,
                   preparation, done, workerVars, spurious, quit, early>>

Quits ==
    /\ UpdateRuns /\ quit' = TRUE /\ live' = 0
    /\ Watch!Stop
    /\ UNCHANGED <<file, began, armed, inbox, reading, shown, snapshot, hints, travel,
                   preparation, done, workerVars, bounds, early>>

\* What the goroutines, the commands, the watcher and Update owe.
ReloadStep ==
    \/ Begins \/ Signals \/ WaiterReceives
    \/ FileChangedIgnored \/ ReloadReads \/ ReloadApplies
    \/ Phase2Done
    \/ \E p \in preparation : PreparationEnds(p) \/ Phase2Ready(p)
    \/ WorkerStarts \/ WorkerBuilds \/ TerminalError
    \/ \E h \in held : SnapshotReady(h)

ReloadNext ==
    \/ ReloadStep
    \/ WriteFile \/ RemoveFile \/ WorkerGivesUp
    \/ CtrlR \/ EditApplied \/ EnterTimeTravel \/ Quits

ReloadSpec == ReloadInit /\ [][ReloadNext]_reloadVars

\* Writes, spurious signals and keys are bounded, so that fairness to all these steps
\* together is fairness to each; the file, the user and the worker's faults owe nothing.
ReloadFairSpec == ReloadSpec /\ WF_reloadVars(ReloadStep)

-----------------------------------------------------------------------------
(* Properties *)

ReloadTypeOK ==
    /\ done \subseteq 1..shown.analyzer
    /\ file \in 1..(MaxWrites + 1) /\ {missing, watching, unsignalled, changed} \subseteq BOOLEAN
    /\ armed \in Nat /\ inbox \in Nat
    /\ shown.stats \in 1..shown.analyzer /\ live \in 0..shown.analyzer
    /\ worker.at \in {"none", "installed", "running", "stopped"}
    /\ \A p \in preparation : p.at \in {"waiting", "ready"} /\ p.analyzer \in 1..shown.analyzer

(* The snapshot, the priority hints and the time-travel badges are of the  *)
(* issues that are shown, although Phase 2 is prepared elsewhere, analyses *)
(* are shared between reloads and two kinds of reload replace the issues   *)
(* (the handlers of FileChangedMsg, Phase2ReadyMsg and SnapshotReadyMsg).  *)
ShownTogether ==
    /\ snapshot # NoSnapshot => snapshot.issues = shown.issues
    /\ {hints, travel} \subseteq {NoIssues, shown.issues}

(* What is shown never goes back to an older revision of the file, neither *)
(* when a reload takes over from a worker whose messages are on their way  *)
(* nor the other way round (backgroundWorkerMsg, FileChangedMsg).          *)
ScreenGoesForward == [][shown'.issues >= shown.issues]_reloadVars

\* Something watches the file, and what it holds can be loaded.
Followed ==
    /\ began /\ ~quit /\ ~missing
    /\ worker.at \in {"installed", "running"} \/ (watching /\ ~early)

(* A readable file that stays as it is gets shown: after failed loads, in  *)
(* the middle of a reload or of the change to background mode; only what   *)
(* was written before the watcher's baseline waits for the next change     *)
(* (WatchFileCmd, FileChangedMsg).                                         *)
ScreenCatchesUp == []<>(Followed => shown.issues = file)

(* Phase 2 of what is shown arrives: no preparation is cancelled without   *)
(* another one for the issues that replaced its own (preparePhase2Cmd).    *)
Phase2Arrives == []<>(began => hints = shown.issues \/ quit)

=============================================================================
