----------------------------- MODULE ServicesProofs -----------------------------
(***************************************************************************)
(* The asynchronous services around the UI, each as a specification of its *)
(* own, for any number of tabs, lookups, datasets and revisions: nothing   *)
(* is sent on a closed channel, a lookup answers its bead, the index is of *)
(* the loaded issues, what is shown belongs together, and neither the index*)
(* file nor the screen goes back.                                          *)
(***************************************************************************)
EXTENDS MCServices, TLAPS

(* The reload of the file.  A preparation that carries the number of the       *)
(* analyzer in use was made for the issues that are shown; a reload under way  *)
(* excludes a worker; and the message of the worker in use is never behind the *)
(* screen, because only that worker has put anything there since it came.      *)

Prepared ==
    [stats : Nat, analyzer : Nat, issues : Nat,
     source : {NoSnapshot} \cup [analyzer : Nat, issues : Nat], at : {"waiting", "ready"}]

ReadInv ==
    /\ file \in 1 .. (MaxWrites + 1) /\ {missing, watching, unsignalled, changed} \subseteq BOOLEAN
    /\ armed \in Nat /\ inbox \in Nat
    /\ shown.issues \in 1 .. file /\ reading \in 0 .. file
    /\ reading # NotReading =>
          /\ began /\ worker.at = "none" /\ travel = NoIssues
          /\ shown.issues <= reading

ShownInv ==
    /\ shown.analyzer \in Nat \ {0} /\ shown.stats \in 1 .. shown.analyzer
    /\ done \subseteq 1 .. shown.analyzer
    /\ snapshot \in {NoSnapshot} \cup [analyzer : Nat, issues : Nat]
    /\ ShownTogether

PreparationInv ==
    /\ live \in 0 .. shown.analyzer
    /\ preparation \subseteq Prepared
    /\ \A p \in preparation :
          /\ p.analyzer \in 1 .. shown.analyzer
          /\ p.analyzer = shown.analyzer => p.issues = shown.issues

HeldInv ==
    /\ worker \in [no : Nat, at : {"none", "installed", "running", "stopped"}, built : Nat]
    /\ held \subseteq [by : Nat, issues : Nat]
    /\ \A h \in held :
          /\ h.by <= worker.no /\ h.issues \in 1 .. file
          /\ h.by = worker.no /\ worker.at # "none" => shown.issues <= h.issues
    /\ \A h, i \in held : h.by = i.by => h = i

ReloadInv == ReadInv /\ ShownInv /\ PreparationInv /\ HeldInv

\* What main has loaded is what is shown, and the first Phase 2 is of it.
LEMMA ReloadInitInv == ASSUME ReloadInit PROVE ReloadInv
<1>1. /\ shown.issues = 1 /\ shown.analyzer = 1 /\ shown.stats = 1 /\ done = {} /\ preparation = {}
      /\ live = 0 /\ held = {} /\ worker = [no |-> 0, at |-> "none", built |-> 0]
      /\ file \in {1, 2} /\ armed = 0 /\ inbox = 0 /\ reading = 0
      /\ missing = FALSE /\ watching = FALSE /\ unsignalled = FALSE /\ changed = FALSE
      /\ snapshot = NoSnapshot /\ hints = NoIssues /\ travel = NoIssues
  BY DEF ReloadInit, NotReading
<1>2. file \in 1 .. (MaxWrites + 1) /\ shown.issues \in 1 .. file /\ reading \in 0 .. file
  BY <1>1, ReloadAssumption
<1>3. ReadInv
  BY <1>1, <1>2 DEF ReadInv, NotReading
<1>4. ShownInv
  BY <1>1 DEF ShownInv, ShownTogether
<1> QED
  BY <1>1, <1>3, <1>4 DEF ReloadInv, PreparationInv, HeldInv

\* Steps of the file, the watcher and its waiters.
LEMMA WatchStepInv ==
    ASSUME ReloadInv, WriteFile \/ RemoveFile \/ Signals \/ WaiterReceives PROVE ReloadInv'
<1>1. UNCHANGED <<shown, snapshot, hints, travel, live, preparation, done, worker, held, reading, began>>
  BY DEF WriteFile, RemoveFile, Signals, WaiterReceives, shownVars, workerVars
<1>2. file' \in {file, file + 1} /\ (file' # file => file <= MaxWrites)
  BY DEF WriteFile, RemoveFile, Signals, WaiterReceives
<1>3. file \in Nat /\ file <= file' /\ file' \in 1 .. (MaxWrites + 1)
  BY <1>2, ReloadAssumption DEF ReloadInv, ReadInv
<1>4. armed' \in Nat /\ inbox' \in Nat
  BY DEF WriteFile, RemoveFile, Signals, WaiterReceives, ReloadInv, ReadInv
<1>5. {missing', watching', unsignalled', changed'} \subseteq BOOLEAN
  BY DEF WriteFile, RemoveFile, Signals, WaiterReceives, ReloadInv, ReadInv, watchState,
     Watch!FileWritten, Watch!FileRemoved, Watch!Publish, Watch!Forget, Watch!Receive
<1>6. ReadInv'
  BY <1>1, <1>3, <1>4, <1>5 DEF ReloadInv, ReadInv
<1>7. HeldInv'
  BY <1>1, <1>3 DEF ReloadInv, HeldInv
<1> QED
  BY <1>1, <1>6, <1>7 DEF ReloadInv, ShownInv, ShownTogether, PreparationInv

\* A handler that reads, or has nothing to read, and the keys that send a message.
LEMMA ReadsInv ==
    ASSUME ReloadInv, FileChangedIgnored \/ ReloadReads \/ EditApplied PROVE ReloadInv'
<1>1. UNCHANGED <<file, shown, snapshot, hints, live, preparation, done, worker, held, began,
                  missing, watching, unsignalled, changed>>
  BY DEF FileChangedIgnored, ReloadReads, EditApplied, shownVars, workerVars, watchState
<1>2. armed' \in Nat /\ inbox' \in Nat
  BY DEF FileChangedIgnored, ReloadReads, EditApplied, LoadFails, Rearmed, ReloadInv, ReadInv
<1>3. travel' \in {travel, NoIssues} /\ reading' \in {reading, file} /\ (reading = NotReading)
      /\ (reading' # NotReading => began /\ worker.at = "none" /\ travel' = NoIssues)
  BY DEF FileChangedIgnored, ReloadReads, EditApplied, Key, UpdateRuns, LoadFails, shownVars
<1>4. ReadInv'
  BY <1>1, <1>2, <1>3 DEF ReloadInv, ReadInv, NotReading
<1>5. ShownInv'
  BY <1>1, <1>3 DEF ReloadInv, ShownInv, ShownTogether
<1> QED
  BY <1>1, <1>4, <1>5 DEF ReloadInv, PreparationInv, HeldInv

\* preparePhase2Cmd for what is shown from now on.
LEMMA PreparesInv ==
    ASSUME preparation \subseteq Prepared, NEW s, NEW snap,
           s.analyzer \in Nat \ {0}, s.stats \in Nat, s.issues \in Nat,
           snap \in {NoSnapshot} \cup [analyzer : Nat, issues : Nat],
           \A p \in preparation : p.analyzer \in 1 .. s.analyzer
              /\ (p.analyzer = s.analyzer => p.issues = s.issues),
           Prepares(s, snap), shown' = s
    PROVE  PreparationInv'
<1> DEFINE q == [stats |-> s.stats, analyzer |-> s.analyzer, issues |-> s.issues,
                 source |-> snap, at |-> "waiting"]
<1>1. q \in Prepared /\ q.analyzer = s.analyzer /\ q.issues = s.issues
  BY DEF Prepared
<1>2. preparation' = Sent \cup {q} /\ live' = s.analyzer
  BY DEF Prepares
<1> HIDE DEF q
<1>3. Sent \subseteq preparation
  BY DEF Sent
<1>4. s.analyzer \in 1 .. s.analyzer /\ s.analyzer \in 0 .. s.analyzer
  OBVIOUS
<1> QED
  BY <1>1, <1>2, <1>3, <1>4 DEF PreparationInv

\* Init starts the watcher or the worker and prepares Phase 2 of what main has loaded.
LEMMA BeginsInv == ASSUME ReloadInv, Begins PROVE ReloadInv'
<1>1. /\ ~began /\ UNCHANGED <<file, inbox, reading, shown, done, snapshot, hints, travel, held>>
      /\ Prepares(shown, snapshot)
  BY DEF Begins
<1>2. PreparationInv'
  <2>1. shown.stats \in Nat /\ shown.issues \in Nat /\ shown.analyzer \in Nat \ {0}
    BY ReloadAssumption DEF ReloadInv, ReadInv, ShownInv
  <2> QED
    BY <1>1, <2>1, PreparesInv DEF ReloadInv, PreparationInv, ShownInv
<1>3. reading = NotReading
  BY <1>1 DEF ReloadInv, ReadInv
<1>4. {missing', watching', unsignalled', changed'} \subseteq BOOLEAN /\ armed' \in Nat
  <2>1. {missing, watching, unsignalled, changed} \subseteq BOOLEAN /\ armed \in Nat
    BY DEF ReloadInv, ReadInv
  <2>2. /\ UNCHANGED <<missing, unsignalled, changed>>
        /\ UNCHANGED watching \/ watching' = TRUE
    BY DEF Begins, watchState, Watch!Start
  <2>3. armed' = armed \/ armed' = 1
    BY DEF Begins
  <2>4. armed' \in Nat
    BY <2>1, <2>3
  <2>5. {missing', watching', unsignalled', changed'} \subseteq BOOLEAN
    BY <2>1, <2>2
  <2> QED
    BY <2>4, <2>5
<1>5. ReadInv'
  BY <1>1, <1>3, <1>4 DEF ReloadInv, ReadInv
<1>6. ShownInv'
  BY <1>1 DEF ReloadInv, ShownInv, ShownTogether
<1>7. HeldInv'
  <2>1. CASE UNCHANGED worker
    BY <1>1, <2>1 DEF ReloadInv, HeldInv
  <2>2. CASE Installs
    <3>1. worker' = [no |-> worker.no + 1, at |-> "installed", built |-> 0] /\ worker.no \in Nat
      BY <2>2 DEF Installs, ReloadInv, HeldInv
    <3>2. worker' \in [no : Nat, at : {"none", "installed", "running", "stopped"}, built : Nat]
          /\ worker'.no = worker.no + 1
      BY <3>1
    <3>3. \A h \in held : h.by \in Nat /\ h.by <= worker.no
      BY DEF ReloadInv, HeldInv
    <3> QED
      BY <1>1, <3>1, <3>2, <3>3 DEF ReloadInv, HeldInv
  <2> QED
    BY <2>1, <2>2 DEF Begins
<1> QED
  BY <1>2, <1>5, <1>6, <1>7 DEF ReloadInv

\* The end of a Phase 2 is taken only if it is of the load that is shown.
LEMMA Phase2Inv ==
    ASSUME ReloadInv,
           \/ Phase2Done
           \/ \E p \in preparation : PreparationEnds(p) \/ Phase2Ready(p)
    PROVE  ReloadInv'
<1>1. UNCHANGED <<file, missing, watching, unsignalled, changed, began, armed, inbox, reading, shown,
                  travel, worker, held>>
  BY DEF Phase2Done, PreparationEnds, Phase2Ready, watchState, shownVars, workerVars
<1>2. ReadInv' /\ HeldInv'
  BY <1>1 DEF ReloadInv, ReadInv, HeldInv
<1>3. CASE Phase2Done
  <2>1. done' = done \cup {shown.stats} /\ UNCHANGED <<snapshot, hints, live, preparation>>
    BY <1>3 DEF Phase2Done, shownVars
  <2> QED
    BY <1>1, <1>2, <2>1 DEF ReloadInv, ShownInv, ShownTogether, PreparationInv
<1>4. ASSUME NEW p \in preparation, PreparationEnds(p) PROVE ReloadInv'
  <2> DEFINE q == [p EXCEPT !.at = "ready"]
  <2>1. p \in Prepared
    BY DEF ReloadInv, PreparationInv
  <2>2. q \in Prepared /\ q.analyzer = p.analyzer /\ q.issues = p.issues
    BY <2>1 DEF Prepared
  <2>3. preparation' = (preparation \ {p}) \cup {q} /\ UNCHANGED <<snapshot, hints, live, done>>
    BY <1>4 DEF PreparationEnds
  <2> HIDE DEF q
  <2> QED
    BY <1>1, <1>2, <2>2, <2>3 DEF ReloadInv, ShownInv, ShownTogether, PreparationInv
<1>5. ASSUME NEW p \in preparation, Phase2Ready(p) PROVE ReloadInv'
  <2>1. preparation' = preparation \ {p} /\ UNCHANGED done /\ shown.analyzer \in Nat
    BY <1>5 DEF Phase2Ready, ReloadInv, ShownInv
  <2>2. CASE Superseded(p)
    <3>1. UNCHANGED <<snapshot, hints, live>>
      BY <1>5, <2>2 DEF Phase2Ready
    <3> QED
      BY <1>1, <1>2, <2>1, <3>1 DEF ReloadInv, ShownInv, ShownTogether, PreparationInv
  <2>3. CASE ~Superseded(p)
    <3>1. live' = 0 /\ snapshot' = [analyzer |-> p.analyzer, issues |-> p.issues] /\ hints' = p.issues
      BY <1>5, <2>3 DEF Phase2Ready
    <3>2. p.analyzer = shown.analyzer /\ p.issues = shown.issues /\ p.issues \in Nat
      BY <2>3 DEF Superseded, ReloadInv, PreparationInv, Prepared
    <3>3. snapshot' \in [analyzer : Nat, issues : Nat] /\ snapshot'.issues = shown.issues
      BY <2>1, <3>1, <3>2
    <3>4. ShownInv'
      BY <1>1, <2>1, <3>1, <3>2, <3>3 DEF ReloadInv, ShownInv, ShownTogether
    <3> QED
      BY <1>1, <1>2, <2>1, <3>1, <3>4 DEF ReloadInv, PreparationInv
  <2> QED
    BY <2>2, <2>3
<1> QED
  BY <1>3, <1>4, <1>5

\* Issues that replace the ones shown get an analyzer of their own.
LEMMA ReplacesInv ==
    ASSUME ReloadInv, NEW issues \in 1 .. file, NEW s \in Analyses(issues), NEW snap,
           snap \in {NoSnapshot} \cup [analyzer : Nat, issues : Nat],
           snap # NoSnapshot => snap.issues = issues,
           shown' = s, InUse(s), snapshot' = snap, Prepares(s, snap),
           hints' = NoIssues, travel' = NoIssues
    PROVE  ShownInv' /\ PreparationInv' /\ shown'.issues = issues
<1>1. PICK a \in {shown.analyzer + 1} \cup done :
         s = [issues |-> issues, analyzer |-> shown.analyzer + 1, stats |-> a]
  BY DEF Analyses
<1>2. /\ shown.analyzer \in Nat /\ shown.analyzer # 0 /\ done \subseteq 1 .. shown.analyzer
      /\ issues \in Nat
  BY ReloadAssumption DEF ReloadInv, ShownInv, ReadInv
<1>3. /\ s.issues = issues /\ s.analyzer = shown.analyzer + 1 /\ s.stats = a
      /\ s.analyzer \in Nat \ {0} /\ s.stats \in 1 .. s.analyzer /\ s.stats \in Nat
  BY <1>1, <1>2
<1>4. done' \subseteq done \cup {s.analyzer}
  BY DEF InUse
<1>5. done' \subseteq 1 .. s.analyzer
  BY <1>2, <1>3, <1>4
<1>6. ShownInv'
  BY <1>3, <1>5 DEF ShownInv, ShownTogether
<1>7. \A p \in preparation : p.analyzer \in 1 .. s.analyzer
              /\ (p.analyzer = s.analyzer => p.issues = s.issues)
  BY <1>2, <1>3 DEF ReloadInv, PreparationInv
<1>8. preparation \subseteq Prepared
  BY DEF ReloadInv, PreparationInv
<1>9. PreparationInv'
  BY <1>2, <1>3, <1>7, <1>8, PreparesInv
<1> QED
  BY <1>3, <1>6, <1>9

\* A reload in the event loop shows what it read, which is no older than the screen.
LEMMA AppliesInv == ASSUME ReloadInv, ReloadApplies PROVE ReloadInv' /\ shown'.issues >= shown.issues
<1>1. /\ reading # NotReading /\ reading' = NotReading /\ snapshot' = NoSnapshot /\ hints' = NoIssues
      /\ UNCHANGED <<file, began, inbox, travel, held>>
  BY DEF ReloadApplies, DropsSnapshot
<1>2. PICK s \in Analyses(reading) : shown' = s /\ InUse(s) /\ Prepares(s, NoSnapshot)
  BY DEF ReloadApplies, DropsSnapshot
<1>3. reading \in 1 .. file /\ shown.issues <= reading /\ travel = NoIssues /\ worker.at = "none"
  BY <1>1, ReloadAssumption DEF ReloadInv, ReadInv, NotReading
<1>4. ShownInv' /\ PreparationInv' /\ shown'.issues = reading
  BY <1>1, <1>2, <1>3, ReplacesInv
<1>5. {missing', watching', unsignalled', changed'} \subseteq BOOLEAN /\ armed' \in Nat
  <2>1. {missing, watching, unsignalled, changed} \subseteq BOOLEAN /\ armed \in Nat /\ armed + 1 \in Nat
    BY DEF ReloadInv, ReadInv
  <2>2. \/ UNCHANGED <<missing, watching, unsignalled, changed>> /\ armed' \in {armed, armed + 1}
        \/ watching' = FALSE /\ unsignalled' = FALSE /\ changed' = FALSE /\ UNCHANGED <<missing, armed>>
    BY DEF ReloadApplies, WaitsOrHandsOver, Rearmed, watchState, Watch!Stop
  <2> QED
    BY <2>1, <2>2
<1>6. ReadInv'
  BY <1>1, <1>3, <1>4, <1>5, ReloadAssumption DEF ReloadInv, ReadInv, NotReading
<1>7. HeldInv'
  <2>1. CASE UNCHANGED worker
    BY <1>1, <1>3, <2>1 DEF ReloadInv, HeldInv
  <2>2. CASE Installs
    <3>1. worker' = [no |-> worker.no + 1, at |-> "installed", built |-> 0] /\ worker.no \in Nat
      BY <2>2 DEF Installs, ReloadInv, HeldInv
    <3>2. worker' \in [no : Nat, at : {"none", "installed", "running", "stopped"}, built : Nat]
          /\ worker'.no = worker.no + 1
      BY <3>1
    <3>3. \A h \in held : h.by \in Nat /\ h.by <= worker.no
      BY DEF ReloadInv, HeldInv
    <3> QED
      BY <1>1, <3>1, <3>2, <3>3 DEF ReloadInv, HeldInv
  <2> QED
    BY <2>1, <2>2 DEF ReloadApplies, WaitsOrHandsOver
<1>8. shown.issues \in Nat /\ reading \in Nat
  BY <1>3, ReloadAssumption DEF ReloadInv, ReadInv
<1> QED
  BY <1>3, <1>4, <1>6, <1>7, <1>8 DEF ReloadInv

\* A worker's snapshot is shown with its own analysis, and it is no older than the screen.
LEMMA SnapshotReadyInv ==
    ASSUME ReloadInv, NEW h \in held, SnapshotReady(h)
    PROVE  ReloadInv' /\ shown'.issues >= shown.issues
<1>1. /\ reading = NotReading /\ held' = held \ {h}
      /\ UNCHANGED <<file, missing, watching, unsignalled, changed, began, armed, inbox, reading, worker>>
  BY DEF SnapshotReady, UpdateRuns, watchState
<1>2. shown.issues \in Nat /\ shown.issues \in 1 .. file /\ h.issues \in 1 .. file /\ h.issues \in Nat
  BY ReloadAssumption DEF ReloadInv, ReadInv, HeldInv
<1>3. CASE Accepts(h)
  <2>1. PICK s \in Analyses(h.issues) :
           LET snap == [analyzer |-> s.analyzer, issues |-> h.issues]
           IN  shown' = s /\ InUse(s) /\ snapshot' = snap /\ Prepares(s, snap)
    BY <1>3 DEF SnapshotReady
  <2>2. hints' = NoIssues /\ travel' = NoIssues
    BY <1>3 DEF SnapshotReady
  <2> DEFINE snap == [analyzer |-> s.analyzer, issues |-> h.issues]
  <2>3. s.analyzer = shown.analyzer + 1 /\ shown.analyzer \in Nat
    BY DEF Analyses, ReloadInv, ShownInv
  <2>4. snap \in [analyzer : Nat, issues : Nat] /\ snap.issues = h.issues
    BY <1>2, <2>3
  <2>5. shown' = s /\ InUse(s) /\ snapshot' = snap /\ Prepares(s, snap)
    BY <2>1
  <2> HIDE DEF snap
  <2>6. ShownInv' /\ PreparationInv' /\ shown'.issues = h.issues
    BY <1>2, <2>2, <2>4, <2>5, ReplacesInv
  <2>7. shown.issues <= h.issues /\ h.by = worker.no
    BY <1>3 DEF Accepts, ReloadInv, HeldInv
  <2>8. ReadInv'
    BY <1>1, <1>2, <2>6 DEF ReloadInv, ReadInv
  <2>9. \A i \in held' : i.by # worker.no
    BY <1>1, <2>7 DEF ReloadInv, HeldInv
  <2>10. HeldInv'
    BY <1>1, <2>9 DEF ReloadInv, HeldInv
  <2> QED
    BY <1>2, <2>6, <2>7, <2>8, <2>10 DEF ReloadInv
<1>4. CASE ~Accepts(h)
  <2>1. UNCHANGED <<shown, snapshot, hints, travel, live, preparation, done>>
    BY <1>4 DEF SnapshotReady, shownVars
  <2> QED
    BY <1>1, <1>2, <2>1 DEF ReloadInv, ReadInv, ShownInv, ShownTogether, PreparationInv, HeldInv
<1> QED
  BY <1>3, <1>4

\* The worker keeps its number, or is gone; what it builds is the file as it is.
LEMMA WorkerGoesOn ==
    ASSUME ReloadInv, UNCHANGED <<file, missing, watching, unsignalled, changed, began, armed, reading,
                                  shown, snapshot, hints, travel, live, preparation, done>>,
           inbox' \in Nat, reading # NotReading => worker' = worker, HeldInv'
    PROVE  ReloadInv'
<1>1. ReadInv'
  BY DEF ReloadInv, ReadInv
<1> QED
  BY <1>1 DEF ReloadInv, ShownInv, ShownTogether, PreparationInv

\* Starting, building, giving up and the way back to no worker change nothing shown.
LEMMA WorkerStepInv ==
    ASSUME ReloadInv, WorkerStarts \/ WorkerBuilds \/ WorkerGivesUp \/ TerminalError \/ CtrlR
    PROVE  ReloadInv'
<1>1. UNCHANGED <<file, missing, watching, unsignalled, changed, began, armed, reading,
                  shown, snapshot, hints, travel, live, preparation, done>>
  BY DEF WorkerStarts, WorkerBuilds, WorkerGivesUp, TerminalError, CtrlR, workerUnchanged, watchState,
     shownVars
<1>2. inbox' \in Nat
  BY DEF WorkerStarts, WorkerBuilds, WorkerGivesUp, TerminalError, CtrlR, workerUnchanged, ReloadInv, ReadInv
<1>3. reading = NotReading \/ worker.at # "none"
  BY DEF WorkerStarts, WorkerBuilds, WorkerGivesUp, TerminalError, CtrlR, Key, UpdateRuns
<1>4. reading = NotReading
  BY <1>3 DEF ReloadInv, ReadInv
<1>5. worker \in [no : Nat, at : {"none", "installed", "running", "stopped"}, built : Nat]
      /\ file \in Nat /\ shown.issues \in 1 .. file
  BY ReloadAssumption DEF ReloadInv, HeldInv, ReadInv
<1>6. CASE WorkerBuilds
  <2>1. /\ worker' = [worker EXCEPT !.built = file] /\ worker.at = "running"
        /\ held' = {h \in held : h.by # worker.no} \cup {[by |-> worker.no, issues |-> file]}
    BY <1>6 DEF WorkerBuilds
  <2>2. worker' \in [no : Nat, at : {"none", "installed", "running", "stopped"}, built : Nat]
        /\ worker'.no = worker.no
    BY <1>5, <2>1
  <2> DEFINE n == [by |-> worker.no, issues |-> file]
  <2>3. n \in [by : Nat, issues : Nat] /\ n.by = worker.no /\ n.issues = file /\ file \in 1 .. file
        /\ shown.issues <= file /\ worker.no <= worker.no
    BY <1>5
  <2> HIDE DEF n
  <2>4. held' = {h \in held : h.by # worker.no} \cup {n}
    BY <2>1 DEF n
  <2>5. HeldInv'
    <3>1. held' \subseteq [by : Nat, issues : Nat] /\ \A h, i \in held' : h.by = i.by => h = i
      BY <2>3, <2>4 DEF ReloadInv, HeldInv
    <3>2. \A h \in held' : /\ h.by <= worker.no /\ h.issues \in 1 .. file
                           /\ h.by = worker.no => shown.issues <= h.issues
      BY <2>3, <2>4 DEF ReloadInv, HeldInv
    <3> QED
      BY <1>1, <2>2, <3>1, <3>2 DEF HeldInv
  <2> QED
    BY <1>1, <1>2, <1>4, <2>5, WorkerGoesOn
<1>7. CASE ~WorkerBuilds
  <2>1. /\ UNCHANGED held /\ worker'.no = worker.no
        /\ worker' \in [no : Nat, at : {"none", "installed", "running", "stopped"}, built : Nat]
        /\ worker'.at # "none" => worker.at # "none"
    <3>1. UNCHANGED held
      BY <1>7 DEF WorkerStarts, WorkerGivesUp, TerminalError, CtrlR, workerVars
    <3>2. \/ \E state \in {"running", "stopped"} :
                worker' = [worker EXCEPT !.at = state] /\ worker.at \in {"installed", "running"}
          \/ worker' = [worker EXCEPT !.at = "none", !.built = 0]
          \/ worker' = [worker EXCEPT !.built = 0]
      BY <1>7 DEF WorkerStarts, WorkerGivesUp, TerminalError, CtrlR, At, Detached
    <3>3. ASSUME NEW state \in {"running", "stopped"}, worker' = [worker EXCEPT !.at = state],
                 worker.at \in {"installed", "running"}
          PROVE  /\ worker'.no = worker.no /\ worker.at # "none"
                 /\ worker' \in [no : Nat, at : {"none", "installed", "running", "stopped"}, built : Nat]
      BY <1>5, <3>3
    <3>4. CASE worker' = [worker EXCEPT !.at = "none", !.built = 0]
      BY <1>5, <3>1, <3>4
    <3>5. CASE worker' = [worker EXCEPT !.built = 0]
      BY <1>5, <3>1, <3>5
    <3> QED
      BY <3>1, <3>2, <3>3, <3>4, <3>5
  <2>2. HeldInv'
    BY <1>1, <2>1 DEF ReloadInv, HeldInv
  <2> QED
    BY <1>1, <1>2, <1>4, <2>2, WorkerGoesOn
<1> QED
  BY <1>6, <1>7

\* Time travel compares the issues that are shown; quitting changes nothing shown.
LEMMA UserInv == ASSUME ReloadInv, EnterTimeTravel \/ Quits PROVE ReloadInv'
<1>1. /\ reading = NotReading
      /\ UNCHANGED <<file, began, armed, inbox, reading, shown, snapshot, hints, preparation, done, worker, held>>
  BY DEF EnterTimeTravel, Quits, Key, UpdateRuns, workerVars
<1>2. {missing', watching', unsignalled', changed'} \subseteq BOOLEAN
  BY DEF EnterTimeTravel, Quits, watchState, Watch!Stop, ReloadInv, ReadInv
<1>3. travel' \in {travel, shown.issues} /\ live' \in {live, 0} /\ shown.analyzer \in Nat
  BY DEF EnterTimeTravel, Quits, ReloadInv, ShownInv
<1>4. ReadInv'
  BY <1>1, <1>2 DEF ReloadInv, ReadInv
<1>5. ShownInv'
  BY <1>1, <1>3 DEF ReloadInv, ShownInv, ShownTogether
<1> QED
  BY <1>1, <1>3, <1>4, <1>5 DEF ReloadInv, PreparationInv, HeldInv

\* Every step of the reload keeps its invariant.
LEMMA ReloadStepInv == ASSUME ReloadInv, [ReloadNext]_reloadVars PROVE ReloadInv'
<1>1. CASE UNCHANGED reloadVars
  BY <1>1 DEF reloadVars, watchState, shownVars, workerVars, ReloadInv, ReadInv, ShownInv, ShownTogether,
     PreparationInv, HeldInv
<1>2. CASE ReloadNext
  BY <1>2, WatchStepInv, ReadsInv, BeginsInv, Phase2Inv, AppliesInv, SnapshotReadyInv, WorkerStepInv,
     UserInv DEF ReloadNext, ReloadStep
<1> QED
  BY <1>1, <1>2

\* No step takes the screen back to an older revision.
LEMMA OnlyReloadsShow ==
    ASSUME ReloadInv, [ReloadNext]_reloadVars PROVE shown'.issues >= shown.issues
<1>1. \/ UNCHANGED shown
      \/ ReloadApplies
      \/ \E h \in held : SnapshotReady(h)
  BY DEF ReloadNext, ReloadStep, Begins, Signals, WaiterReceives, FileChangedIgnored, ReloadReads, Phase2Done,
     PreparationEnds, Phase2Ready, WorkerStarts, WorkerBuilds, TerminalError, WriteFile, RemoveFile,
     WorkerGivesUp, CtrlR, EditApplied, EnterTimeTravel, Quits, shownVars, reloadVars, workerUnchanged
<1>2. shown.issues \in Nat
  BY ReloadAssumption DEF ReloadInv, ReadInv
<1> QED
  BY <1>1, <1>2, AppliesInv, SnapshotReadyInv

\* What reloads, preparations and workers in flight may still bring to the screen
\* (FileChangedMsg, Phase2ReadyMsg, SnapshotReadyMsg).
THEOREM ReloadInvariant == ReloadSpec => []ReloadInv
BY ReloadInitInv, ReloadStepInv, PTL DEF ReloadSpec

\* The types of the file, the watcher, the worker and the preparations (Model).
THEOREM ReloadTypeCorrect == ReloadSpec => []ReloadTypeOK
<1>1. ReloadInv => ReloadTypeOK
  BY DEF ReloadInv, ReadInv, ShownInv, PreparationInv, HeldInv, Prepared, ReloadTypeOK
<1> QED
  BY <1>1, ReloadInvariant, PTL

\* Whatever Phase 2 preparations, reloads and workers overlap, the snapshot, the hints
\* and the time-travel badges are of the issues shown (Phase2ReadyMsg, FileChangedMsg).
THEOREM ShownTogetherHolds == ReloadSpec => []ShownTogether
<1>1. ReloadInv => ShownTogether
  BY DEF ReloadInv, ShownInv
<1> QED
  BY <1>1, ReloadInvariant, PTL

\* The screen never goes back to an older revision, whichever of the two kinds of
\* reload is under way (FileChangedMsg, backgroundWorkerMsg).
THEOREM ScreenGoesForwardHolds == ReloadSpec => ScreenGoesForward
<1>1. ReloadInv /\ [ReloadNext]_reloadVars => [shown'.issues >= shown.issues]_reloadVars
  BY OnlyReloadsShow
<1> QED
  BY <1>1, ReloadInvariant, PTL DEF ReloadSpec, ScreenGoesForward

-----------------------------------------------------------------------------
(* The session lookup: a goroutine works for one bead of one dataset, with the *)
(* correlator of that dataset, and what it hands over is of that dataset.      *)

LookState ==
    [at : LookPoints, bead : Bead \cup {NoBead}, data : 0 .. MaxData, with : 0 .. MaxData,
     cancelled : BOOLEAN, next : Nat, failed : BOOLEAN, found : BOOLEAN, from : 0 .. MaxData,
     usable : BOOLEAN]

LookResult == [bead : Bead \cup {NoBead}, found : BOOLEAN, from : 0 .. MaxData, complete : BOOLEAN]

\* What the goroutine of a lookup may hold.
LookupTrue(l) ==
    /\ l \in LookState
    /\ l.at # "unused" => l.with = l.data /\ l.data # 0
    /\ l.found => l.at \in {"finish", "sent", "done"}
    /\ l.found /\ l.at = "sent" => l.from = l.data

LookUIInv ==
    /\ dataGeneration \in 1 .. MaxData /\ selected \in Bead
    /\ request \in Request \cup {NoRequest}
    /\ request # NoRequest =>
          /\ ~lookup[request].cancelled /\ lookup[request].at \notin {"unused", "done"}
          /\ cassLookupIsCurrent(request, selected, dataGeneration)

\* A correlator serves one dataset with one detector.
CorrelatorInv ==
    /\ detector \in Detector \cup {"none"}
    /\ correlator \in {0, dataGeneration}
    /\ correlator # 0 => detector # "none" /\ probes[correlator] = detector
    /\ \A r \in Request :
          lookup[r].at # "unused" =>
             /\ lookup[r].data <= dataGeneration
             /\ correlator = 0 => lookup[r].data # dataGeneration
             /\ probes[lookup[r].with] \in Detector
    /\ probes \in [1 .. MaxData -> Detector \cup {"none"}]

ProberInv ==
    /\ prober \in [Detector -> Request \cup {Free}]
    /\ \A d \in Detector :
          prober[d] # Free =>
             lookup[prober[d]].at = "probe" /\ probes[lookup[prober[d]].with] = d

LookInv ==
    /\ LookUIInv /\ CorrelatorInv /\ ProberInv
    /\ lookup \in [Request -> LookState] /\ \A r \in Request : LookupTrue(lookup[r])
    /\ results \in [1 .. MaxData -> SUBSET LookResult] /\ IncompleteNeverCached

\* A later state of the same lookup.
Later(l, m) ==
    /\ LookupTrue(m) /\ m.bead = l.bead /\ m.data = l.data /\ m.with = l.with
    /\ m.cancelled = l.cancelled

\* A request number nobody has used yet is a lookup that claims nothing.
LEMMA UnusedLookup ==
    /\ LookupTrue(Unused) /\ Unused.at = "unused" /\ Unused.with = 0
BY LookupAssumption DEF Unused, LookupTrue, LookState, LookPoints

\* Before the first V no lookup runs and no correlator holds anything.
LEMMA LookInitInv == ASSUME LookInit PROVE LookInv
<1>1. \A r \in Request : lookup[r] = Unused
  BY DEF LookInit
<1>2. lookup \in [Request -> LookState] /\ \A r \in Request : LookupTrue(lookup[r])
  BY <1>1, UnusedLookup DEF LookInit, LookupTrue
<1>3. LookUIInv
  BY LookupAssumption DEF LookInit, LookUIInv
<1>4. CorrelatorInv
  BY <1>1, UnusedLookup, LookupAssumption DEF LookInit, CorrelatorInv
<1>5. ProberInv
  BY DEF LookInit, ProberInv
<1>6. results \in [1 .. MaxData -> SUBSET LookResult] /\ IncompleteNeverCached
  BY DEF LookInit, IncompleteNeverCached
<1> QED
  BY <1>2, <1>3, <1>4, <1>5, <1>6 DEF LookInv
-----------------------------------------------------------------------------
(* The goroutines *)

\* A queued command answers that it was cancelled, or goes to the health check.
LEMMA StartsLater ==
    ASSUME NEW l, LookupTrue(l), l.at = "queued"
    PROVE  Later(l, Send(l)) /\ Later(l, [l EXCEPT !.at = "check"])
           /\ Send(l).at = "sent" /\ [l EXCEPT !.at = "check"].at = "check"
BY DEF Later, LookupTrue, LookState, LookPoints, Send

\* A lookup that probes cass stays of the same bead and the same dataset.
LEMMA ProbesLater ==
    ASSUME NEW l, LookupTrue(l), l.at = "check"
    PROVE  Later(l, [l EXCEPT !.at = "probe"]) /\ [l EXCEPT !.at = "probe"].at = "probe"
BY DEF Later, LookupTrue, LookState, LookPoints

\* A search that is cut off or fails is marked so, and its empty answer is not complete.
LEMMA FailsLater ==
    ASSUME NEW l, LookupTrue(l), l.at \in {"check", "probe", "run"}
    PROVE  Later(l, Failed(l)) /\ Failed(l).at \in {"check", "finish"} /\ ~Failed(l).found
           /\ Later(l, [Failed(l) EXCEPT !.failed = l.failed])
           /\ [Failed(l) EXCEPT !.failed = l.failed].at \in {"check", "finish"}
<1>1. CASE l.next < Strategies
  <2>1. Failed(l) = [l EXCEPT !.failed = TRUE, !.at = "check", !.next = l.next + 1]
    BY <1>1 DEF Failed, LookupTrue, LookState
  <2>2. l \in LookState /\ l.next + 1 \in Nat /\ ~l.found
    BY DEF LookupTrue, LookState
  <2>3. /\ Failed(l) \in LookState /\ Failed(l).at = "check" /\ ~Failed(l).found
        /\ Failed(l).bead = l.bead /\ Failed(l).data = l.data /\ Failed(l).with = l.with
        /\ Failed(l).cancelled = l.cancelled
    BY <2>1, <2>2 DEF LookState, LookPoints
  <2> HIDE DEF Failed
  <2>4. Later(l, Failed(l))
    BY <2>3 DEF Later, LookupTrue
  <2>5. l.failed \in BOOLEAN
    BY <2>2 DEF LookState
  <2>6. Later(l, [Failed(l) EXCEPT !.failed = l.failed]) /\ [Failed(l) EXCEPT !.failed = l.failed].at = "check"
    BY <2>3, <2>4, <2>5 DEF Later, LookupTrue, LookState
  <2> QED
    BY <2>3, <2>4, <2>6
<1>2. CASE ~(l.next < Strategies)
  BY <1>2 DEF Later, LookupTrue, LookState, LookPoints, Failed
<1> QED
  BY <1>1, <1>2

\* After the health check a lookup goes on, fails or ends, for the same bead.
LEMMA ChecksLater ==
    ASSUME NEW l, LookupTrue(l), l.at \in {"check", "probe"}, NEW status
    PROVE  Later(l, Checked(l, status))
           /\ Checked(l, status).at \in {"sent", "correlate", "run", "check", "finish"}
<1>1. l.next \in Nat /\ l.cancelled \in BOOLEAN /\ l \in LookState
  BY DEF LookupTrue, LookState
<1>2. Usable(status) \in BOOLEAN
  BY DEF Usable
<1>3. CASE l.next = 0 /\ (l.cancelled \/ ~Usable(status))
  <2>1. Checked(l, status) = [Send(l) EXCEPT !.usable = Usable(status)]
    BY <1>3 DEF Checked
  <2> QED
    BY <1>1, <1>2, <2>1 DEF Later, LookupTrue, LookState, LookPoints, Send
<1>4. CASE l.next = 0 /\ ~l.cancelled /\ Usable(status)
  <2>1. Checked(l, status) = [l EXCEPT !.at = "correlate", !.usable = TRUE]
    BY <1>4 DEF Checked
  <2> QED
    BY <1>1, <2>1 DEF Later, LookupTrue, LookState, LookPoints
<1>5. CASE l.next > 0 /\ Usable(status)
  <2>1. Checked(l, status) = [l EXCEPT !.at = "run"]
    BY <1>1, <1>5 DEF Checked
  <2> QED
    BY <1>1, <2>1 DEF Later, LookupTrue, LookState, LookPoints
<1>6. CASE l.next > 0 /\ ~Usable(status)
  <2>1. Checked(l, status) = Failed(l)
    BY <1>1, <1>6 DEF Checked
  <2> QED
    BY <2>1, FailsLater
<1> QED
  BY <1>1, <1>3, <1>4, <1>5, <1>6

\* One goroutine goes on; a probe is the one thing others wait for.
LEMMA LookupGoesOn ==
    ASSUME LookInv, NEW r \in Request, NEW m, Later(lookup[r], m), lookup[r].at \notin {"unused", "done"},
           m.at \notin {"unused", "done"},
           Move(r, m), UNCHANGED uiPart,
           results' \in [1 .. MaxData -> SUBSET LookResult], IncompleteNeverCached',
           prober' \in [Detector -> Request \cup {Free}],
           \A d \in Detector : prober'[d] # Free =>
              \/ prober'[d] = r /\ m.at = "probe" /\ probes[m.with] = d
              \/ prober'[d] # r /\ prober'[d] = prober[d]
    PROVE  LookInv'
<1>1. UNCHANGED <<dataGeneration, selected, modal, request, correlator, detector, probes>>
  BY DEF uiPart
<1>2. m \in LookState /\ LookupTrue(m)
  BY DEF Later, LookupTrue
<1>3. /\ lookup' \in [Request -> LookState] /\ lookup'[r] = m
      /\ \A q \in Request \ {r} : lookup'[q] = lookup[q]
  BY <1>2 DEF Move, LookInv
<1>4. m.bead = lookup[r].bead /\ m.data = lookup[r].data /\ m.with = lookup[r].with
      /\ m.cancelled = lookup[r].cancelled
  BY DEF Later
<1>5. LookUIInv'
  BY <1>1, <1>3, <1>4 DEF LookInv, LookUIInv, cassLookupIsCurrent
<1>6. CorrelatorInv'
  BY <1>1, <1>3, <1>4 DEF LookInv, CorrelatorInv
<1>7. ProberInv'
  BY <1>1, <1>3 DEF LookInv, ProberInv
<1>8. \A q \in Request : LookupTrue(lookup'[q])
  BY <1>2, <1>3 DEF LookInv
<1> QED
  BY <1>3, <1>5, <1>6, <1>7, <1>8 DEF LookInv, LookupTrue

\* A lookup that does not probe leaves the one that probes alone.
LEMMA SameProber ==
    ASSUME LookInv, NEW r \in Request, lookup[r].at # "probe", UNCHANGED prober
    PROVE  /\ prober' \in [Detector -> Request \cup {Free}]
           /\ \A d \in Detector : prober'[d] # Free => prober'[d] # r /\ prober'[d] = prober[d]
BY DEF LookInv, ProberInv

\* Every step of a lookup goroutine keeps the invariant: what it finds and what it caches
\* is of the dataset of its own correlator, and nothing incomplete is cached.
LEMMA LookupStepInv ==
    ASSUME LookInv, NEW r \in Request, LookupStep(r) PROVE LookInv'
<1> DEFINE l == lookup[r]
<1>0. LookupTrue(l) /\ results \in [1 .. MaxData -> SUBSET LookResult] /\ IncompleteNeverCached
      /\ l \in LookState
  BY DEF LookInv
<1> HIDE DEF l
<1>1. CASE LookupStarts(r)
  <2>1. PICK m \in {Send(l), [l EXCEPT !.at = "check"]} :
           l.at = "queued" /\ Move(r, m) /\ UNCHANGED <<uiPart, results, prober>>
    BY <1>1 DEF LookupStarts, Quiet, l
  <2>2. Later(l, m) /\ m.at \notin {"unused", "done"}
    BY <1>0, <2>1, StartsLater
  <2>3. IncompleteNeverCached'
    BY <1>0, <2>1 DEF IncompleteNeverCached
  <2> QED
    BY <1>0, <2>1, <2>2, <2>3, SameProber, LookupGoesOn DEF l
<1>2. CASE Check(r)
  <2> DEFINE d == probes[l.with]
  <2>1. l.at = "check" /\ UNCHANGED <<uiPart, results>>
    BY <1>2 DEF Check, Quiet, l
  <2>2. IncompleteNeverCached'
    BY <1>0, <2>1 DEF IncompleteNeverCached
  <2>3. CASE Move(r, Checked(l, health[d])) /\ UNCHANGED prober
    <3>1. Later(l, Checked(l, health[d])) /\ Checked(l, health[d]).at \notin {"unused", "done"}
      BY <1>0, <2>1, ChecksLater
    <3> QED
      BY <1>0, <2>1, <2>2, <2>3, <3>1, SameProber, LookupGoesOn DEF l
  <2>4. CASE prober[d] = Free /\ prober' = [prober EXCEPT ![d] = r] /\ Move(r, [l EXCEPT !.at = "probe"])
    <3> DEFINE m == [l EXCEPT !.at = "probe"]
    <3>1. Later(l, m) /\ m.at = "probe"
      BY <1>0, <2>1, ProbesLater
    <3>2. m.with = l.with
      BY <3>1 DEF Later
    <3> HIDE DEF m
    <3>3. d \in Detector
      BY <2>1 DEF LookInv, CorrelatorInv, l
    <3>4. /\ prober' \in [Detector -> Request \cup {Free}] /\ prober'[d] = r
          /\ \A e \in Detector \ {d} : prober'[e] = prober[e]
      BY <2>4, <3>3 DEF LookInv, ProberInv
    <3>5. \A e \in Detector : prober[e] # r
      BY <2>1, LookupAssumption DEF LookInv, ProberInv, l
    <3>6. \A e \in Detector : prober'[e] # Free =>
              \/ prober'[e] = r /\ m.at = "probe" /\ probes[m.with] = e
              \/ prober'[e] # r /\ prober'[e] = prober[e]
      BY <3>1, <3>2, <3>4, <3>5
    <3>7. Move(r, m)
      BY <2>4 DEF m
    <3> QED
      BY <1>0, <2>1, <2>2, <3>1, <3>4, <3>6, <3>7, LookupGoesOn DEF l
  <2> QED
    BY <1>2, <2>3, <2>4 DEF Check, l
<1>3. CASE ProbeEnds(r)
  <2> DEFINE d == probes[l.with]
  <2>1. l.at = "probe" /\ UNCHANGED <<uiPart, results>> /\ prober' = [prober EXCEPT ![d] = Free]
    BY <1>3 DEF ProbeEnds, Quiet, UnlockProbe, l
  <2>2. PICK s \in Statuses : Move(r, Checked(l, s))
    BY <1>3 DEF ProbeEnds, l
  <2>3. IncompleteNeverCached'
    BY <1>0, <2>1 DEF IncompleteNeverCached
  <2>4. Later(l, Checked(l, s)) /\ Checked(l, s).at \notin {"unused", "done"}
    BY <1>0, <2>1, ChecksLater
  <2>5. prober' \in [Detector -> Request \cup {Free}]
    BY <2>1 DEF LookInv, ProberInv
  <2>6. ASSUME NEW e \in Detector, prober'[e] # Free PROVE prober'[e] # r /\ prober'[e] = prober[e]
    <3>1. prober \in [Detector -> Request \cup {Free}] /\ \A x \in Detector : prober[x] = r => probes[l.with] = x
      BY LookupAssumption DEF LookInv, ProberInv, l
    <3> QED
      BY <2>1, <2>6, <3>1
  <2> QED
    BY <1>0, <2>1, <2>2, <2>3, <2>4, <2>5, <2>6, LookupGoesOn DEF l
<1>4. CASE GetCached(r)
  <2>1. l.at = "correlate" /\ UNCHANGED <<uiPart, results, prober>>
    BY <1>4 DEF GetCached, Quiet, l
  <2>2. IncompleteNeverCached'
    BY <1>0, <2>1 DEF IncompleteNeverCached
  <2>3. l.with \in 1 .. MaxData /\ l.with = l.data
    BY <1>0, <2>1 DEF LookupTrue, LookState
  <2>4. ASSUME NEW e \in results[l.with], Move(r, [Send(l) EXCEPT !.found = e.found, !.from = e.from])
        PROVE  LookInv'
    <3> DEFINE m == [Send(l) EXCEPT !.found = e.found, !.from = e.from]
    <3>1. e \in LookResult /\ e.from = l.data
      BY <1>0, <2>3, <2>4 DEF IncompleteNeverCached
    <3>2. e.found \in BOOLEAN /\ e.from \in 0 .. MaxData
      BY <3>1 DEF LookResult
    <3>3. Later(l, m) /\ m.at = "sent"
      BY <1>0, <2>1, <3>1, <3>2 DEF Later, LookupTrue, LookState, LookPoints, Send
    <3> HIDE DEF m
    <3>4. Move(r, m)
      BY <2>4 DEF m
    <3> QED
      BY <1>0, <2>1, <2>2, <3>3, <3>4, SameProber, LookupGoesOn DEF l
  <2>5. CASE Move(r, [l EXCEPT !.at = "check", !.next = 1])
    <3> DEFINE m == [l EXCEPT !.at = "check", !.next = 1]
    <3>1. Later(l, m) /\ m.at = "check"
      BY <1>0, <2>1 DEF Later, LookupTrue, LookState, LookPoints
    <3> HIDE DEF m
    <3>2. Move(r, m)
      BY <2>5 DEF m
    <3> QED
      BY <1>0, <2>1, <2>2, <3>1, <3>2, SameProber, LookupGoesOn DEF l
  <2> QED
    BY <1>4, <2>4, <2>5 DEF GetCached, l
<1>5. CASE SearchEnds(r)
  <2> DEFINE Finds(ranOut) == [l EXCEPT !.at = "finish", !.found = TRUE, !.failed = l.failed \/ ranOut]
  <2>1. l.at = "run" /\ UNCHANGED <<uiPart, results, prober>>
    BY <1>5 DEF SearchEnds, Quiet, l
  <2>2. IncompleteNeverCached'
    BY <1>0, <2>1 DEF IncompleteNeverCached
  <2>3. ASSUME NEW ranOut \in BOOLEAN PROVE Later(l, Finds(ranOut)) /\ Finds(ranOut).at = "finish"
    BY <1>0, <2>1 DEF Later, LookupTrue, LookState, LookPoints
  <2>4. PICK m : Move(r, m) /\ m \in {Failed(l), [Failed(l) EXCEPT !.failed = l.failed]}
                                     \cup {Finds(ranOut) : ranOut \in BOOLEAN}
    <3>1. \/ Move(r, Failed(l)) \/ Move(r, [Failed(l) EXCEPT !.failed = l.failed])
          \/ \E ranOut \in BOOLEAN : Move(r, Finds(ranOut))
      BY <1>5 DEF SearchEnds, l
    <3> HIDE DEF Finds
    <3> QED
      BY <3>1
  <2>5. Later(l, m) /\ m.at \notin {"unused", "done"}
    <3> HIDE DEF Finds
    <3>1. m \in {Failed(l), [Failed(l) EXCEPT !.failed = l.failed]}
             => Later(l, m) /\ m.at \notin {"unused", "done"}
      BY <1>0, <2>1, FailsLater
    <3> QED
      BY <2>3, <2>4, <3>1
  <2>6. Move(r, m)
    BY <2>4
  <2> HIDE DEF Finds
  <2> QED
    BY <1>0, <2>1, <2>2, <2>5, <2>6, SameProber, LookupGoesOn DEF l
<1>6. CASE cacheResult(r)
  <2> DEFINE k == [l EXCEPT !.from = l.data]
             e == [bead |-> k.bead, found |-> k.found, from |-> k.from, complete |-> ~k.failed]
  <2>1. l.at = "finish" /\ UNCHANGED <<uiPart, prober>> /\ Move(r, Send(k))
    BY <1>6 DEF cacheResult, Quiet, l
  <2>2. /\ k.with = l.data /\ k.with \in 1 .. MaxData /\ k.from = l.data /\ k.bead \in Bead \cup {NoBead}
        /\ k.found \in BOOLEAN /\ k.failed \in BOOLEAN
    BY <1>0, <2>1 DEF LookupTrue, LookState
  <2>3. Later(l, Send(k)) /\ Send(k).at = "sent"
    BY <1>0, <2>1 DEF Later, LookupTrue, LookState, LookPoints, Send
  <2>4. e \in LookResult /\ e.from = k.with /\ e.complete = ~k.failed
    BY <2>2 DEF LookResult
  <2>5. \/ UNCHANGED results
        \/ ~k.failed /\ results' = [results EXCEPT ![k.with] = {x \in @ : x.bead # k.bead} \cup {e}]
    BY <1>6 DEF cacheResult, Cacheable, l
  <2> HIDE DEF k, e
  <2>6. results' \in [1 .. MaxData -> SUBSET LookResult] /\ IncompleteNeverCached'
    <3>1. CASE UNCHANGED results
      BY <1>0, <3>1 DEF IncompleteNeverCached
    <3>2. CASE ~k.failed /\ results' = [results EXCEPT ![k.with] = {x \in @ : x.bead # k.bead} \cup {e}]
      <4>1. /\ results'[k.with] \subseteq results[k.with] \cup {e}
            /\ \A g \in 1 .. MaxData : g # k.with => results'[g] = results[g]
            /\ DOMAIN results' = 1 .. MaxData
            /\ results' = [g \in 1 .. MaxData |-> results'[g]]
        BY <1>0, <2>2, <3>2
      <4>2. \A g \in 1 .. MaxData : results'[g] \subseteq LookResult
        BY <1>0, <2>4, <4>1
      <4>3. \A g \in 1 .. MaxData : \A x \in results'[g] : x.complete /\ x.from = g
        BY <1>0, <2>4, <3>2, <4>1 DEF IncompleteNeverCached
      <4> QED
        BY <4>1, <4>2, <4>3 DEF IncompleteNeverCached
    <3> QED
      BY <2>5, <3>1, <3>2
  <2> QED
    BY <1>0, <2>1, <2>3, <2>6, SameProber, LookupGoesOn DEF l
<1> QED
  BY <1>1, <1>2, <1>3, <1>4, <1>5, <1>6 DEF LookupStep
-----------------------------------------------------------------------------
(* The handlers of Update *)

\* Update answers, cancels or begins a lookup, and the goroutines notice later.
LEMMA LookupKept ==
    ASSUME LookInv, UNCHANGED <<results, prober>>, lookup' \in [Request -> LookState],
           probes' = probes,
           \A r \in Request : LookupTrue(lookup'[r]),
           \A r \in Request : /\ lookup'[r].with = lookup[r].with
                              /\ lookup[r].at = "probe" => lookup'[r].at = "probe",
           LookUIInv', CorrelatorInv'
    PROVE  LookInv'
<1>1. ProberInv'
  BY LookupAssumption DEF LookInv, ProberInv
<1>2. results' \in [1 .. MaxData -> SUBSET LookResult] /\ IncompleteNeverCached'
  BY DEF LookInv, IncompleteNeverCached
<1> QED
  BY <1>1, <1>2 DEF LookInv

\* Cancelling leaves all but the context as it is.
LEMMA Cancels ==
    ASSUME LookInv, NEW r \in Request, lookup' = [lookup EXCEPT ![r].cancelled = TRUE]
    PROVE  /\ lookup' \in [Request -> LookState] /\ \A q \in Request : LookupTrue(lookup'[q])
           /\ \A q \in Request : /\ lookup'[q].at = lookup[q].at /\ lookup'[q].bead = lookup[q].bead
                                 /\ lookup'[q].data = lookup[q].data /\ lookup'[q].with = lookup[q].with
           /\ \A q \in Request \ {r} : lookup'[q] = lookup[q]
<1> DEFINE m == [lookup[r] EXCEPT !.cancelled = TRUE]
<1>1. lookup[r] \in LookState /\ LookupTrue(lookup[r]) /\ lookup \in [Request -> LookState]
  BY DEF LookInv
<1>2. /\ m \in LookState /\ m.at = lookup[r].at /\ m.bead = lookup[r].bead /\ m.data = lookup[r].data
      /\ m.with = lookup[r].with /\ m.found = lookup[r].found /\ m.from = lookup[r].from
  BY <1>1 DEF LookState
<1> HIDE DEF m
<1>3. LookupTrue(m)
  BY <1>1, <1>2 DEF LookupTrue
<1>4. lookup' = [lookup EXCEPT ![r] = m]
  BY DEF m
<1> QED
  BY <1>1, <1>2, <1>3, <1>4 DEF LookInv

\* The end of every Update keeps a request only if it is still for the selected bead
\* and the loaded dataset, and cancels it otherwise.
LEMMA AfterUpdateTrue ==
    ASSUME LookInv, NEW bead, NEW generation, NEW keep \in BOOLEAN, AfterUpdate(bead, generation, keep)
    PROVE  /\ lookup' \in [Request -> LookState] /\ \A q \in Request : LookupTrue(lookup'[q])
           /\ \A q \in Request : /\ lookup'[q].at = lookup[q].at /\ lookup'[q].bead = lookup[q].bead
                                 /\ lookup'[q].data = lookup[q].data /\ lookup'[q].with = lookup[q].with
           /\ \/ request' = NoRequest
              \/ keep /\ request' = request /\ lookup' = lookup /\ cassLookupIsCurrent(request, bead, generation)
<1>1. CASE request = NoRequest \/ (keep /\ cassLookupIsCurrent(request, bead, generation))
  BY <1>1 DEF AfterUpdate, LookInv
<1>2. CASE ~(request = NoRequest \/ (keep /\ cassLookupIsCurrent(request, bead, generation)))
  <2>1. request \in Request /\ request' = NoRequest /\ lookup' = [lookup EXCEPT ![request].cancelled = TRUE]
    BY <1>2 DEF AfterUpdate, LookInv, LookUIInv
  <2> QED
    BY <2>1, Cancels
<1> QED
  BY <1>1, <1>2

\* Cancelling, moving the selection and closing the window keep the invariant.
LEMMA CancellingInv ==
    ASSUME LookInv, PressCancel \/ SelectionMoves \/ CloseModal PROVE LookInv'
<1>1. CASE CloseModal
  BY <1>1 DEF CloseModal, cassPart, LookInv, LookUIInv, CorrelatorInv, ProberInv, IncompleteNeverCached,
     cassLookupIsCurrent
<1>2. CASE PressCancel \/ SelectionMoves
  <2>1. PICK b \in Bead, keep \in BOOLEAN : selected' = b /\ AfterUpdate(b, dataGeneration, keep)
    BY <1>2 DEF PressCancel, SelectionMoves, LookInv, LookUIInv
  <2>2. UNCHANGED <<dataGeneration, correlator, detector, probes, results, prober>>
    BY <1>2 DEF PressCancel, SelectionMoves, cassPart
  <2>3. /\ lookup' \in [Request -> LookState] /\ \A q \in Request : LookupTrue(lookup'[q])
        /\ \A q \in Request : /\ lookup'[q].at = lookup[q].at /\ lookup'[q].bead = lookup[q].bead
                              /\ lookup'[q].data = lookup[q].data /\ lookup'[q].with = lookup[q].with
        /\ \/ request' = NoRequest
           \/ request' = request /\ lookup' = lookup /\ cassLookupIsCurrent(request, b, dataGeneration)
    BY <2>1, AfterUpdateTrue
  <2>4. LookUIInv'
    BY <2>1, <2>2, <2>3 DEF LookInv, LookUIInv, cassLookupIsCurrent
  <2>5. CorrelatorInv'
    BY <2>2, <2>3 DEF LookInv, CorrelatorInv
  <2> QED
    BY <2>2, <2>3, <2>4, <2>5, LookupKept
<1> QED
  BY <1>1, <1>2

\* A reload drops the correlator with its cache, so later answers are of the new issues.
LEMMA DatasetUpdateInv == ASSUME LookInv, beginSemanticDatasetUpdate PROVE LookInv'
<1>1. /\ dataGeneration < MaxData /\ dataGeneration' = dataGeneration + 1 /\ correlator' = 0
      /\ AfterUpdate(selected, dataGeneration + 1, FALSE)
      /\ UNCHANGED <<selected, detector, probes, results, prober>>
  BY DEF beginSemanticDatasetUpdate, DropsCorrelator, cassPart
<1>2. /\ lookup' \in [Request -> LookState] /\ \A q \in Request : LookupTrue(lookup'[q])
      /\ \A q \in Request : /\ lookup'[q].at = lookup[q].at /\ lookup'[q].bead = lookup[q].bead
                            /\ lookup'[q].data = lookup[q].data /\ lookup'[q].with = lookup[q].with
      /\ request' = NoRequest
  BY <1>1, AfterUpdateTrue
<1>3. dataGeneration' \in 1 .. MaxData
  BY <1>1, LookupAssumption DEF LookInv, LookUIInv
<1>4. LookUIInv'
  BY <1>1, <1>2, <1>3 DEF LookInv, LookUIInv
<1>5. \A q \in Request : lookup[q].data \in Nat /\ dataGeneration \in Nat
  BY LookupAssumption DEF LookInv, LookUIInv, LookState
<1>6. CorrelatorInv'
  BY <1>1, <1>2, <1>5 DEF LookInv, CorrelatorInv
<1> QED
  BY <1>1, <1>2, <1>4, <1>6, LookupKept

\* A health probe touches no request, no correlator and no result.
LEMMA CassHealthInv == ASSUME LookInv, CassHealthMsg \/ StartupProbe PROVE LookInv'
<1>1. /\ UNCHANGED <<dataGeneration, selected, request, correlator, probes, results, prober, lookup>>
      /\ detector' \in {detector, AdoptIfNone(detector)}
  BY DEF CassHealthMsg, StartupProbe, uiPart, cassPart
<1>2. CorrelatorInv'
  BY <1>1 DEF LookInv, CorrelatorInv, AdoptIfNone, Detector
<1>3. LookUIInv'
  BY <1>1 DEF LookInv, LookUIInv, cassLookupIsCurrent
<1> QED
  BY <1>1, <1>2, <1>3, LookupKept DEF LookInv

\* Nor does a health status that has expired.
LEMMA HealthExpiresInv == ASSUME LookInv, NEW d \in Detector, HealthExpires(d) PROVE LookInv'
BY DEF HealthExpires, uiPart, LookInv, LookUIInv, CorrelatorInv, ProberInv, IncompleteNeverCached,
   cassLookupIsCurrent

\* V takes an unused request for the selected bead, with the correlator of the loaded
\* dataset.
LEMMA ShowModalInv ==
    ASSUME LookInv, NEW r \in Request, showCassSessionModal(r) PROVE LookInv'
<1> DEFINE m == [Unused EXCEPT !.at = "queued", !.bead = selected, !.data = dataGeneration,
                               !.with = correlator']
<1>1. /\ lookup[r] = Unused /\ request' = r /\ lookup' = [lookup EXCEPT ![r] = m]
      /\ detector' = IF detector = "none" THEN "own" ELSE detector
      /\ correlator' = IF correlator = 0 THEN dataGeneration ELSE correlator
      /\ probes' = IF correlator = 0 THEN [probes EXCEPT ![dataGeneration] = detector'] ELSE probes
      /\ UNCHANGED <<dataGeneration, selected, results, prober>>
  BY DEF showCassSessionModal, cassPart
<1>2. /\ dataGeneration \in 1 .. MaxData /\ dataGeneration # 0 /\ selected \in Bead
      /\ detector \in Detector \cup {"none"} /\ correlator \in {0, dataGeneration}
      /\ probes \in [1 .. MaxData -> Detector \cup {"none"}]
  BY DEF LookInv, LookUIInv, CorrelatorInv
<1>3. /\ correlator' = dataGeneration /\ detector' \in Detector
      /\ probes' \in [1 .. MaxData -> Detector \cup {"none"}] /\ probes'[dataGeneration] = detector'
      /\ \A g \in 1 .. MaxData \ {dataGeneration} : probes'[g] = probes[g]
      /\ correlator # 0 => probes' = probes
  BY <1>1, <1>2 DEF LookInv, CorrelatorInv, Detector
<1>4. /\ m \in LookState /\ m.at = "queued" /\ m.bead = selected /\ m.data = dataGeneration
      /\ m.with = dataGeneration /\ ~m.found /\ ~m.cancelled
  <2>1. m = [Unused EXCEPT !.at = "queued", !.bead = selected, !.data = dataGeneration,
                           !.with = dataGeneration]
    BY <1>3
  <2>2. Unused \in LookState /\ ~Unused.found /\ ~Unused.cancelled
    BY UnusedLookup DEF LookupTrue, Unused
  <2>3. dataGeneration \in 0 .. MaxData /\ selected \in Bead \cup {NoBead}
    BY <1>2, LookupAssumption
  <2> HIDE DEF m
  <2> QED
    BY <2>1, <2>2, <2>3 DEF LookState, LookPoints
<1> HIDE DEF m
<1>5. LookupTrue(m)
  BY <1>2, <1>4 DEF LookupTrue
<1>6. /\ lookup' \in [Request -> LookState] /\ lookup'[r] = m
      /\ \A q \in Request \ {r} : lookup'[q] = lookup[q]
      /\ \A q \in Request : LookupTrue(lookup'[q])
  BY <1>1, <1>4, <1>5 DEF LookInv
<1>7. LookUIInv'
  BY <1>1, <1>2, <1>4, <1>6 DEF LookUIInv, cassLookupIsCurrent
<1>8. ASSUME NEW q \in Request \ {r}, lookup[q].at # "unused"
      PROVE  probes'[lookup[q].with] = probes[lookup[q].with]
  <2>1. lookup[q].with \in 1 .. MaxData /\ lookup[q].with = lookup[q].data
    BY <1>8 DEF LookInv, LookupTrue, LookState
  <2> QED
    BY <1>3, <1>8, <2>1 DEF LookInv, CorrelatorInv
<1>9. dataGeneration \in Nat
  BY <1>2
<1>10. CorrelatorInv'
  BY <1>1, <1>2, <1>3, <1>4, <1>6, <1>8, <1>9 DEF LookInv, CorrelatorInv
<1>11. ASSUME NEW d \in Detector, prober[d] # Free
       PROVE  lookup'[prober[d]].at = "probe" /\ probes'[lookup'[prober[d]].with] = d
  <2>1. prober[d] \in Request /\ lookup[prober[d]].at = "probe" /\ probes[lookup[prober[d]].with] = d
    BY <1>11 DEF LookInv, ProberInv
  <2>2. prober[d] # r
    BY <1>1, <2>1 DEF Unused
  <2> QED
    BY <1>6, <1>8, <2>1, <2>2
<1>12. ProberInv'
  BY <1>1, <1>11 DEF LookInv, ProberInv
<1> QED
  BY <1>1, <1>6, <1>7, <1>10, <1>12 DEF LookInv, IncompleteNeverCached

\* The answer of a lookup that is still the request; and only that one opens a window.
LEMMA AnswerInv ==
    ASSUME LookInv, NEW r \in Request, cassSessionsLoadedMsg(r)
    PROVE  LookInv' /\ OpensForSelection
<1> DEFINE current == request = r /\ cassLookupIsCurrent(r, selected, dataGeneration)
           m == [lookup[r] EXCEPT !.at = "done"]
           n == [m EXCEPT !.cancelled = TRUE]
<1>1. /\ lookup[r].at = "sent" /\ lookup[r] \in LookState /\ LookupTrue(lookup[r])
      /\ lookup \in [Request -> LookState]
      /\ UNCHANGED <<dataGeneration, selected, correlator, detector, probes, results, prober>>
  BY DEF cassSessionsLoadedMsg, cassPart, LookInv
<1>2. \A x \in {m, n} : /\ x \in LookState /\ x.at = "done" /\ x.bead = lookup[r].bead
                        /\ x.data = lookup[r].data /\ x.with = lookup[r].with
                        /\ x.found = lookup[r].found
  BY <1>1 DEF LookState, LookPoints
<1>3. LookupTrue(m) /\ LookupTrue(n)
  BY <1>1, <1>2 DEF LookupTrue
<1>4. /\ current => /\ request' = NoRequest
                    /\ modal' = IF lookup[r].usable /\ lookup[r].found
                                THEN {[bead |-> lookup[r].bead, from |-> lookup[r].from]} ELSE {}
      /\ ~current => UNCHANGED <<request, modal>>
  BY DEF cassSessionsLoadedMsg
<1>5. PICK x \in {m, n} : lookup' = [lookup EXCEPT ![r] = x]
  <2>1. CASE current
    <3>1. lookup' = [[lookup EXCEPT ![r].at = "done"] EXCEPT ![r].cancelled = TRUE]
      BY <2>1 DEF cassSessionsLoadedMsg
    <3>2. lookup' = [lookup EXCEPT ![r] = n]
      BY <1>1, <3>1
    <3> QED
      BY <3>2
  <2>2. CASE ~current
    BY <2>2 DEF cassSessionsLoadedMsg
  <2> QED
    BY <2>1, <2>2
<1> HIDE DEF m, n
<1>6. /\ lookup' \in [Request -> LookState] /\ lookup'[r] = x
      /\ \A q \in Request \ {r} : lookup'[q] = lookup[q]
      /\ \A q \in Request : LookupTrue(lookup'[q])
  BY <1>1, <1>2, <1>3, <1>5 DEF LookInv
<1>7. request = r => current
  BY LookupAssumption DEF LookInv, LookUIInv
<1>8. LookUIInv'
  <2>1. request' # NoRequest => request' = request /\ request' # r
    BY <1>4, <1>7
  <2> QED
    BY <1>1, <1>4, <1>6, <2>1 DEF LookInv, LookUIInv, cassLookupIsCurrent
<1>9. \A q \in Request : lookup'[q].with = lookup[q].with /\ lookup'[q].data = lookup[q].data
                         /\ (lookup'[q].at = "unused" <=> lookup[q].at = "unused")
  BY <1>1, <1>2, <1>6
<1>10. CorrelatorInv'
  BY <1>1, <1>9 DEF LookInv, CorrelatorInv
<1>11. \A q \in Request : lookup[q].at = "probe" => lookup'[q].at = "probe"
  BY <1>1, <1>6
<1>12. OpensForSelection
  <2>1. CASE current /\ lookup[r].found
    BY <1>1, <1>4, <2>1 DEF OpensForSelection, LookupTrue, cassLookupIsCurrent
  <2>2. CASE ~(current /\ lookup[r].found)
    BY <1>4, <2>2 DEF OpensForSelection
  <2> QED
    BY <2>1, <2>2
<1> QED
  BY <1>1, <1>6, <1>8, <1>9, <1>10, <1>11, <1>12, LookupKept

\* Every step of the lookups keeps the invariant.
LEMMA LookStepInv == ASSUME LookInv, [LookNext]_lookVars PROVE LookInv'
<1>1. CASE UNCHANGED lookVars
  BY <1>1 DEF lookVars, uiPart, cassPart, LookInv, LookUIInv, CorrelatorInv, ProberInv,
     IncompleteNeverCached, cassLookupIsCurrent
<1>2. CASE LookNext
  BY <1>2, CancellingInv, DatasetUpdateInv, CassHealthInv, HealthExpiresInv, ShowModalInv, AnswerInv,
     LookupStepInv DEF LookNext
<1> QED
  BY <1>1, <1>2

\* The window opens only for an answer to the selected bead.
LEMMA OnlyAnswersOpen ==
    ASSUME LookInv, [LookNext]_lookVars PROVE OpensForSelection
<1>1. ASSUME NEW r \in Request, LookupStep(r) PROVE UNCHANGED modal
  BY <1>1 DEF LookupStep, LookupStarts, Check, ProbeEnds, GetCached, SearchEnds, cacheResult, Quiet, uiPart
<1>2. modal' = modal \/ modal' = {} \/ \E r \in Request : cassSessionsLoadedMsg(r)
  BY <1>1 DEF LookNext, PressCancel, SelectionMoves, CloseModal, beginSemanticDatasetUpdate,
     CassHealthMsg, StartupProbe, showCassSessionModal, HealthExpires, lookVars, uiPart
<1> QED
  BY <1>2, AnswerInv DEF OpensForSelection

\* What a lookup, its correlator and the two detectors hold for each other
\* (showCassSessionModal, Correlator.Correlate, Detector.Check).
THEOREM LookInvariant == LookSpec => []LookInv
BY LookInitInv, LookStepInv, PTL DEF LookSpec

\* The types of the UI's part and of the lookups (cassSessionsLoadedMsg).
THEOREM LookTypeCorrect == LookSpec => []LookTypeOK
<1>1. LookInv => LookTypeOK
  BY LookupAssumption DEF LookInv, LookTypeOK, LookUIInv, CorrelatorInv, ProberInv, LookState
<1> QED
  BY <1>1, LookInvariant, PTL

\* Whatever was cancelled, moved or reloaded since V was pressed, a window of sessions
\* is of the selected bead and of the loaded dataset, and no incomplete result is ever
\* in a cache (cassLookupIsCurrent, cacheResult, beginSemanticDatasetUpdate).
THEOREM LookupsAnswerTheirBeadHolds == LookSpec => LookupsAnswerTheirBead
<1>1. LookInv /\ LookInv' /\ [LookNext]_lookVars => [OpensForSelection /\ IncompleteNeverCached']_lookVars
  BY OnlyAnswersOpen DEF LookInv
<1> QED
  BY <1>1, LookInvariant, PTL DEF LookSpec, LookupsAnswerTheirBead

-----------------------------------------------------------------------------
(* The semantic index: builds are numbered, one build is accepted at most once, *)
(* and disk, active and pending save and the newest accepted build are in the   *)
(* order of their numbers.                                                      *)

BuildState ==
    [data : Nat, content : Issues, gen : Nat, at : {"queued", "loaded"}, changed : BOOLEAN]

FenceInv ==
    /\ loaded.data \in 1 .. MaxDatasets /\ loaded.content \in Issues /\ enabled \in BOOLEAN
    /\ fence \in [building : BOOLEAN, gen : Nat, data : Nat]
    /\ fence.data = IF fence.building THEN loaded.data ELSE 0
    /\ fence.building => \E b \in builds : b.gen = fence.gen /\ b.data = loaded.data
    /\ builds \subseteq BuildState /\ \A b \in builds : b.gen # 0
    /\ index # NoBuild => index.data = loaded.data

\* What was accepted is older than the build the fence waits for.
AcceptedInv ==
    /\ accepted.gen \in Nat /\ accepted.data \in Nat
    /\ accepted.gen <= fence.gen /\ accepted.data <= loaded.data
    /\ fence.building => accepted.gen < fence.gen

\* The saves, from the file to the newest accepted build.
SaveInv ==
    /\ disk.gen \in Nat /\ disk.data \in Nat
    /\ disk.gen <= accepted.gen /\ disk.data <= accepted.data
    /\ (saving = "none") <=> (active = NoBuild)
    /\ active # NoBuild =>
          /\ active.gen \in Nat /\ active.data \in Nat
          /\ disk.gen <= active.gen /\ disk.data <= active.data
          /\ active.gen <= accepted.gen /\ active.data <= accepted.data
          /\ saving = "writing" => disk.gen < active.gen
    /\ pending # NoBuild =>
          /\ active # NoBuild /\ pending.gen \in Nat /\ pending.data \in Nat
          /\ active.gen < pending.gen /\ active.data <= pending.data
          /\ pending.gen <= accepted.gen /\ pending.data <= accepted.data

IndexInv == FenceInv /\ AcceptedInv /\ SaveInv

\* Before the first ctrl+s there is no index, no build and no save.
LEMMA IndexInitInv == ASSUME IndexInit PROVE IndexInv
<1>1. loaded.data = 1 /\ loaded.content \in Issues /\ disk.data = 0 /\ disk.gen = 0
      /\ fence = [building |-> FALSE, gen |-> 0, data |-> 0] /\ accepted.gen = 0 /\ accepted.data = 0
  BY DEF IndexInit, NoBuild
<1>2. FenceInv
  <2>1. /\ fence \in [building : BOOLEAN, gen : Nat, data : Nat] /\ ~fence.building /\ fence.data = 0
        /\ loaded.data \in 1 .. MaxDatasets
    BY <1>1, IndexAssumption
  <2>2. builds = {} /\ index = NoBuild /\ enabled = FALSE
    BY DEF IndexInit
  <2> QED
    BY <1>1, <2>1, <2>2 DEF FenceInv
<1>3. AcceptedInv
  BY <1>1 DEF AcceptedInv
<1>4. SaveInv
  BY <1>1 DEF IndexInit, SaveInv
<1> QED
  BY <1>2, <1>3, <1>4 DEF IndexInv

\* A new build, or the one that runs.
LEMMA BuildStarts ==
    ASSUME NEW f \in [building : BOOLEAN, gen : Nat, data : Nat], NEW l,
           l.data \in 1 .. MaxDatasets, l.content \in Issues, startSemanticIndexBuild(f, l),
           builds \subseteq BuildState, \A b \in builds : b.gen # 0,
           f.building => f.data = l.data /\ \E b \in builds : b.gen = f.gen /\ b.data = l.data
    PROVE  /\ fence' \in [building : BOOLEAN, gen : Nat, data : Nat]
           /\ fence'.building /\ fence'.data = l.data
           /\ \E b \in builds' : b.gen = fence'.gen /\ b.data = l.data
           /\ builds' \subseteq BuildState /\ \A b \in builds' : b.gen # 0
           /\ \/ fence' = f
              \/ fence'.gen = f.gen + 1
<1>1. CASE Runs(f, l)
  BY <1>1 DEF startSemanticIndexBuild, Runs
<1>2. CASE ~Runs(f, l)
  <2> DEFINE b == Build(l, f.gen + 1)
  <2>1. /\ fence' = [building |-> TRUE, gen |-> f.gen + 1, data |-> l.data]
        /\ builds' = builds \cup {b}
    BY <1>2 DEF startSemanticIndexBuild
  <2>2. f.gen \in Nat /\ f.gen + 1 \in Nat /\ l.data \in Nat
    BY IndexAssumption
  <2>3. b \in BuildState /\ b.gen = f.gen + 1 /\ b.data = l.data
    BY <2>2 DEF Build, BuildState
  <2> HIDE DEF b
  <2> QED
    BY <2>1, <2>2, <2>3
<1> QED
  BY <1>1, <1>2

\* Abandoning the build under way moves its fence one generation on.
LEMMA AbandonedFence ==
    ASSUME NEW f \in [building : BOOLEAN, gen : Nat, data : Nat]
    PROVE  /\ Abandoned(f) \in [building : BOOLEAN, gen : Nat, data : Nat]
           /\ ~Abandoned(f).building /\ Abandoned(f).gen = f.gen + 1 /\ Abandoned(f).data = 0
BY DEF Abandoned

\* A reload drops the index and fences off the build, which may still report.
LEMMA DatasetReplacedInv == ASSUME IndexInv, DatasetReplaced PROVE IndexInv'
<1>1. PICK c \in Issues :
         LET l == [data |-> loaded.data + 1, content |-> c]
         IN  /\ loaded' = l
             /\ IF enabled THEN startSemanticIndexBuild(Abandoned(fence), l)
                ELSE fence' = Abandoned(fence) /\ UNCHANGED builds
  BY DEF DatasetReplaced
<1>2. /\ loaded.data < MaxDatasets /\ index' = NoBuild /\ pending' = NoBuild
      /\ UNCHANGED <<enabled, active, saving, disk, accepted>>
  BY DEF DatasetReplaced, IndexDropped
<1>3. /\ fence \in [building : BOOLEAN, gen : Nat, data : Nat] /\ loaded.data \in 1 .. MaxDatasets
      /\ builds \subseteq BuildState /\ \A b \in builds : b.gen # 0
  BY DEF IndexInv, FenceInv
<1>4. loaded'.data = loaded.data + 1 /\ loaded'.content \in Issues /\ loaded'.data \in 1 .. MaxDatasets
  BY <1>1, <1>2, <1>3, IndexAssumption
<1>5. /\ fence' \in [building : BOOLEAN, gen : Nat, data : Nat]
      /\ fence'.data = IF fence'.building THEN loaded'.data ELSE 0
      /\ fence'.building => \E b \in builds' : b.gen = fence'.gen /\ b.data = loaded'.data
      /\ builds' \subseteq BuildState /\ \A b \in builds' : b.gen # 0
      /\ fence'.gen > fence.gen
  <2>1. CASE enabled
    <3>1. startSemanticIndexBuild(Abandoned(fence), loaded')
      BY <1>1, <2>1
    <3>2. /\ Abandoned(fence) \in [building : BOOLEAN, gen : Nat, data : Nat]
          /\ ~Abandoned(fence).building /\ Abandoned(fence).gen = fence.gen + 1
      BY <1>3, AbandonedFence
    <3>3. fence.gen \in Nat
      BY <1>3
    <3> QED
      BY <1>3, <1>4, <3>1, <3>2, <3>3, BuildStarts
  <2>2. CASE ~enabled
    <3>1. fence' = Abandoned(fence) /\ UNCHANGED builds /\ fence.gen \in Nat
      BY <1>1, <1>3, <2>2
    <3> QED
      BY <1>3, <3>1, AbandonedFence
  <2> QED
    BY <2>1, <2>2
<1>6. FenceInv'
  BY <1>2, <1>4, <1>5 DEF IndexInv, FenceInv
<1>7. AcceptedInv'
  <2>1. fence.gen \in Nat /\ fence'.gen \in Nat /\ loaded.data \in Nat
    BY <1>3, <1>5
  <2> QED
    BY <1>2, <1>4, <1>5, <2>1 DEF IndexInv, AcceptedInv
<1>8. SaveInv'
  BY <1>2 DEF IndexInv, SaveInv
<1> QED
  BY <1>6, <1>7, <1>8 DEF IndexInv

\* ctrl+s starts a build unless there is an index; pressed again it abandons the build.
LEMMA ToggleInv == ASSUME IndexInv, ToggleOn \/ ToggleOff PROVE IndexInv'
<1>1. /\ fence \in [building : BOOLEAN, gen : Nat, data : Nat] /\ loaded.data \in 1 .. MaxDatasets
      /\ builds \subseteq BuildState /\ \A b \in builds : b.gen # 0
      /\ fence.building => fence.data = loaded.data /\ \E b \in builds : b.gen = fence.gen /\ b.data = loaded.data
  BY DEF IndexInv, FenceInv
<1>2. UNCHANGED <<loaded, index, active, pending, saving, disk, accepted>> /\ enabled' \in BOOLEAN
  BY DEF ToggleOn, ToggleOff
<1>3. /\ fence' \in [building : BOOLEAN, gen : Nat, data : Nat]
      /\ fence'.data = IF fence'.building THEN loaded.data ELSE 0
      /\ fence'.building => \E b \in builds' : b.gen = fence'.gen /\ b.data = loaded.data
      /\ builds' \subseteq BuildState /\ \A b \in builds' : b.gen # 0
      /\ \/ fence' = fence
         \/ fence'.gen > fence.gen
  <2>1. CASE fence' = fence /\ builds' = builds
    BY <1>1, <2>1 DEF IndexInv, FenceInv
  <2>2. CASE startSemanticIndexBuild(fence, loaded)
    <3>1. loaded.content \in Issues /\ fence.gen \in Nat
      BY <1>1 DEF IndexInv, FenceInv
    <3> QED
      BY <1>1, <2>2, <3>1, BuildStarts
  <2>3. CASE fence' = Abandoned(fence) /\ builds' = builds
    <3>1. fence.gen \in Nat
      BY <1>1
    <3> QED
      BY <1>1, <2>3, <3>1, AbandonedFence
  <2> QED
    BY <2>1, <2>2, <2>3 DEF ToggleOn, ToggleOff
<1>4. FenceInv'
  BY <1>2, <1>3 DEF IndexInv, FenceInv
<1>5. AcceptedInv'
  <2>1. fence.gen \in Nat /\ fence'.gen \in Nat
    BY <1>1, <1>3
  <2> QED
    BY <1>2, <1>3, <2>1 DEF IndexInv, AcceptedInv
<1>6. SaveInv'
  BY <1>2 DEF IndexInv, SaveInv
<1> QED
  BY <1>4, <1>5, <1>6 DEF IndexInv

\* A build reads the file at some moment and derives from it what it will hand over.
LEMMA BuildReadsInv ==
    ASSUME IndexInv, NEW b \in builds, LoadOrNewVectorIndex(b) PROVE IndexInv'
<1> DEFINE d == [b EXCEPT !.at = "loaded", !.changed = disk.content # b.content]
<1>1. d \in BuildState /\ d.gen = b.gen /\ d.data = b.data /\ b.gen # 0
  BY DEF IndexInv, FenceInv, BuildState
<1>2. builds' = (builds \ {b}) \cup {d} /\ UNCHANGED <<loaded, enabled, fence, index, active, pending, saving, disk, accepted>>
  BY DEF LoadOrNewVectorIndex
<1> HIDE DEF d
<1>3. builds' \subseteq BuildState /\ \A x \in builds' : x.gen # 0
  BY <1>1, <1>2 DEF IndexInv, FenceInv
<1>4. fence.building => \E x \in builds' : x.gen = fence.gen /\ x.data = loaded.data
  BY <1>1, <1>2 DEF IndexInv, FenceInv
<1>5. FenceInv'
  BY <1>2, <1>3, <1>4 DEF IndexInv, FenceInv
<1> QED
  BY <1>2, <1>5 DEF IndexInv, AcceptedInv, SaveInv

\* A build that is not the one the fence waits for may go.
LEMMA BuildGoes ==
    ASSUME FenceInv, NEW b \in builds, builds' = builds \ {b}, ~AcceptsBuild(b)
    PROVE  fence.building => \E x \in builds' : x.gen = fence.gen /\ x.data = loaded.data
BY DEF FenceInv, AcceptsBuild

\* The fence has no build to wait for when it accepts one.
LEMMA Accepting ==
    ASSUME IndexInv, NEW b \in builds, AcceptsBuild(b)
    PROVE  /\ Accepted \in [building : BOOLEAN, gen : Nat, data : Nat]
           /\ ~Accepted.building /\ Accepted.data = 0 /\ Accepted.gen = fence.gen
           /\ b.data = loaded.data /\ b.gen = fence.gen /\ accepted.gen < b.gen
           /\ b \in BuildState /\ b.gen \in Nat /\ b.data \in Nat /\ b # NoBuild
<1>1. /\ fence \in [building : BOOLEAN, gen : Nat, data : Nat] /\ b \in BuildState /\ b.gen # 0
      /\ loaded.data # 0
  BY DEF IndexInv, FenceInv
<1>2. fence.building /\ b.data = loaded.data /\ b.gen = fence.gen
  BY <1>1 DEF IndexInv, FenceInv, AcceptsBuild
<1>3. b.gen \in Nat /\ b.data \in Nat /\ b # NoBuild
  BY <1>1 DEF BuildState, NoBuild
<1> QED
  BY <1>1, <1>2, <1>3 DEF IndexInv, AcceptedInv, Accepted

\* A finished build is taken only if its generation and its dataset are the present ones.
LEMMA ReadyInv ==
    ASSUME IndexInv, NEW b \in builds, SemanticIndexReadyMsg(b) PROVE IndexInv'
<1>1. builds' = builds \ {b} /\ UNCHANGED <<loaded, enabled, disk>>
  BY DEF SemanticIndexReadyMsg
<1>2. builds' \subseteq BuildState /\ \A x \in builds' : x.gen # 0
  BY <1>1 DEF IndexInv, FenceInv
<1>3. CASE ~AcceptsBuild(b)
  <2>1. UNCHANGED <<fence, index, active, pending, saving, accepted>>
    BY <1>3 DEF SemanticIndexReadyMsg
  <2>2. fence.building => \E x \in builds' : x.gen = fence.gen /\ x.data = loaded.data
    BY <1>1, <1>3, BuildGoes DEF IndexInv
  <2>3. FenceInv'
    BY <1>1, <1>2, <2>1, <2>2 DEF IndexInv, FenceInv
  <2> QED
    BY <1>1, <2>1, <2>3 DEF IndexInv, AcceptedInv, SaveInv
<1>4. CASE AcceptsBuild(b)
  <2>1. fence' = Accepted /\ index' = b /\ accepted' = b
    BY <1>4 DEF SemanticIndexReadyMsg
  <2>2. /\ Accepted \in [building : BOOLEAN, gen : Nat, data : Nat]
        /\ ~Accepted.building /\ Accepted.data = 0 /\ Accepted.gen = fence.gen
        /\ b.data = loaded.data /\ b.gen = fence.gen /\ accepted.gen < b.gen
        /\ b.gen \in Nat /\ b.data \in Nat /\ b # NoBuild
    BY <1>4, Accepting
  <2>3. FenceInv'
    BY <1>1, <1>2, <2>1, <2>2 DEF IndexInv, FenceInv
  <2>4. AcceptedInv'
    BY <1>1, <2>1, <2>2 DEF AcceptedInv
  <2>5. accepted.gen \in Nat /\ accepted.data \in Nat /\ accepted.data <= b.data
    BY <2>2 DEF IndexInv, AcceptedInv
  <2>6. \/ UNCHANGED <<active, pending, saving>>
        \/ active # NoBuild /\ pending' = b /\ UNCHANGED <<active, saving>>
        \/ active = NoBuild /\ active' = b /\ saving' = "writing" /\ UNCHANGED pending
    BY <1>4 DEF SemanticIndexReadyMsg, queueSemanticIndexSave
  <2>7. SaveInv'
    <3>1. CASE UNCHANGED <<active, pending, saving>>
      BY <1>1, <2>1, <2>2, <2>5, <3>1 DEF IndexInv, SaveInv
    <3>2. CASE active # NoBuild /\ pending' = b /\ UNCHANGED <<active, saving>>
      BY <1>1, <2>1, <2>2, <2>5, <3>2 DEF IndexInv, SaveInv
    <3>3. CASE active = NoBuild /\ active' = b /\ saving' = "writing" /\ UNCHANGED pending
      <4>1. pending = NoBuild
        BY <3>3 DEF IndexInv, SaveInv
      <4> QED
        BY <1>1, <2>1, <2>2, <2>5, <3>3, <4>1 DEF IndexInv, SaveInv
    <3> QED
      BY <2>6, <3>1, <3>2, <3>3
  <2> QED
    BY <2>3, <2>4, <2>7 DEF IndexInv
<1> QED
  BY <1>3, <1>4

\* A build that failed leaves no index, and only the present one ends the search.
LEMMA BuildFailsInv ==
    ASSUME IndexInv, NEW b \in builds, IndexBuildFails(b) PROVE IndexInv'
<1>1. /\ builds' = builds \ {b} /\ UNCHANGED <<loaded, index, active, pending, saving, disk, accepted>>
  BY DEF IndexBuildFails
<1>2. builds' \subseteq BuildState /\ \A x \in builds' : x.gen # 0
  BY <1>1 DEF IndexInv, FenceInv
<1>3. FenceInv' /\ AcceptedInv'
  <2>1. CASE AcceptsBuild(b)
    <3>1. fence' = Accepted /\ enabled' = FALSE
      BY <2>1 DEF IndexBuildFails
    <3>2. /\ Accepted \in [building : BOOLEAN, gen : Nat, data : Nat]
          /\ ~Accepted.building /\ Accepted.data = 0 /\ Accepted.gen = fence.gen
      BY <2>1, Accepting
    <3>3. FenceInv'
      BY <1>1, <1>2, <3>1, <3>2 DEF IndexInv, FenceInv
    <3> QED
      BY <1>1, <3>1, <3>2, <3>3 DEF IndexInv, AcceptedInv
  <2>2. CASE ~AcceptsBuild(b)
    <3>1. UNCHANGED <<fence, enabled>>
      BY <2>2 DEF IndexBuildFails
    <3>2. fence.building => \E x \in builds' : x.gen = fence.gen /\ x.data = loaded.data
      BY <1>1, <2>2, BuildGoes DEF IndexInv
    <3> QED
      BY <1>1, <1>2, <3>1, <3>2 DEF IndexInv, FenceInv, AcceptedInv
  <2> QED
    BY <2>1, <2>2
<1> QED
  BY <1>1, <1>3 DEF IndexInv, SaveInv

\* A save writes what it was given; its end starts the save that waits, if any.
LEMMA SaveStepInv ==
    ASSUME IndexInv, SaveWrites \/ SaveFails \/ semanticIndexSaveDoneMsg PROVE IndexInv'
<1>1. UNCHANGED <<loaded, fence, index, builds, accepted>> /\ enabled' \in BOOLEAN
  BY DEF SaveWrites, SaveFails, semanticIndexSaveDoneMsg, IndexInv, FenceInv
<1>2. FenceInv' /\ AcceptedInv'
  BY <1>1 DEF IndexInv, FenceInv, AcceptedInv
<1>3. CASE SaveWrites
  <2>1. /\ saving = "writing" /\ saving' = "written" /\ disk'.gen = active.gen /\ disk'.data = active.data
        /\ UNCHANGED <<active, pending>>
    BY <1>3 DEF SaveWrites
  <2>2. active # NoBuild
    BY <2>1 DEF IndexInv, SaveInv
  <2>3. SaveInv'
    BY <1>1, <2>1, <2>2 DEF IndexInv, SaveInv
  <2> QED
    BY <1>2, <2>3 DEF IndexInv
<1>4. CASE SaveFails
  <2>1. saving = "writing" /\ saving' = "failed" /\ UNCHANGED <<active, pending, disk>>
    BY <1>4 DEF SaveFails
  <2>2. SaveInv'
    BY <1>1, <2>1 DEF IndexInv, SaveInv
  <2> QED
    BY <1>2, <2>2 DEF IndexInv
<1>5. CASE semanticIndexSaveDoneMsg
  <2>1. /\ pending' = NoBuild /\ UNCHANGED disk
        /\ \/ pending # NoBuild /\ active' = pending /\ saving' = "writing"
           \/ active' = NoBuild /\ saving' = "none"
    BY <1>5 DEF semanticIndexSaveDoneMsg, StartsNext
  <2>2. CASE pending # NoBuild /\ active' = pending /\ saving' = "writing"
    <3>1. SaveInv'
      BY <1>1, <2>1, <2>2 DEF IndexInv, SaveInv
    <3> QED
      BY <1>2, <3>1 DEF IndexInv
  <2>3. CASE active' = NoBuild /\ saving' = "none"
    <3>1. SaveInv'
      BY <1>1, <2>1, <2>3 DEF IndexInv, SaveInv
    <3> QED
      BY <1>2, <3>1 DEF IndexInv
  <2> QED
    BY <2>1, <2>2, <2>3
<1> QED
  BY <1>3, <1>4, <1>5

\* Every step of the index keeps its invariant.
LEMMA IndexStepInv == ASSUME IndexInv, [IndexNext]_indexVars PROVE IndexInv'
<1>1. CASE UNCHANGED indexVars
  BY <1>1 DEF indexVars, IndexInv, FenceInv, AcceptedInv, SaveInv
<1>2. CASE IndexNext
  BY <1>2, DatasetReplacedInv, ToggleInv, BuildReadsInv, ReadyInv, BuildFailsInv, SaveStepInv
     DEF IndexNext, IndexStep
<1> QED
  BY <1>1, <1>2

\* The order of the saves: the file only moves on, whatever fails or is overtaken
\* (queueSemanticIndexSave).
LEMMA FileGoesForward ==
    ASSUME IndexInv, [IndexNext]_indexVars, disk' # disk
    PROVE  disk'.gen > disk.gen /\ disk'.data >= disk.data
<1>1. SaveWrites
  BY DEF IndexNext, IndexStep, LoadOrNewVectorIndex, SemanticIndexReadyMsg, semanticIndexSaveDoneMsg,
     DatasetReplaced, ToggleOn, ToggleOff, SaveFails, IndexBuildFails, indexVars
<1>2. disk'.gen = active.gen /\ disk'.data = active.data /\ saving = "writing"
  BY <1>1 DEF SaveWrites
<1> QED
  BY <1>2 DEF IndexInv, SaveInv

\* The order of builds, acceptances and saves (startSemanticIndexBuild,
\* queueSemanticIndexSave).
THEOREM IndexInvariant == IndexSpec => []IndexInv
BY IndexInitInv, IndexStepInv, PTL DEF IndexSpec

\* The fence waits for a build that exists, and a save waits only behind another one
\* (semanticIndexBuilding, semanticIndexSavePending).
THEOREM IndexTypeCorrect == IndexSpec => []IndexTypeOK
<1>1. IndexInv => IndexTypeOK
  BY DEF IndexInv, FenceInv, SaveInv, IndexTypeOK
<1> QED
  BY <1>1, IndexInvariant, PTL

\* Whenever the builds of earlier datasets and of before the search was switched off
\* report, the search uses an index of the loaded issues (SemanticIndexReadyMsg).
THEOREM IndexIsOfLoadedIssuesHolds == IndexSpec => []IndexIsOfLoadedIssues
<1>1. IndexInv => IndexIsOfLoadedIssues
  BY DEF IndexInv, FenceInv, IndexIsOfLoadedIssues
<1> QED
  BY <1>1, IndexInvariant, PTL

\* A slow save is never written over a newer one (semanticIndexSaver).
THEOREM IndexFileGoesForward == IndexSpec => FileNeverGoesBack
<1>1. IndexInv /\ [IndexNext]_indexVars
         => [disk' # disk => disk'.gen > disk.gen /\ disk'.data >= disk.data]_indexVars
  BY FileGoesForward
<1> QED
  BY <1>1, IndexInvariant, PTL DEF IndexSpec, FileNeverGoesBack

-----------------------------------------------------------------------------
(* Live reload: clients whose channel may be sent to are in the map, and Stop  *)
(* closes channels only under the lock, while it empties the map.              *)

StreamState ==
    [pc : {"none", "register", "select", "leaving", "gone"}, cancelled : BOOLEAN,
     signal : BOOLEAN, closed : BOOLEAN, since : Nat]

LiveInv ==
    /\ LiveTypeOK /\ fsEvents <= bundle
    /\ stream \in [Connection -> StreamState]
    /\ notify = Idle \/ notify \subseteq hubClients
    /\ \A k \in hubClients : stream[k].pc \in {"select", "leaving"} /\ ~stream[k].closed
    /\ \A k \in Connection : stream[k].pc \in {"none", "register"} => ~stream[k].closed

\* What keeps the invariant as long as the map of clients stays as it is.
LEMMA StreamGoesOn ==
    ASSUME LiveInv, stream' \in [Connection -> StreamState],
           UNCHANGED <<hubClients, watchPc, notify>>,
           bundle' \in 0 .. MaxChanges, fsEvents' \in 0 .. bundle',
           \A k \in Connection :
              /\ stream'[k].closed = stream[k].closed
              /\ \/ stream'[k].pc = stream[k].pc
                 \/ stream[k].pc = "none" /\ stream'[k].pc = "register"
                 \/ stream[k].pc = "select" /\ stream'[k].pc = "leaving"
    PROVE  LiveInv'
<1>1. fsEvents' \in 0 .. MaxChanges /\ fsEvents' <= bundle'
  BY LiveReloadAssumption
<1>2. \A k \in hubClients : stream'[k].pc \in {"select", "leaving"} /\ ~stream'[k].closed
  BY DEF LiveInv, LiveTypeOK
<1>3. \A k \in Connection : stream'[k].pc \in {"none", "register"} => ~stream'[k].closed
  BY DEF LiveInv
<1>4. \A k \in Connection : stream'[k].pc \in {"none", "register", "select", "leaving", "gone"}
  BY DEF StreamState
<1> QED
  BY <1>1, <1>2, <1>3, <1>4 DEF LiveInv, LiveTypeOK

\* Before a page connects no channel is open.
LEMMA LiveInitInv == ASSUME LiveInit PROVE LiveInv
<1>1. ClosedStream \in StreamState /\ ClosedStream.pc = "none" /\ ~ClosedStream.closed
  BY DEF ClosedStream, StreamState
<1>2. \A k \in Connection : stream[k] = ClosedStream
  BY DEF LiveInit
<1>3. stream \in [Connection -> StreamState]
  BY <1>1 DEF LiveInit
<1>4. \A k \in Connection : stream[k].pc \in {"none", "register", "select", "leaving", "gone"}
  BY <1>1, <1>2
<1> QED
  BY <1>1, <1>2, <1>3, <1>4, LiveReloadAssumption DEF LiveInit, LiveInv, LiveTypeOK

\* Events of the file and the debounce touch no channel.
LEMMA LiveFilesInv == ASSUME LiveInv, FileChanges \/ DebouncePasses \/ OwnerWakes PROVE LiveInv'
<1>1. bundle' \in 0 .. MaxChanges /\ fsEvents' \in 0 .. bundle'
  BY LiveReloadAssumption DEF FileChanges, DebouncePasses, OwnerWakes, LiveInv, LiveTypeOK
<1>2. UNCHANGED <<stream, hubClients, watchPc, notify>>
  BY DEF FileChanges, DebouncePasses, OwnerWakes
<1> QED
  BY <1>1, <1>2, StreamGoesOn DEF LiveInv

\* Neither does what leaves the bundle and its events alone.
LEMMA LiveFrame ==
    ASSUME LiveInv, UNCHANGED <<bundle, fsEvents>>
    PROVE  bundle' \in 0 .. MaxChanges /\ fsEvents' \in 0 .. bundle'
BY LiveReloadAssumption DEF LiveInv, LiveTypeOK

\* A page that loads, disconnects or connects touches no channel either.
LEMMA BrowserInv ==
    ASSUME LiveInv, NEW p \in Page, PageLoads(p) \/ Disconnects(p) \/ \E k \in Connection : Connects(p, k)
    PROVE  LiveInv'
<1>1. UNCHANGED <<bundle, fsEvents, hubClients, watchPc, notify>>
  BY DEF PageLoads, Disconnects, Connects, hubVars
<1>2. CASE PageLoads(p)
  BY <1>1, <1>2, LiveFrame, StreamGoesOn DEF PageLoads, LiveInv
<1>3. CASE Disconnects(p)
  <2>1. /\ stream' \in [Connection -> StreamState]
        /\ \A k \in Connection : stream'[k].pc = stream[k].pc /\ stream'[k].closed = stream[k].closed
    BY <1>3 DEF Disconnects, LiveInv, StreamState
  <2> QED
    BY <1>1, <2>1, LiveFrame, StreamGoesOn
<1>4. ASSUME NEW k \in Connection, Connects(p, k) PROVE LiveInv'
  <2>1. stream[k].pc = "none" /\ stream' = [stream EXCEPT ![k].pc = "register"]
    BY <1>4 DEF Connects
  <2>2. stream' \in [Connection -> StreamState]
    BY <2>1 DEF LiveInv, StreamState
  <2>3. \A j \in Connection : /\ stream'[j].closed = stream[j].closed
                              /\ j # k => stream'[j].pc = stream[j].pc
    BY <2>1 DEF LiveInv, StreamState
  <2>4. stream'[k].pc = "register"
    BY <2>1 DEF LiveInv, StreamState
  <2> QED
    BY <1>1, <2>1, <2>2, <2>3, <2>4, LiveFrame, StreamGoesOn
<1> QED
  BY <1>2, <1>3, <1>4

\* A handler registers a channel it has opened, and unregisters it before it ends.
LEMMA HandlerInv ==
    ASSUME LiveInv, NEW k \in Connection, SSEHandler(k) PROVE LiveInv'
<1> USE DEF LiveInv
<1>1. CASE addClient(k)
  <2>1. /\ stream[k].pc = "register" /\ ~stream[k].closed /\ notify = Idle /\ hubClients' = hubClients \cup {k}
        /\ stream' = [stream EXCEPT ![k].pc = "select", ![k].since = bundle]
        /\ UNCHANGED <<bundle, fsEvents, notify, watchPc>>
    BY <1>1 DEF addClient, Unlocked
  <2>2. bundle \in Nat
    BY LiveReloadAssumption DEF LiveTypeOK
  <2>3. stream'[k].pc = "select" /\ ~stream'[k].closed /\ stream' \in [Connection -> StreamState]
    BY <2>1, <2>2 DEF StreamState
  <2>4. \A j \in Connection \ {k} : stream'[j] = stream[j]
    BY <2>1
  <2>5. \A j \in Connection : stream'[j].pc \in {"none", "register", "select", "leaving", "gone"}
    BY <2>3 DEF StreamState
  <2>6. hubClients' \subseteq Connection
    BY <2>1 DEF LiveTypeOK
  <2> QED
    BY <2>1, <2>3, <2>4, <2>5, <2>6 DEF LiveTypeOK
<1>2. CASE removeClient(k)
  <2>1. /\ stream[k].pc = "leaving" /\ notify = Idle /\ hubClients' = hubClients \ {k}
        /\ stream' = [stream EXCEPT ![k].pc = "gone"]
        /\ UNCHANGED <<bundle, fsEvents, notify, watchPc>>
    BY <1>2 DEF removeClient, Unlocked
  <2>2. stream'[k].pc = "gone" /\ stream' \in [Connection -> StreamState]
    BY <2>1 DEF StreamState
  <2>3. \A j \in Connection \ {k} : stream'[j] = stream[j]
    BY <2>1
  <2>4. \A j \in Connection : stream'[j].pc \in {"none", "register", "select", "leaving", "gone"}
    BY <2>2 DEF StreamState
  <2>5. hubClients' \subseteq Connection
    BY <2>1 DEF LiveTypeOK
  <2> QED
    BY <2>1, <2>2, <2>3, <2>4, <2>5 DEF LiveTypeOK
<1>3. CASE SSELeaves(k)
  <2>1. /\ stream[k].pc = "select" /\ stream' = [stream EXCEPT ![k].pc = "leaving"]
        /\ UNCHANGED <<bundle, fsEvents, hubClients, watchPc, notify>>
    BY <1>3 DEF SSELeaves, hubVars
  <2>2. stream' \in [Connection -> StreamState] /\ stream'[k].pc = "leaving"
    BY <2>1 DEF StreamState
  <2>3. \A j \in Connection : /\ stream'[j].closed = stream[j].closed
                              /\ j # k => stream'[j].pc = stream[j].pc
    BY <2>1 DEF StreamState
  <2> QED
    BY <2>1, <2>2, <2>3, LiveFrame, StreamGoesOn
<1>4. CASE SSEReloads(k)
  <2>1. UNCHANGED <<bundle, fsEvents, hubClients, watchPc, notify>>
    BY <1>4 DEF SSEReloads, hubVars
  <2>2. PICK cancelled \in BOOLEAN :
           stream' = [stream EXCEPT ![k] = [@ EXCEPT !.signal = FALSE, !.cancelled = cancelled]]
    <3>1. CASE stream' = [stream EXCEPT ![k].signal = FALSE, ![k].cancelled = TRUE]
      BY <3>1
    <3>2. CASE stream' = [stream EXCEPT ![k].signal = FALSE]
      <4>1. stream[k] \in StreamState
        OBVIOUS
      <4>2. [stream[k] EXCEPT !.signal = FALSE] =
            [stream[k] EXCEPT !.signal = FALSE, !.cancelled = stream[k].cancelled]
        BY <4>1 DEF StreamState
      <4>3. stream[k].cancelled \in BOOLEAN
        BY <4>1 DEF StreamState
      <4> QED
        BY <3>2, <4>2, <4>3
    <3> QED
      BY <1>4, <3>1, <3>2 DEF SSEReloads
  <2>3. stream' \in [Connection -> StreamState]
    BY <2>2 DEF StreamState
  <2>4. \A j \in Connection : stream'[j].closed = stream[j].closed /\ stream'[j].pc = stream[j].pc
    BY <2>2 DEF StreamState
  <2> QED
    BY <2>1, <2>3, <2>4, LiveFrame, StreamGoesOn
<1> QED
  BY <1>1, <1>2, <1>3, <1>4 DEF SSEHandler

\* The hub sends only to registered clients, and Stop closes their channels and forgets
\* them under the lock that a send holds too.
LEMMA HubInv == ASSUME LiveInv, HubStep PROVE LiveInv'
<1> USE DEF LiveInv
<1>1. CASE WatchEvent
  <2>1. fsEvents \in Nat /\ fsEvents > 0 /\ fsEvents' = fsEvents - 1 /\ bundle \in Nat
        /\ UNCHANGED <<bundle, stream, hubClients>>
    BY <1>1, LiveReloadAssumption DEF WatchEvent, LiveTypeOK
  <2>2. fsEvents' \in 0 .. MaxChanges /\ fsEvents' <= bundle'
    BY <2>1, LiveReloadAssumption DEF LiveTypeOK
  <2>3. hubClients # Idle
    BY DEF LiveTypeOK, Connection, Idle
  <2>4. (watchPc' = "notify" <=> notify' # Idle) /\ (notify' = Idle \/ notify' \subseteq hubClients')
    BY <1>1, <2>1, <2>3 DEF WatchEvent
  <2> QED
    BY <2>1, <2>2, <2>4 DEF LiveTypeOK
<1>2. CASE WatchDone
  BY <1>2 DEF WatchDone, LiveTypeOK
<1>3. CASE notifyClients
  <2>1. /\ watchPc = "notify" /\ notify # Idle /\ notify \subseteq hubClients /\ hubClients \subseteq Connection
        /\ UNCHANGED <<bundle, fsEvents, hubClients>>
    BY <1>3 DEF notifyClients, LiveTypeOK
  <2>2. ASSUME NEW k \in notify, notify' = notify \ {k},
               stream' = [stream EXCEPT ![k].signal = TRUE], UNCHANGED watchPc
        PROVE  LiveInv'
    <3>1. stream' \in [Connection -> StreamState]
      BY <2>2 DEF StreamState
    <3>2. \A j \in Connection : stream'[j].closed = stream[j].closed /\ stream'[j].pc = stream[j].pc
      BY <2>2 DEF StreamState
    <3>3. notify' # Idle /\ notify' \subseteq hubClients
      BY <2>1, <2>2 DEF Connection, Idle
    <3> QED
      BY <2>1, <2>2, <3>1, <3>2, <3>3 DEF LiveTypeOK
  <2>3. CASE notify = {} /\ notify' = Idle /\ watchPc' = "select" /\ UNCHANGED stream
    BY <2>1, <2>3 DEF LiveTypeOK
  <2> QED
    BY <1>3, <2>2, <2>3 DEF notifyClients
<1>4. CASE HubCloses
  <2>1. /\ notify = Idle /\ hubClients' = {} /\ UNCHANGED <<bundle, fsEvents, notify, watchPc>>
        /\ \A k \in Connection \ hubClients : stream'[k] = stream[k]
        /\ \A k \in hubClients : stream'[k] = [stream[k] EXCEPT !.closed = TRUE]
        /\ stream' = [k \in Connection |->
                     IF k \in hubClients THEN [stream[k] EXCEPT !.closed = TRUE] ELSE stream[k]]
    BY <1>4 DEF HubCloses, Unlocked, DropsClients, LiveTypeOK
  <2>2. \A k \in Connection : stream'[k] \in StreamState /\ stream'[k].pc = stream[k].pc
    BY <2>1 DEF StreamState
  <2>3. stream' \in [Connection -> StreamState]
    BY <2>1, <2>2
  <2>4. \A k \in Connection : stream[k].pc \in {"none", "register"} => stream'[k] = stream[k]
    BY <2>1
  <2> QED
    BY <2>1, <2>2, <2>3, <2>4 DEF LiveTypeOK
<1>5. CASE ShutdownBegins \/ ShutdownReturns
  <2>1. UNCHANGED <<bundle, stream, hubClients, watchPc, notify, fsEvents>>
    BY <1>5 DEF ShutdownBegins, ShutdownReturns, hubVars
  <2> QED
    BY <2>1 DEF LiveTypeOK
<1> QED
  BY <1>1, <1>2, <1>3, <1>4, <1>5 DEF HubStep

\* Every step of the hub, the handlers and the browser keeps the invariant.
LEMMA LiveStepInv == ASSUME LiveInv, [LiveNext]_liveVars PROVE LiveInv'
<1>1. CASE UNCHANGED liveVars
  BY <1>1 DEF liveVars, hubVars, LiveInv, LiveTypeOK
<1>2. CASE LiveNext
  BY <1>2, LiveFilesInv, BrowserInv, HandlerInv, HubInv DEF LiveNext
<1> QED
  BY <1>1, <1>2

\* The types of the hub and of its streams, and who may be sent to.
THEOREM LiveInvariant == LiveReloadSpec => []LiveInv
BY LiveInitInv, LiveStepInv, PTL DEF LiveReloadSpec

\* The hub's types (LiveReloadHub).
THEOREM LiveTypeCorrect == LiveReloadSpec => []LiveTypeOK
<1>1. LiveInv => LiveTypeOK
  BY DEF LiveInv
<1> QED
  BY <1>1, LiveInvariant, PTL

\* However pages come and go, signals are sent and the hub is stopped, no signal is
\* sent on a channel that is closed (notifyClients, LiveReloadHub.Stop).
THEOREM NoSendOnClosedHolds == LiveReloadSpec => []NoSendOnClosed
<1>1. LiveInv => NoSendOnClosed
  BY DEF LiveInv, LiveTypeOK, NoSendOnClosed
<1> QED
  BY <1>1, LiveInvariant, PTL

-----------------------------------------------------------------------------
(* Together, as the run of MCServices checks them. *)

\* Neither the index file nor the screen goes back to older issues
\* (semanticIndexSaver, SnapshotReadyMsg).
THEOREM NothingGoesBackHolds == IndexSpec /\ ReloadSpec => NothingGoesBack
BY IndexFileGoesForward, ScreenGoesForwardHolds DEF NothingGoesBack

\* The types of all the services that have a type invariant.
THEOREM ServicesTypeCorrect ==
    ReloadSpec /\ LookSpec /\ IndexSpec /\ LiveReloadSpec => []ServicesTypeOK
<1>1. ReloadTypeOK /\ LookTypeOK /\ IndexTypeOK /\ LiveTypeOK => ServicesTypeOK
  BY DEF ServicesTypeOK
<1> QED
  BY <1>1, ReloadTypeCorrect, LookTypeCorrect, IndexTypeCorrect, LiveTypeCorrect, PTL

=============================================================================
