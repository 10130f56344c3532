----------------------------- MODULE WorkerUIProofs -----------------------------
(***************************************************************************)
(* The UI uses the background worker as a client may: the composed system  *)
(* implements the specification of the worker, so what is proved of the    *)
(* worker alone holds beneath the UI too.  And what the UI adds: what is   *)
(* shown never goes back, the worker's last snapshot reaches the screen,   *)
(* and there is always somebody waiting for the worker's next message.     *)
(***************************************************************************)
EXTENDS WorkerUI, BackgroundWorkerProofs

\* Stop as the UI calls it, from the terminal-error handler and from Model.Stop,
\* is a client's RequestStop, or changes nothing.
LEMMA UIStops ==
    ASSUME UpdateRuns, Stop,
           UNCHANGED <<fileVars, dirty, forceNext, job, generation, recoveryCount,
                       currentRecipe, resultVars, mailbox, phase2, loopVars, startPc,
                       recoveryPc, clientVars>>
    PROVE  [Next]_vars
<1>1. CASE StopMarks
  <2>1. RequestStop
    BY <1>1 DEF UpdateRuns, RequestStop, clientUnchanged
  <2> QED
    BY <2>1 DEF Next, Client
<1>2. CASE UNCHANGED <<state, processScheduled, stopPc>>
  BY <1>2 DEF vars, refreshVars, lifeVars
<1> QED
  BY <1>1, <1>2 DEF Stop

\* Every handler, waiter and command of the UI is a client's step or leaves the
\* worker alone.
LEMMA UIStepIsWorkerStep ==
    ASSUME [UINext]_uiVars
    PROVE  [Next]_vars
<1>1. CASE WorkerStep
  BY <1>1 DEF WorkerStep, Next
<1>2. ASSUME NEW w \in Waiter, WaiterReceives(w)
      PROVE  [Next]_vars
  <2>1. ReceiveMessage
    BY <1>2 DEF WaiterReceives, ReceiveMessage, workerOnly, clientUnchanged, fileVars, refreshVars,
                resultVars, loopVars, lifeVars, clientVars
  <2> QED
    BY <2>1 DEF Next, Client
<1>3. ASSUME NEW w \in Waiter, WaiterEnds(w) \/ Update(w)
      PROVE  [Next]_vars
  <2>1. CASE UpdateTerminalError(w)
    BY <2>1, UIStops DEF UpdateTerminalError, Delivered
  <2>2. CASE ~UpdateTerminalError(w)
    BY <1>3, <2>2 DEF WaiterEnds, Update, UpdateDetached, UpdateSnapshotReady, UpdatePhase2, UpdateError
  <2> QED
    BY <2>1, <2>2
<1>4. CASE UpdateStartError
  BY <1>4 DEF UpdateStartError
<1>5. CASE FinishSetRecipe
  BY <1>5 DEF FinishSetRecipe, Next, Client
<1>6. CASE CtrlR \/ BrUpdateDone
  BY <1>6 DEF CtrlR, BrUpdateDone, Next, Client
<1>7. CASE Quit
  BY <1>7, UIStops DEF Quit
<1>8. ASSUME NEW r \in Recipe, SetActiveRecipe(r)
      PROVE  [Next]_vars
  BY <1>8 DEF SetActiveRecipe, Next, Client
<1>9. CASE UNCHANGED uiVars
  BY <1>9 DEF uiVars
<1> QED
  BY <1>1, <1>2, <1>3, <1>4, <1>5, <1>6, <1>7, <1>8, <1>9 DEF UINext, User

\* Whatever the user does and in whatever order messages are handled, the worker
\* beneath the UI behaves as the specification of the worker says.
THEOREM UIImplementsWorker == UISpec => Spec
<1>1. UIInit => Init
  BY DEF UIInit
<1> QED
  BY <1>1, UIStepIsWorkerStep, PTL DEF UISpec, Spec

\* So no change of file or recipe is lost, at most one build is accepted and a
\* stopped worker stays down, with the UI on top.
THEOREM WorkerInvariantsUnderUI ==
    UISpec => [](NoRefreshLost /\ OneBuilder /\ StoppedStaysDown)
BY UIImplementsWorker, NoRefreshIsLost, OneAcceptedBuilder, StoppedWorkerStaysDown, PTL

-----------------------------------------------------------------------------
(* Type correctness *)

UITypes ==
    /\ attached \in BOOLEAN /\ phase2Ready \in BOOLEAN /\ quit \in BOOLEAN
    /\ shown \in Snapshot \cup {NoSnapshot}
    /\ lastAppliedSnapshotVer \in Nat /\ lastWorkerGeneration \in Nat
    /\ waiter \in [Waiter -> {Off, Waiting} \cup [pc : {"holding"}, msg : Message]]
    /\ sentVer \in Nat /\ overtaken \in BOOLEAN /\ fenced \in BOOLEAN

\* What a waiter holds is a message of the worker.
LEMMA HeldMessages ==
    ASSUME UITypes, NEW w \in Waiter, waiter[w].pc = "holding"
    PROVE  /\ waiter[w].msg \in Message
           /\ waiter[w].msg.gen \in Nat
           /\ waiter[w].msg.snap \in Snapshot \cup {NoSnapshot}
           /\ waiter[w].msg.snap.ver \in Nat
BY DEF UITypes, Off, Waiting, Message, Snapshot, NoSnapshot

\* Every step of the composed system keeps the types of the UI's variables.
LEMMA UITypesStep ==
    ASSUME TypeOK, UITypes, [UINext]_uiVars
    PROVE  UITypes'
<1>1. CASE WorkerStep
  <2>1. \A v \in ReadySent : v \in Nat
    <3>1. \A g \in Goroutine : job[g].pc = "sending" => job[g].msg.snap.ver \in Nat
      BY JobFields DEF TypeOK, Message, Snapshot, NoSnapshot
    <3> QED
      BY <3>1 DEF ReadySent
  <2>2. sentVer' \in Nat
    BY <1>1, <2>1 DEF WorkerStep, UITypes
  <2>3. overtaken' \in BOOLEAN /\ fenced' \in BOOLEAN
    BY <1>1 DEF WorkerStep
  <2> QED
    BY <1>1, <2>2, <2>3 DEF WorkerStep, UITypes, uiState
<1>2. ASSUME NEW w \in Waiter, WaiterReceives(w)
      PROVE  UITypes'
  <2>1. Holding(mailbox) \in [pc : {"holding"}, msg : Message]
    BY <1>2 DEF WaiterReceives, TypeOK, Holding
  <2> QED
    BY <1>2, <2>1 DEF WaiterReceives, UITypes, history
<1>3. ASSUME NEW w \in Waiter, WaiterEnds(w) \/ Update(w)
      PROVE  UITypes'
  <2>1. CASE UpdateSnapshotReady(w)
    <3>1. waiter[w].pc = "holding" /\ waiter[w].msg.kind = "ready"
      BY <2>1 DEF UpdateSnapshotReady, Delivered
    <3>2. waiter' \in [Waiter -> {Off, Waiting} \cup [pc : {"holding"}, msg : Message]]
      BY <2>1 DEF UpdateSnapshotReady, Rearm, UITypes
    <3>3. lastWorkerGeneration' \in Nat
      BY <2>1, <3>1, HeldMessages DEF UpdateSnapshotReady, acceptWorkerGeneration, UITypes
    <3>4. overtaken' \in BOOLEAN /\ fenced' \in BOOLEAN /\ phase2Ready' \in BOOLEAN
      BY <2>1 DEF UpdateSnapshotReady, UITypes
    <3>5. shown' \in Snapshot \cup {NoSnapshot} /\ lastAppliedSnapshotVer' \in Nat
      BY <2>1, <3>1, HeldMessages DEF UpdateSnapshotReady, UITypes
    <3> QED
      BY <2>1, <3>2, <3>3, <3>4, <3>5 DEF UpdateSnapshotReady, UITypes
  <2>2. CASE UpdatePhase2(w) \/ UpdateError(w) \/ UpdateTerminalError(w)
    <3>1. waiter[w].pc = "holding"
      BY <2>2 DEF UpdatePhase2, UpdateError, UpdateTerminalError, Delivered
    <3>2. waiter' \in [Waiter -> {Off, Waiting} \cup [pc : {"holding"}, msg : Message]]
      BY <2>2 DEF UpdatePhase2, UpdateError, UpdateTerminalError, Rearm, UITypes
    <3>3. lastWorkerGeneration' \in Nat
      BY <2>2, <3>1, HeldMessages DEF UpdatePhase2, UpdateError, UpdateTerminalError,
                                      acceptWorkerGeneration, UITypes
    <3>4. attached' \in BOOLEAN /\ phase2Ready' \in BOOLEAN
      BY <2>2 DEF UpdatePhase2, UpdateError, UpdateTerminalError, UITypes
    <3> QED
      BY <2>2, <3>2, <3>3, <3>4 DEF UpdatePhase2, UpdateError, UpdateTerminalError, UITypes, history
  <2>3. CASE UpdateDetached(w) \/ WaiterEnds(w)
    BY <2>3 DEF UpdateDetached, WaiterEnds, UITypes, history
  <2> QED
    BY <1>3, <2>1, <2>2, <2>3 DEF Update
<1>4. CASE UpdateStartError
  BY <1>4 DEF UpdateStartError, UITypes, history
<1>5. CASE FinishSetRecipe
  BY <1>5 DEF FinishSetRecipe, uiUnchanged, UITypes, history
<1>6. CASE User
  <2>1. attached' \in BOOLEAN /\ quit' \in BOOLEAN
    BY <1>6 DEF User, CtrlR, BrUpdateDone, Quit, SetActiveRecipe, uiUnchanged, UITypes
  <2>2. waiter' \in [Waiter -> {Off, Waiting} \cup [pc : {"holding"}, msg : Message]]
    BY <1>6 DEF User, CtrlR, BrUpdateDone, Quit, SetActiveRecipe, UITypes
  <2> QED
    BY <1>6, <2>1, <2>2 DEF User, CtrlR, BrUpdateDone, Quit, SetActiveRecipe, uiUnchanged, UITypes, history
<1>7. CASE UNCHANGED uiVars
  BY <1>7 DEF uiVars, uiState, history, UITypes
<1> QED
  BY <1>1, <1>2, <1>3, <1>4, <1>5, <1>6, <1>7 DEF UINext

\* Every variable of the model and of the worker keeps its type.
THEOREM UITypeCorrect == UISpec => []UITypeOK
<1>1. UIInit => UITypes
  <2> SUFFICES ASSUME UIInit PROVE UITypes
    OBVIOUS
  <2>1. waiter \in [Waiter -> {Off, Waiting} \cup [pc : {"holding"}, msg : Message]]
    BY DEF UIInit
  <2> QED
    BY <2>1 DEF UIInit, UITypes
<1>2. TypeOK /\ UITypes /\ [UINext]_uiVars => UITypes'
  BY UITypesStep
<1>3. UISpec => []TypeOK
  BY UIImplementsWorker, WorkerTypeCorrect, PTL
<1>4. TypeOK /\ UITypes => UITypeOK
  BY DEF UITypes, UITypeOK
<1> QED
  BY <1>1, <1>2, <1>3, <1>4, PTL DEF UISpec

-----------------------------------------------------------------------------
(* The screen never goes back *)

\* The messages from which a snapshot may still reach the screen: about to be
\* sent, queued, or held by a waiter.
ReadyMessages ==
    {m \in {mailbox} \cup {waiter[w].msg : w \in {v \in Waiter : waiter[v].pc = "holding"}}
                     \cup {job[g].msg : g \in {h \in Goroutine : job[h].pc = "sending"}} :
       m.kind = "ready"}

\* Those snapshots, and the one on the screen.
Known == {m.snap : m \in ReadyMessages} \cup ({shown} \ {NoSnapshot})

\* Versions and file revisions of all of them agree, and the worker's snapshot
\* is the last: however messages overtake each other, a version that is higher
\* is of a revision that is no older.
Chronology ==
    /\ \A s \in Known : /\ s \in Snapshot
                        /\ s.ver <= snapshotVersion
                        /\ IF snapshot = NoSnapshot THEN state = "stopped"
                                                    ELSE s.rev <= snapshot.rev
    /\ \A s, t \in Known : s.ver < t.ver => s.rev <= t.rev
    /\ shown # NoSnapshot => shown.ver = lastAppliedSnapshotVer
    /\ \A p \in phase2 : p.msg.kind = "phase2"

\* Nothing new becomes known, and the worker's snapshot stays.
LEMMA ChronologyFrame ==
    ASSUME Chronology, Known' \subseteq Known, UNCHANGED <<snapshot, snapshotVersion>>,
           state = "stopped" => state' = "stopped",
           shown' # NoSnapshot => shown'.ver = lastAppliedSnapshotVer',
           \A p \in phase2' : p.msg.kind = "phase2"
    PROVE  Chronology'
BY DEF Chronology

\* The worker makes nothing known but by a commit: it sends what a goroutine
\* has to send, or something that is no snapshot.
LEMMA KnownFrame ==
    ASSUME UNCHANGED <<waiter, shown>>,
           \/ mailbox' = mailbox
           \/ mailbox'.kind # "ready"
           \/ \E g \in Goroutine : job[g].pc = "sending" /\ mailbox' = job[g].msg,
           \A g \in Goroutine : job'[g].pc = "sending" /\ job'[g].msg.kind = "ready"
                                => job'[g] = job[g]
    PROVE  Known' \subseteq Known
<1>1. ReadyMessages' \subseteq ReadyMessages
  BY DEF ReadyMessages
<1> QED
  BY <1>1 DEF Known

\* What send() leaves in the mailbox.
LEMMA AfterSendLeaves ==
    ASSUME NEW msg, mailbox' \in AfterSend(msg)
    PROVE  mailbox' \in {mailbox, msg, NoMessage}
BY DEF AfterSend

\* A commit makes its snapshot known, which is the last in both orders.
LEMMA CommitKeepsChronology ==
    ASSUME TypeOK, UITypes, Revisions, Chronology, UNCHANGED uiState,
           NEW g \in Goroutine, CommitSnapshot(g)
    PROVE  Chronology'
<1> DEFINE j == job[g]
           new == [ver |-> snapshotVersion + 1, rev |-> j.file.rev,
                   content |-> j.file.content, recipe |-> j.recipe]
<1>0. /\ job \in [Goroutine -> Job] /\ j.pc = "loaded"
      /\ UNCHANGED <<mailbox, phase2, waiter, shown, lastAppliedSnapshotVer>>
  BY DEF CommitSnapshot, TypeOK, uiState
<1>1. \A todo : job' = [job EXCEPT ![g] = todo] =>
          job'[g] = todo /\ \A h \in Goroutine \ {g} : job'[h] = job[h]
  BY <1>0
<1>2. CASE UNCHANGED <<snapshot, snapshotVersion>>
  <2>1. \E todo : /\ todo.pc = "sending" => todo.msg.kind # "ready"
                  /\ job' = [job EXCEPT ![g] = todo]
    <3>1. snapshotVersion + 1 # snapshotVersion
      BY DEF TypeOK
    <3>2. CASE job' = [job EXCEPT ![g] = Sending(LoadError(j.gen), dirty)]
      BY <3>2 DEF Sending, LoadError
    <3>3. CASE job' = [job EXCEPT ![g] = Free]
      BY <3>3 DEF Free
    <3>4. CASE job' = [job EXCEPT ![g] = Again]
      BY <3>4 DEF Again
    <3> QED
      BY <1>2, <3>1, <3>2, <3>3, <3>4 DEF CommitSnapshot
  <2>2. \A h \in Goroutine : job'[h].pc = "sending" /\ job'[h].msg.kind = "ready" => job'[h] = job[h]
    BY <1>1, <2>1
  <2>3. Known' \subseteq Known
    BY <1>0, <2>2, KnownFrame
  <2>4. state = "stopped" => state' = "stopped"
    BY DEF CommitSnapshot, Superseded
  <2> QED
    BY <1>0, <1>2, <2>3, <2>4, ChronologyFrame DEF Chronology
<1>3. CASE /\ ~Superseded(j) /\ snapshot' = new /\ snapshotVersion' = new.ver
           /\ job' = [job EXCEPT ![g] = Sending(Ready(new, j.gen), dirty)]
  <2>1. /\ j.file \in FileState /\ j.recipe \in Recipe /\ snapshotVersion \in Nat
        /\ file.rev \in Nat
    BY <1>0, JobFields DEF TypeOK, FileState
  <2>2. new \in Snapshot /\ new # NoSnapshot
        /\ new.ver = snapshotVersion + 1 /\ new.rev = j.file.rev
    BY <2>1 DEF Snapshot, FileState, NoSnapshot
  <2>3. ReadyMessages' \subseteq ReadyMessages \cup {Ready(new, j.gen)}
    BY <1>0, <1>1, <1>3 DEF ReadyMessages, Sending
  <2>4. Known' \subseteq Known \cup {new}
    BY <1>0, <2>3 DEF Known, Ready
  <2>5. \A s \in Known : /\ s \in Snapshot /\ s.ver \in Nat /\ s.rev \in Nat
                         /\ s.ver <= snapshotVersion /\ s.rev <= j.file.rev
    <3>1. state # "stopped" /\ Builds(g)
      BY <1>0, <1>3 DEF Superseded, Builds
    <3>2. snapshot # NoSnapshot => snapshot.rev \in Nat /\ snapshot.rev <= j.file.rev
      BY <1>0, <3>1 DEF Revisions, TypeOK, Snapshot
    <3> QED
      BY <2>1, <3>1, <3>2 DEF Chronology, Snapshot, FileState
  <2> HIDE DEF new
  <2>6. \A s \in Known' : s \in Snapshot /\ s.ver <= new.ver /\ s.rev <= new.rev
    BY <2>1, <2>2, <2>4, <2>5 DEF FileState, Snapshot
  <2>7. \A s, t \in Known' : s.ver < t.ver => s.rev <= t.rev
    <3> SUFFICES ASSUME NEW s \in Known', NEW t \in Known', s.ver < t.ver
                 PROVE  s.rev <= t.rev
      OBVIOUS
    <3>1. CASE s \in Known /\ t \in Known
      BY <3>1 DEF Chronology
    <3>2. CASE t = new
      BY <2>6, <3>2
    <3>3. CASE s = new /\ t \in Known
      BY <2>1, <2>2, <2>5, <3>3
    <3> QED
      BY <2>4, <3>1, <3>2, <3>3
  <2> QED
    BY <1>0, <1>3, <2>2, <2>6, <2>7 DEF Chronology
<1> HIDE DEF new
<1> QED
  BY <1>2, <1>3 DEF CommitSnapshot, resultVars, new

\* The worker on its own keeps what is known in order.
LEMMA WorkerKeepsChronology ==
    ASSUME TypeOK, UITypes, Life, StoppedStaysDown, Revisions, Chronology,
           Worker \/ Environment, UNCHANGED uiState
    PROVE  Chronology'
<1>0. /\ job \in [Goroutine -> Job]
      /\ UNCHANGED <<waiter, shown, lastAppliedSnapshotVer>>
  BY DEF TypeOK, uiState
<1>1. ASSUME UNCHANGED <<snapshot, snapshotVersion, phase2>>,
             state = "stopped" => state' = "stopped",
             \/ mailbox' = mailbox
             \/ mailbox'.kind # "ready",
             \A g \in Goroutine : job'[g].pc = "sending" => job'[g] = job[g]
      PROVE  Chronology'
  BY <1>0, <1>1, KnownFrame, ChronologyFrame DEF Chronology
<1>2. ASSUME UNCHANGED <<snapshot, snapshotVersion, phase2, mailbox, state>>,
             NEW jobs \in [Goroutine -> Job], TriggerRefreshFrom(jobs),
             \A g \in Goroutine : jobs[g] = job[g] \/ jobs[g] = Free
      PROVE  Chronology'
  <2>1. \A g \in Goroutine : job'[g].pc = "sending" => job'[g] = job[g]
    BY <1>2, TriggerKeepsJobs DEF Free, Spawned
  <2> QED
    BY <1>1, <1>2, <2>1
<1>3. ASSUME UNCHANGED <<snapshot, snapshotVersion, phase2, mailbox, state>>, TriggerRefreshFrom(job)
      PROVE  Chronology'
  BY <1>0, <1>2, <1>3
<1>4. ASSUME NEW g \in Goroutine, process(g)
      PROVE  Chronology'
  <2>1. CASE BeginProcess(g) \/ LoadIssues(g)
    <3>1. /\ UNCHANGED <<snapshot, snapshotVersion, phase2, mailbox>>
          /\ state = "stopped" => state' = "stopped"
          /\ \E todo : todo.pc # "sending" /\ job' = [job EXCEPT ![g] = todo]
      BY <2>1 DEF BeginProcess, LoadIssues, resultVars, Begun, Loaded, Free
    <3>2. \A h \in Goroutine : job'[h].pc = "sending" => job'[h] = job[h]
      BY <1>0, <3>1
    <3> QED
      BY <1>1, <3>1, <3>2
  <2>2. CASE CommitSnapshot(g)
    BY <2>2, CommitKeepsChronology
  <2>3. CASE SendResult(g)
    <3>1. /\ UNCHANGED <<snapshot, snapshotVersion, state>>
          /\ job[g].pc = "sending" /\ mailbox' \in AfterSend(job[g].msg)
          /\ \E todo \in {Free, Again} : job' = [job EXCEPT ![g] = todo]
      BY <2>3 DEF SendResult, resultVars
    <3>2. mailbox' = mailbox \/ mailbox' = job[g].msg \/ mailbox'.kind # "ready"
      BY <3>1, AfterSendLeaves DEF NoMessage
    <3>3. \A h \in Goroutine : job'[h].pc = "sending" => job'[h] = job[h]
      BY <1>0, <3>1 DEF Free, Again
    <3>4. Known' \subseteq Known
      BY <1>0, <3>1, <3>2, <3>3, KnownFrame
    <3>5. \A p \in phase2' : p.msg.kind = "phase2"
      BY <2>3 DEF SendResult, Chronology, Phase2
    <3> QED
      BY <1>0, <3>1, <3>4, <3>5, ChronologyFrame DEF Chronology
  <2>4. CASE RunAgain(g)
    <3>1. [job EXCEPT ![g] = Free] \in [Goroutine -> Job]
      BY <1>0, JobValues
    <3>2. \A h \in Goroutine : \/ [job EXCEPT ![g] = Free][h] = job[h]
                               \/ [job EXCEPT ![g] = Free][h] = Free
      BY <1>0
    <3>3. /\ UNCHANGED <<snapshot, snapshotVersion, phase2, mailbox, state>>
          /\ TriggerRefreshFrom([job EXCEPT ![g] = Free])
      BY <2>4 DEF RunAgain, resultVars
    <3> QED
      BY <1>2, <3>1, <3>2, <3>3
  <2> QED
    BY <1>4, <2>1, <2>2, <2>3, <2>4 DEF process
<1>5. ASSUME NEW p \in phase2, runPhase2Analysis(p)
      PROVE  Chronology'
  <2>1. /\ UNCHANGED <<snapshot, snapshotVersion, job, state>>
        /\ mailbox' = mailbox \/ mailbox'.kind # "ready"
    <3>1. p.msg.kind = "phase2"
      BY DEF Chronology
    <3> QED
      BY <1>5, <3>1, AfterSendLeaves DEF runPhase2Analysis, Phase2Completes, SendPhase2, resultVars,
                                        refreshVars, NoMessage
  <2>2. [p EXCEPT !.pc = "done"].msg = p.msg
    BY DEF TypeOK
  <2>3. \A q \in phase2' : q.msg.kind = "phase2"
    <3>1. phase2' \subseteq phase2 \cup {[p EXCEPT !.pc = "done"]}
      BY <1>5 DEF runPhase2Analysis, Phase2Completes, SendPhase2
    <3> QED
      BY <2>2, <3>1 DEF Chronology
  <2>4. Known' \subseteq Known
    BY <1>0, <2>1, KnownFrame
  <2> QED
    BY <1>0, <2>1, <2>3, <2>4, ChronologyFrame DEF Chronology
<1>6. CASE processLoop
  BY <1>1, <1>3, <1>6 DEF processLoop, LoopReceives, LoopTriggers, LoopExits, TriggerRefresh,
     refreshVars, resultVars
<1>7. CASE StartBegins \/ StartWatches \/ StopCancels
  BY <1>1, <1>7 DEF StartBegins, StartWatches, StopCancels, refreshVars, resultVars
<1>8. CASE StartRefreshes
  BY <1>3, <1>8 DEF StartRefreshes, TriggerRefresh, resultVars
<1>9. CASE StopAfterFailedStart
  BY <1>1, <1>9 DEF StopAfterFailedStart, Stop, StopMarks, resultVars
<1>10. CASE StopDropsSnapshot
  <2>1. /\ snapshot' = NoSnapshot /\ state' = "stopped"
        /\ UNCHANGED <<snapshotVersion, phase2, mailbox, job>>
    BY <1>10 DEF StopDropsSnapshot, Life, refreshVars
  <2>2. Known' = Known
    BY <1>0, <2>1 DEF Known, ReadyMessages
  <2> QED
    BY <1>0, <2>1, <2>2 DEF Chronology
<1>11. CASE RecoveryBegins
  BY <1>1, <1>11 DEF RecoveryBegins, resultVars
<1>12. CASE RecoveryRestarts
  BY <1>1, <1>12 DEF RecoveryRestarts, refreshVars, resultVars
<1>13. CASE RecoveryRefreshes
  BY <1>3, <1>13 DEF RecoveryRefreshes, ForceRefresh, resultVars
<1>14. CASE RecoveryReports
  <2>1. mailbox' = mailbox \/ mailbox'.kind # "ready"
    BY <1>14, AfterSendLeaves DEF RecoveryReports, Terminal, NoMessage
  <2> QED
    BY <1>1, <1>14, <2>1 DEF RecoveryReports, refreshVars, resultVars
<1>15. CASE RecoveryStops
  BY <1>1, <1>15 DEF RecoveryStops, Stop, StopMarks, resultVars
<1>16. CASE WriteFile \/ WatcherPublishes
  BY <1>1, <1>16 DEF WriteFile, WatcherPublishes, refreshVars, resultVars
<1> QED
  BY <1>4, <1>5, <1>6, <1>7, <1>8, <1>9, <1>10, <1>11, <1>12, <1>13, <1>14, <1>15, <1>16
     DEF Worker, Environment, attemptRecovery

ShownNotOlder == shown # NoSnapshot => shown'.rev >= shown.rev /\ shown'.ver >= shown.ver

\* Dropping messages, starting waiters and asking for refreshes makes nothing known.
LEMMA DroppingKeepsChronology ==
    ASSUME TypeOK, UITypes, Chronology,
           UNCHANGED <<snapshot, snapshotVersion, phase2, mailbox, shown, lastAppliedSnapshotVer>>,
           state = "stopped" => state' = "stopped",
           \A w \in Waiter : waiter'[w].pc = "holding" => waiter'[w] = waiter[w],
           \A g \in Goroutine : job'[g].pc = "sending" => job'[g] = job[g]
    PROVE  Chronology' /\ ShownNotOlder
<1>1. ReadyMessages' \subseteq ReadyMessages
  BY DEF ReadyMessages
<1>2. Known' \subseteq Known
  BY <1>1 DEF Known
<1>3. Chronology'
  BY <1>2, ChronologyFrame DEF Chronology
<1>4. ShownNotOlder
  BY DEF ShownNotOlder, UITypes, Snapshot
<1> QED
  BY <1>3, <1>4

\* UpdateSnapshotReady shows a known snapshot of a higher version.
LEMMA ShowingKeepsChronology ==
    ASSUME TypeOK, UITypes, Chronology, NEW w \in Waiter, UpdateSnapshotReady(w)
    PROVE  Chronology' /\ ShownNotOlder
<1> DEFINE msg == waiter[w].msg
<1>0. /\ waiter[w].pc = "holding" /\ msg \in ReadyMessages
      /\ waiter' = [waiter EXCEPT ![w] = Waiting]
      /\ UNCHANGED <<snapshot, snapshotVersion, phase2, mailbox, state, job>>
  BY DEF UpdateSnapshotReady, Delivered, Rearm, ReadyMessages, vars, resultVars, refreshVars
<1>1. \A v \in Waiter : waiter'[v].pc = "holding" => waiter'[v] = waiter[v]
  BY <1>0 DEF UITypes, Waiting
<1>2. CASE IgnoresReady(msg)
  <2>1. UNCHANGED <<shown, lastAppliedSnapshotVer>>
    BY <1>2 DEF UpdateSnapshotReady
  <2> QED
    BY <1>0, <1>1, <2>1, DroppingKeepsChronology
<1>3. CASE ~IgnoresReady(msg)
  <2>1. /\ shown' = msg.snap /\ lastAppliedSnapshotVer' = msg.snap.ver
        /\ ~(msg.snap.ver <= lastAppliedSnapshotVer)
    BY <1>3 DEF UpdateSnapshotReady, IgnoresReady
  <2>2. msg.snap \in Known
    BY <1>0 DEF Known
  <2>3. ReadyMessages' \subseteq ReadyMessages
    BY <1>0, <1>1 DEF ReadyMessages
  <2>4. Known' \subseteq Known
    BY <2>1, <2>2, <2>3 DEF Known
  <2>5. Chronology'
    BY <1>0, <2>1, <2>4, ChronologyFrame DEF Chronology
  <2>6. ShownNotOlder
    <3>1. SUFFICES ASSUME shown # NoSnapshot
                   PROVE  shown'.rev >= shown.rev /\ shown'.ver >= shown.ver
      BY DEF ShownNotOlder
    <3>2. shown \in Known /\ shown.ver = lastAppliedSnapshotVer
      BY <3>1 DEF Known, Chronology
    <3>3. /\ shown.ver \in Nat /\ shown.rev \in Nat
          /\ msg.snap.ver \in Nat /\ msg.snap.rev \in Nat
      BY <2>2, <3>2 DEF Chronology, Snapshot
    <3>4. shown.ver < msg.snap.ver
      BY <2>1, <3>2, <3>3
    <3>5. shown.rev <= msg.snap.rev
      BY <2>2, <3>2, <3>4 DEF Chronology
    <3> QED
      BY <2>1, <3>3, <3>4, <3>5
  <2> QED
    BY <2>5, <2>6
<1> QED
  BY <1>2, <1>3

\* Every step of the composed system keeps what is known in order, and shows
\* nothing older.
LEMMA ChronologyStep ==
    ASSUME IInv, UITypes, Chronology, [UINext]_uiVars
    PROVE  Chronology' /\ ShownNotOlder
<1>0. /\ TypeOK /\ Life /\ StoppedStaysDown /\ Revisions
      /\ waiter \in [Waiter -> {Off, Waiting} \cup [pc : {"holding"}, msg : Message]]
      /\ job \in [Goroutine -> Job]
  BY DEF IInv, UITypes, TypeOK
<1>1. ASSUME UNCHANGED <<snapshot, snapshotVersion, phase2, mailbox, shown, lastAppliedSnapshotVer>>,
             state = "stopped" => state' = "stopped",
             TriggerRefreshFrom(job) \/ UNCHANGED job,
             \/ UNCHANGED waiter
             \/ \E w \in Waiter, x \in {Off, Waiting} : waiter' = [waiter EXCEPT ![w] = x]
      PROVE  Chronology' /\ ShownNotOlder
  <2>1. \A w \in Waiter : waiter'[w].pc = "holding" => waiter'[w] = waiter[w]
    BY <1>0, <1>1 DEF Off, Waiting
  <2>2. \A g \in Goroutine : job'[g].pc = "sending" => job'[g] = job[g]
    BY <1>0, <1>1, TriggerKeepsJobs DEF Spawned
  <2> QED
    BY <1>0, <1>1, <2>1, <2>2, DroppingKeepsChronology
<1>2. CASE WorkerStep
  <2>1. Chronology'
    BY <1>0, <1>2, WorkerKeepsChronology DEF WorkerStep
  <2>2. ShownNotOlder
    BY <1>2 DEF WorkerStep, uiState, ShownNotOlder, UITypes, Snapshot
  <2> QED
    BY <2>1, <2>2
<1>3. ASSUME NEW w \in Waiter, WaiterReceives(w)
      PROVE  Chronology' /\ ShownNotOlder
  <2>1. /\ UNCHANGED <<snapshot, snapshotVersion, phase2, state, job, shown, lastAppliedSnapshotVer>>
        /\ mailbox' = NoMessage
        /\ waiter' = [waiter EXCEPT ![w] = Holding(mailbox)]
    BY <1>3 DEF WaiterReceives, workerOnly, resultVars, refreshVars
  <2>2. waiter'[w] = Holding(mailbox) /\ \A v \in Waiter \ {w} : waiter'[v] = waiter[v]
    BY <1>0, <2>1
  <2>3. ReadyMessages' \subseteq ReadyMessages
    BY <2>1, <2>2 DEF ReadyMessages, Holding, NoMessage
  <2>4. Known' \subseteq Known
    BY <2>1, <2>3 DEF Known
  <2>5. Chronology'
    BY <2>1, <2>4, ChronologyFrame DEF Chronology
  <2> QED
    BY <2>1, <2>5 DEF ShownNotOlder, UITypes, Snapshot
<1>4. ASSUME NEW w \in Waiter, UpdateSnapshotReady(w)
      PROVE  Chronology' /\ ShownNotOlder
  BY <1>0, <1>4, ShowingKeepsChronology
<1>5. ASSUME NEW w \in Waiter,
             \/ WaiterEnds(w) \/ UpdateDetached(w) \/ UpdatePhase2(w)
             \/ UpdateError(w) \/ UpdateTerminalError(w)
      PROVE  Chronology' /\ ShownNotOlder
  <2>1. \E x \in {Off, Waiting} : waiter' = [waiter EXCEPT ![w] = x]
    BY <1>5 DEF WaiterEnds, UpdateDetached, UpdatePhase2, UpdateError, UpdateTerminalError, Rearm
  <2>2. /\ UNCHANGED <<snapshot, snapshotVersion, phase2, mailbox, job, shown, lastAppliedSnapshotVer>>
        /\ state = "stopped" => state' = "stopped"
    BY <1>5 DEF WaiterEnds, UpdateDetached, UpdatePhase2, UpdateError, UpdateTerminalError,
                Stop, StopMarks, vars, resultVars, refreshVars
  <2> QED
    BY <1>1, <2>1, <2>2
<1>6. CASE UpdateStartError
  BY <1>1, <1>6 DEF UpdateStartError, vars, resultVars, refreshVars
<1>7. CASE FinishSetRecipe
  BY <1>1, <1>7 DEF FinishSetRecipe, RefreshForRecipe, ForceRefresh, uiUnchanged, clientUnchanged, resultVars
<1>8. CASE CtrlR
  BY <1>1, <1>8 DEF CtrlR, RequestForce, ForceRefresh, uiUnchanged, clientUnchanged, vars, resultVars, refreshVars
<1>9. CASE BrUpdateDone
  BY <1>1, <1>9 DEF BrUpdateDone, RequestForce, ForceRefresh, uiUnchanged, clientUnchanged, resultVars
<1>10. ASSUME NEW r \in Recipe, SetActiveRecipe(r)
       PROVE  Chronology' /\ ShownNotOlder
  BY <1>1, <1>10 DEF SetActiveRecipe, setRecipe, uiUnchanged, clientUnchanged, resultVars, refreshVars
<1>11. CASE Quit
  BY <1>1, <1>11 DEF Quit, Stop, StopMarks, vars, resultVars, refreshVars
<1>12. CASE UNCHANGED uiVars
  BY <1>1, <1>12 DEF uiVars, uiState, vars, resultVars, refreshVars
<1> QED
  BY <1>2, <1>3, <1>4, <1>5, <1>6, <1>7, <1>8, <1>9, <1>10, <1>11, <1>12 DEF UINext, User, Update

\* However many waiters hold messages, and in whatever order builds, recoveries
\* and handlers run, the screen never goes back to an older state of the file.
THEOREM ScreenNeverGoesBack == UISpec => ShownNeverOlder
<1>1. UIInit => UITypes /\ Chronology
  <2> SUFFICES ASSUME UIInit PROVE UITypes /\ Chronology
    OBVIOUS
  <2>1. UITypes
    <3>1. waiter \in [Waiter -> {Off, Waiting} \cup [pc : {"holding"}, msg : Message]]
      BY DEF UIInit
    <3> QED
      BY <3>1 DEF UIInit, UITypes
  <2>2. ReadyMessages = {}
    BY DEF ReadyMessages, UIInit, Init, Free, Off, Waiting, NoMessage
  <2> QED
    BY <2>1, <2>2 DEF UIInit, Init, Chronology, Known
<1>2. UISpec => []IInv
  BY UIImplementsWorker, WorkerInvariant, PTL
<1>3. IInv /\ UITypes /\ Chronology /\ [UINext]_uiVars => UITypes' /\ Chronology'
  BY UITypesStep, ChronologyStep DEF IInv
<1>4. IInv /\ UITypes /\ Chronology /\ [UINext]_uiVars => [ShownNotOlder]_uiVars
  BY ChronologyStep
<1> QED
  BY <1>1, <1>2, <1>3, <1>4, PTL DEF UISpec, ShownNeverOlder, ShownNotOlder

-----------------------------------------------------------------------------
(* The worker's snapshot reaches the screen *)

\* The snapshots about to be sent, and those that are queued or with a waiter.
Outgoing ==
    {m \in {job[g].msg : g \in {h \in Goroutine : job[h].pc = "sending"}} : m.kind = "ready"}
Arrived ==
    {m \in {mailbox} \cup {waiter[w].msg : w \in {v \in Waiter : waiter[v].pc = "holding"}} :
       m.kind = "ready"}

\* The worker's snapshot is told by its version from whatever is under way.
Identity ==
    /\ shown = NoSnapshot => lastAppliedSnapshotVer = 0
    /\ snapshot # NoSnapshot => /\ snapshot.ver = snapshotVersion /\ snapshotVersion > 0
                                /\ \A s \in Known : s.ver = snapshot.ver => s = snapshot

\* A later version is of no earlier generation, and neither the UI nor a message
\* knows of a generation that has not begun.
Generations ==
    /\ lastWorkerGeneration <= generation
    /\ \A m \in ReadyMessages : m.gen <= generation
    /\ \A m, n \in ReadyMessages : m.snap.ver <= n.snap.ver => m.gen <= n.gen

\* The worker's snapshot is sent or about to be; nothing else is sent by
\* process(), and only a worker that stops reports a terminal error.
Sent ==
    /\ \A m \in Arrived : m.snap.ver <= sentVer
    /\ snapshot # NoSnapshot /\ sentVer < snapshot.ver => \E m \in Outgoing : m.snap = snapshot
    /\ \A g \in Goroutine : job[g].pc = "sending" => job[g].msg.kind \in {"ready", "error"}
    /\ mailbox.kind = "terminal" => state = "stopped" \/ recoveryPc = "stop"

\* Some message brings the worker's snapshot, and Update will accept it.
Deliverable == \E m \in ReadyMessages : m.snap = snapshot /\ m.gen = generation

\* If the worker's snapshot is of the present generation, which a message of this
\* generation shows even while fenced, it is on the screen or on its way.
OnItsWay ==
    /\ attached /\ state # "stopped" /\ recoveryPc # "stop"
    /\ snapshot # NoSnapshot /\ ~overtaken
    /\ ~fenced \/ \E m \in ReadyMessages : m.gen = generation
    => shown = snapshot \/ Deliverable

Delivering == Identity /\ Generations /\ Sent /\ OnItsWay

\* What is under way is either still to be sent or has been.
LEMMA ReadySplits ==
    /\ ReadyMessages = Outgoing \cup Arrived
    /\ ReadyMessages' = Outgoing' \cup Arrived'
BY DEF ReadyMessages, Outgoing, Arrived

\* What is under way carries a snapshot of the worker.
LEMMA ReadyFields ==
    ASSUME TypeOK, UITypes, Chronology, NEW m \in ReadyMessages
    PROVE  /\ m \in Message /\ m.gen \in Nat
           /\ m.snap \in Known /\ m.snap \in Snapshot
           /\ m.snap.ver \in Nat /\ m.snap.ver <= snapshotVersion
<1>1. m \in Message
  <2>1. \A g \in Goroutine : job[g].pc = "sending" => job[g].msg \in Message
    BY JobFields DEF TypeOK
  <2>2. \A w \in Waiter : waiter[w].pc = "holding" => waiter[w].msg \in Message
    BY HeldMessages
  <2>3. mailbox.kind = "ready" => mailbox \in Message
    BY DEF TypeOK, NoMessage
  <2> QED
    BY <2>1, <2>2, <2>3 DEF ReadyMessages
<1>2. m.snap \in Known
  BY DEF Known
<1>3. m.snap \in Snapshot /\ m.snap.ver <= snapshotVersion
  BY <1>2 DEF Chronology
<1>4. m.gen \in Nat
  BY <1>1 DEF Message
<1>5. m.snap.ver \in Nat
  BY <1>3 DEF Snapshot
<1> QED
  BY <1>1, <1>2, <1>3, <1>4, <1>5

\* Fewer messages and a screen that stays keep what is said of their order.
LEMMA FewerMessages ==
    ASSUME Identity, Generations, ReadyMessages' \subseteq ReadyMessages,
           UNCHANGED <<shown, lastAppliedSnapshotVer, snapshot, snapshotVersion, generation>>,
           lastWorkerGeneration' <= generation
    PROVE  Identity' /\ Generations'
<1>1. Known' \subseteq Known
  BY DEF Known
<1> QED
  BY <1>1 DEF Identity, Generations

\* The steps that neither send, receive nor show a snapshot.
LEMMA DeliveringFrame ==
    ASSUME Delivering,
           UNCHANGED <<shown, lastAppliedSnapshotVer, snapshot, snapshotVersion, generation,
                       sentVer, overtaken, fenced>>,
           lastWorkerGeneration' <= generation,
           Outgoing' = Outgoing, Arrived' \subseteq Arrived,
           attached' => attached /\ Arrived' = Arrived,
           state = "stopped" => state' = "stopped",
           recoveryPc = "stop" => recoveryPc' = "stop" \/ state' = "stopped",
           mailbox'.kind = "terminal" => mailbox' = mailbox \/ recoveryPc' = "stop",
           \A g \in Goroutine : job'[g].pc = "sending" => \/ job'[g].msg.kind = "error"
                                                          \/ job'[g] = job[g]
    PROVE  Delivering'
<1>1. ReadyMessages' \subseteq ReadyMessages /\ (attached' => ReadyMessages' = ReadyMessages)
  BY ReadySplits
<1>2. Identity' /\ Generations'
  BY <1>1, FewerMessages DEF Delivering
<1>3. Sent'
  <2>1. Sent
    BY DEF Delivering
  <2>2. \A m \in Arrived' : m.snap.ver <= sentVer'
    BY <2>1 DEF Sent
  <2>3. snapshot' # NoSnapshot /\ sentVer' < snapshot'.ver => \E m \in Outgoing' : m.snap = snapshot'
    BY <2>1 DEF Sent
  <2>4. \A g \in Goroutine : job'[g].pc = "sending" => job'[g].msg.kind \in {"ready", "error"}
    BY <2>1 DEF Sent
  <2>5. mailbox'.kind = "terminal" => state' = "stopped" \/ recoveryPc' = "stop"
    BY <2>1 DEF Sent
  <2> QED
    BY <2>2, <2>3, <2>4, <2>5 DEF Sent
<1>4. OnItsWay'
  <2>1. OnItsWay
    BY DEF Delivering
  <2>2. Deliverable /\ attached' => Deliverable'
    BY <1>1 DEF Deliverable
  <2> QED
    BY <1>1, <2>1, <2>2 DEF OnItsWay
<1> QED
  BY <1>2, <1>3, <1>4 DEF Delivering

\* process() sends nothing new but by a commit.
LEMMA OutgoingFrame ==
    ASSUME \A g \in Goroutine : \/ job'[g] = job[g]
                              \/ /\ job[g].pc = "sending" => job[g].msg.kind # "ready"
                                 /\ job'[g].pc = "sending" => job'[g].msg.kind # "ready"
    PROVE  Outgoing' = Outgoing /\ ReadySent = {}
BY DEF Outgoing, ReadySent

\* RecoveryBegins fences every message, unless the screen has the snapshot.
LEMMA RecoveryKeepsDelivering ==
    ASSUME TypeOK, UITypes, Chronology, Delivering, WorkerStep, RecoveryBegins,
           UNCHANGED <<sentVer, overtaken>>
    PROVE  Delivering'
<1>1. /\ UNCHANGED <<job, mailbox, snapshot, snapshotVersion, waiter, attached, shown,
                     lastAppliedSnapshotVer, lastWorkerGeneration>>
      /\ generation' = generation + 1 /\ generation \in Nat /\ lastWorkerGeneration \in Nat
      /\ state' = "idle" /\ state # "stopped"
  BY DEF WorkerStep, RecoveryBegins, resultVars, uiState, TypeOK, UITypes
<1>2. ReadyMessages' = ReadyMessages /\ Outgoing' = Outgoing /\ Arrived' = Arrived /\ Known' = Known
  BY <1>1 DEF ReadyMessages, Outgoing, Arrived, Known
<1>3. \A m \in ReadyMessages : m.gen \in Nat
  BY ReadyFields
<1>4. Identity'
  BY <1>1, <1>2 DEF Delivering, Identity
<1>5. Generations'
  BY <1>1, <1>2, <1>3 DEF Delivering, Generations
<1>6. Sent'
  <2>1. Sent
    BY DEF Delivering
  <2>2. mailbox'.kind = "terminal" => recoveryPc' = "stop"
    BY <1>1, <2>1 DEF Sent, RecoveryBegins
  <2> QED
    BY <1>1, <1>2, <2>1, <2>2 DEF Sent
<1>7. OnItsWay'
  <2>1. \A m \in ReadyMessages : m.gen # generation'
    BY <1>1, <1>3 DEF Delivering, Generations
  <2>2. ~fenced' => shown = snapshot
    <3>1. generation' # generation
      BY <1>1
    <3> QED
      BY <1>1, <3>1 DEF WorkerStep
  <2> QED
    BY <1>1, <1>2, <2>1, <2>2 DEF OnItsWay
<1> QED
  BY <1>4, <1>5, <1>6, <1>7 DEF Delivering

\* A waiter takes the message over; it stays under way.
LEMMA ReceivingKeepsDelivering ==
    ASSUME TypeOK, UITypes, Delivering, NEW w \in Waiter, WaiterReceives(w)
    PROVE  Delivering'
<1>1. /\ UNCHANGED <<job, snapshot, snapshotVersion, generation, state, recoveryPc, attached, shown,
                     lastAppliedSnapshotVer, lastWorkerGeneration, sentVer, overtaken, fenced>>
      /\ mailbox' = NoMessage /\ waiter[w] = Waiting
      /\ waiter' = [waiter EXCEPT ![w] = Holding(mailbox)]
  BY DEF WaiterReceives, workerOnly, resultVars, refreshVars, lifeVars, history
<1>2. waiter'[w] = Holding(mailbox) /\ \A v \in Waiter \ {w} : waiter'[v] = waiter[v]
  BY <1>1 DEF UITypes
<1>3. Outgoing' = Outgoing
  BY <1>1 DEF Outgoing
<1>4. Arrived' = Arrived
  BY <1>1, <1>2 DEF Arrived, Holding, Waiting, NoMessage
<1>5. lastWorkerGeneration' <= generation
  BY <1>1 DEF Delivering, Generations
<1> QED
  BY <1>1, <1>3, <1>4, <1>5, DeliveringFrame DEF NoMessage

\* Update applies or ignores the message of waiter w, and takes it away.
LEMMA ShowingKeepsDelivering ==
    ASSUME TypeOK, UITypes, Chronology, Delivering, NEW w \in Waiter, UpdateSnapshotReady(w)
    PROVE  Delivering'
<1> DEFINE msg == waiter[w].msg
<1>0. /\ waiter[w].pc = "holding" /\ msg \in Arrived /\ msg \in ReadyMessages
      /\ waiter' = [waiter EXCEPT ![w] = Waiting] /\ attached
      /\ UNCHANGED <<snapshot, snapshotVersion, generation, mailbox, state, recoveryPc, job,
                     attached, sentVer>>
  BY DEF UpdateSnapshotReady, Delivered, Rearm, ReadyMessages, Arrived, vars, resultVars, refreshVars,
         lifeVars
<1>1. waiter'[w] = Waiting /\ \A v \in Waiter \ {w} : waiter'[v] = waiter[v]
  BY <1>0 DEF UITypes
<1>2. Outgoing' = Outgoing
  BY <1>0 DEF Outgoing
<1>3. Arrived' \subseteq Arrived /\ Arrived \subseteq Arrived' \cup {msg}
  BY <1>0, <1>1 DEF Arrived, Waiting
<1>4. ReadyMessages' \subseteq ReadyMessages /\ ReadyMessages \subseteq ReadyMessages' \cup {msg}
  BY <1>2, <1>3, ReadySplits
<1>5. /\ msg.gen \in Nat /\ msg.snap \in Known /\ msg.snap \in Snapshot /\ msg.snap # NoSnapshot
      /\ msg.snap.ver \in Nat /\ msg.snap.ver <= snapshotVersion
  BY <1>0, ReadyFields DEF Snapshot, NoSnapshot
<1>6. /\ snapshotVersion \in Nat /\ generation \in Nat /\ sentVer \in Nat
      /\ lastAppliedSnapshotVer \in Nat /\ lastWorkerGeneration \in Nat
  BY DEF TypeOK, UITypes
<1>7. /\ lastWorkerGeneration <= generation
      /\ snapshot # NoSnapshot => snapshot.ver = snapshotVersion
      /\ snapshot # NoSnapshot /\ msg.snap.ver = snapshotVersion => msg.snap = snapshot
      /\ snapshot # NoSnapshot /\ shown = snapshot => lastAppliedSnapshotVer = snapshotVersion
  BY <1>5 DEF Delivering, Identity, Generations, Chronology
<1> HIDE DEF msg
<1>8. Sent'
  <2>1. Sent
    BY DEF Delivering
  <2> QED
    BY <1>0, <1>2, <1>3, <2>1 DEF Sent
<1>9. CASE IgnoresReady(msg)
  <2>1. UNCHANGED <<shown, lastAppliedSnapshotVer, lastWorkerGeneration, overtaken, fenced>>
    BY <1>9 DEF UpdateSnapshotReady, msg
  <2>2. Identity' /\ Generations'
    BY <1>0, <1>4, <1>7, <2>1, FewerMessages DEF Delivering
  <2>3. snapshot # NoSnapshot /\ msg.snap = snapshot /\ msg.gen = generation => shown = snapshot
    <3>1. SUFFICES ASSUME snapshot # NoSnapshot, msg.snap = snapshot, msg.gen = generation,
                          msg.snap.ver <= lastAppliedSnapshotVer
                   PROVE  shown = snapshot
      BY <1>6, <1>7, <1>9 DEF IgnoresReady, rejectWorkerGeneration
    <3>2. snapshotVersion <= lastAppliedSnapshotVer /\ snapshotVersion > 0
      BY <1>7, <3>1 DEF Delivering, Identity
    <3>3. shown # NoSnapshot
      BY <1>6, <3>2 DEF Delivering, Identity
    <3>4. shown \in Known /\ shown.ver = lastAppliedSnapshotVer /\ shown.ver <= snapshotVersion
      BY <3>3 DEF Known, Chronology
    <3>5. shown.ver = snapshot.ver
      BY <1>6, <1>7, <3>1, <3>2, <3>4
    <3> QED
      BY <3>1, <3>4, <3>5 DEF Delivering, Identity
  <2>4. OnItsWay'
    BY <1>0, <1>4, <2>1, <2>3 DEF Delivering, OnItsWay, Deliverable
  <2> QED
    BY <1>8, <2>2, <2>4 DEF Delivering
<1>10. CASE ~IgnoresReady(msg)
  <2>1. /\ shown' = msg.snap /\ lastAppliedSnapshotVer' = msg.snap.ver
        /\ overtaken' = (overtaken /\ msg.snap.ver < sentVer)
        /\ fenced' = FALSE
        /\ lastWorkerGeneration' = IF msg.gen > lastWorkerGeneration THEN msg.gen ELSE lastWorkerGeneration
    BY <1>10 DEF UpdateSnapshotReady, acceptWorkerGeneration, msg
  <2>2. /\ msg.gen = generation
        /\ ~(msg.snap.ver <= lastAppliedSnapshotVer)
    BY <1>10 DEF IgnoresReady, rejectWorkerGeneration
  <2>3. Known' \subseteq Known
    BY <1>4, <1>5, <2>1 DEF Known
  <2>4. Identity'
    BY <1>0, <1>5, <2>1, <2>3 DEF Delivering, Identity
  <2>5. Generations'
    BY <1>0, <1>4, <1>6, <1>7, <2>1, <2>2 DEF Delivering, Generations
  <2>6. ASSUME attached, state # "stopped", recoveryPc # "stop", snapshot # NoSnapshot, ~overtaken'
        PROVE  shown' = snapshot \/ Deliverable'
    <3>1. shown # snapshot
      BY <1>5, <1>6, <1>7, <2>2, <2>6
    <3>2. CASE ~overtaken
      <4>1. Deliverable
        BY <1>0, <2>2, <2>6, <3>1, <3>2 DEF Delivering, OnItsWay
      <4> QED
        BY <1>0, <1>4, <2>1, <4>1 DEF Deliverable
    <3>3. CASE \E m \in Outgoing : m.snap = snapshot
      <4>1. PICK m \in Outgoing : m.snap = snapshot
        BY <3>3
      <4>2. m \in ReadyMessages /\ m \in ReadyMessages'
        BY <1>2, <4>1, ReadySplits
      <4>3. m.gen \in Nat
        BY <4>2, ReadyFields
      <4>4. msg.snap.ver <= m.snap.ver
        BY <1>5, <1>7, <2>6, <4>1
      <4>5. m.gen = generation
        BY <1>0, <1>6, <2>2, <4>2, <4>3, <4>4 DEF Delivering, Generations
      <4> QED
        BY <1>0, <4>1, <4>2, <4>5 DEF Deliverable
    <3>4. CASE overtaken /\ ~(\E m \in Outgoing : m.snap = snapshot)
      <4>1. ~(msg.snap.ver < sentVer)
        BY <2>1, <2>6, <3>4
      <4>2. ~(sentVer < snapshotVersion)
        BY <1>7, <2>6, <3>4 DEF Delivering, Sent
      <4>3. msg.snap.ver = snapshotVersion
        BY <1>5, <1>6, <4>1, <4>2
      <4> QED
        BY <1>7, <2>1, <2>6, <4>3
    <3> QED
      BY <3>2, <3>3, <3>4
  <2>7. OnItsWay'
    BY <1>0, <2>6 DEF OnItsWay, Deliverable
  <2> QED
    BY <1>8, <2>4, <2>5, <2>7 DEF Delivering
<1> QED
  BY <1>9, <1>10

\* A commit makes a snapshot of the present generation, which nothing under way
\* can be taken for; or it publishes an error, or nothing.
LEMMA CommitKeepsDelivering ==
    ASSUME TypeOK, UITypes, Chronology, Delivering, UNCHANGED uiState, UNCHANGED history,
           NEW g \in Goroutine, CommitSnapshot(g)
    PROVE  Delivering'
<1> DEFINE j == job[g]
           new == [ver |-> snapshotVersion + 1, rev |-> j.file.rev,
                   content |-> j.file.content, recipe |-> j.recipe]
<1>0. /\ job \in [Goroutine -> Job] /\ j.pc = "loaded"
      /\ UNCHANGED <<mailbox, generation, recoveryPc, waiter, attached, shown,
                     lastAppliedSnapshotVer, lastWorkerGeneration, sentVer, overtaken, fenced>>
  BY DEF CommitSnapshot, TypeOK, uiState, history, lifeVars
<1>1. \A todo : job' = [job EXCEPT ![g] = todo] =>
          job'[g] = todo /\ \A h \in Goroutine \ {g} : job'[h] = job[h]
  BY <1>0
<1>2. Arrived' = Arrived
  BY <1>0 DEF Arrived
<1>3. CASE UNCHANGED <<snapshot, snapshotVersion>>
  <2>1. \E todo : /\ todo.pc = "sending" => todo.msg.kind = "error"
                  /\ job' = [job EXCEPT ![g] = todo]
    <3>1. snapshotVersion + 1 # snapshotVersion
      BY DEF TypeOK
    <3>2. CASE job' = [job EXCEPT ![g] = Sending(LoadError(j.gen), dirty)]
      BY <3>2 DEF Sending, LoadError
    <3>3. CASE job' = [job EXCEPT ![g] = Free]
      BY <3>3 DEF Free
    <3>4. CASE job' = [job EXCEPT ![g] = Again]
      BY <3>4 DEF Again
    <3> QED
      BY <1>3, <3>1, <3>2, <3>3, <3>4 DEF CommitSnapshot
  <2>2. \A h \in Goroutine : \/ job'[h] = job[h]
                             \/ /\ job[h].pc = "sending" => job[h].msg.kind # "ready"
                                /\ job'[h].pc = "sending" => job'[h].msg.kind = "error"
    BY <1>0, <1>1, <2>1
  <2>3. Outgoing' = Outgoing
    BY <2>2, OutgoingFrame
  <2>4. state = "stopped" => state' = "stopped"
    BY DEF CommitSnapshot, Superseded
  <2>5. lastWorkerGeneration' <= generation
    BY <1>0 DEF Delivering, Generations
  <2> QED
    BY <1>0, <1>2, <1>3, <2>2, <2>3, <2>4, <2>5, DeliveringFrame
<1>4. CASE /\ ~Superseded(j) /\ snapshot' = new /\ snapshotVersion' = new.ver
           /\ job' = [job EXCEPT ![g] = Sending(Ready(new, j.gen), dirty)]
  <2>1. /\ j.file \in FileState /\ j.recipe \in Recipe /\ snapshotVersion \in Nat
        /\ generation \in Nat /\ j.gen = generation /\ state # "stopped"
    BY <1>0, <1>4, JobFields DEF TypeOK, Superseded
  <2>2. new # NoSnapshot /\ new.ver = snapshotVersion + 1
    BY <2>1 DEF FileState, NoSnapshot
  <2> DEFINE msg == Ready(new, generation)
  <2>3. msg.kind = "ready" /\ msg.snap = new /\ msg.gen = generation
    BY DEF Ready
  <2> HIDE DEF new, msg
  <2>4. job'[g] = Sending(msg, dirty) /\ \A h \in Goroutine \ {g} : job'[h] = job[h]
    BY <1>1, <1>4, <2>1 DEF msg
  <2>5. Sending(msg, dirty).pc = "sending" /\ Sending(msg, dirty).msg = msg
    BY DEF Sending
  <2>6. Outgoing' = Outgoing \cup {msg}
    BY <1>0, <2>3, <2>4, <2>5 DEF Outgoing
  <2>7. ReadyMessages' = ReadyMessages \cup {msg}
    BY <1>2, <2>6, ReadySplits
  <2>8. Known' = Known \cup {new}
    BY <1>0, <2>3, <2>7 DEF Known
  <2>9. \A s \in Known : s.ver \in Nat /\ s.ver <= snapshotVersion
    BY DEF Chronology, Snapshot
  <2>10. Identity'
    BY <1>0, <1>4, <2>1, <2>2, <2>8, <2>9 DEF Delivering, Identity
  <2>11. Generations'
    <3>1. \A m \in ReadyMessages : m.snap.ver \in Nat /\ m.snap.ver <= snapshotVersion
      BY ReadyFields
    <3>2. \A m \in ReadyMessages' : m.gen <= generation'
      BY <1>0, <2>1, <2>3, <2>7 DEF Delivering, Generations
    <3>3. \A m, n \in ReadyMessages' : m.snap.ver <= n.snap.ver => m.gen <= n.gen
      BY <1>0, <2>1, <2>2, <2>3, <2>7, <3>1, <3>2 DEF Delivering, Generations
    <3> QED
      BY <1>0, <3>2, <3>3 DEF Delivering, Generations
  <2>12. Sent'
    <3>1. \A m \in Arrived' : m.snap.ver <= sentVer'
      BY <1>0, <1>2 DEF Delivering, Sent
    <3>2. \A h \in Goroutine : job'[h].pc = "sending" => job'[h].msg.kind \in {"ready", "error"}
      BY <2>3, <2>4, <2>5 DEF Delivering, Sent
    <3>3. mailbox'.kind = "terminal" => recoveryPc' = "stop"
      BY <1>0, <2>1 DEF Delivering, Sent
    <3> QED
      BY <1>4, <2>3, <2>6, <3>1, <3>2, <3>3 DEF Sent
  <2>13. OnItsWay'
    BY <1>0, <1>4, <2>3, <2>7 DEF OnItsWay, Deliverable
  <2> QED
    BY <2>10, <2>11, <2>12, <2>13 DEF Delivering
<1> HIDE DEF new
<1> QED
  BY <1>3, <1>4 DEF CommitSnapshot, resultVars, new

\* A message other than a snapshot never takes the place of the worker's
\* snapshot, but for the last words of a worker that gives up.
LEMMA OtherSendsKeepDelivering ==
    ASSUME TypeOK, UITypes, Life, StoppedStaysDown, Chronology, Delivering,
           UNCHANGED <<uiState, history>>, Outgoing' = Outgoing,
           UNCHANGED <<snapshot, snapshotVersion, generation, state>>,
           NEW msg \in Message, msg.kind # "ready", mailbox' \in AfterSend(msg),
           recoveryPc = "stop" => recoveryPc' = "stop",
           msg.kind = "terminal" => recoveryPc' = "stop",
           \A g \in Goroutine : job'[g].pc = "sending" => job'[g] = job[g]
    PROVE  Delivering'
<1>0. UNCHANGED <<waiter, attached, shown, lastAppliedSnapshotVer, lastWorkerGeneration, sentVer,
                  overtaken, fenced>>
  BY DEF uiState, history
<1>1. mailbox' \in {mailbox, msg, NoMessage}
  BY AfterSendLeaves
<1>2. CASE mailbox' = mailbox
  <2>1. Arrived' = Arrived
    BY <1>0, <1>2 DEF Arrived
  <2>2. lastWorkerGeneration' <= generation
    BY <1>0 DEF Delivering, Generations
  <2> QED
    BY <1>0, <1>2, <2>1, <2>2, DeliveringFrame
<1>3. CASE mailbox' # mailbox
  <2>1. mailbox'.kind # "ready" /\ (mailbox'.kind = "terminal" => recoveryPc' = "stop")
    BY <1>1, <1>3 DEF NoMessage
  <2>2. Arrived' \subseteq Arrived /\ Arrived \subseteq Arrived' \cup {mailbox}
    BY <1>0, <2>1 DEF Arrived
  <2>3. ReadyMessages' \subseteq ReadyMessages /\ ReadyMessages \subseteq ReadyMessages' \cup {mailbox}
    BY <2>2, ReadySplits
  <2>4. lastWorkerGeneration' <= generation
    BY <1>0 DEF Delivering, Generations
  <2>5. Identity' /\ Generations'
    BY <1>0, <2>3, <2>4, FewerMessages DEF Delivering
  <2>6. Sent'
    <3>1. \A m \in Arrived' : m.snap.ver <= sentVer'
      BY <1>0, <2>2 DEF Delivering, Sent
    <3>2. snapshot' # NoSnapshot /\ sentVer' < snapshot'.ver => \E m \in Outgoing' : m.snap = snapshot'
      BY <1>0 DEF Delivering, Sent
    <3>3. \A g \in Goroutine : job'[g].pc = "sending" => job'[g].msg.kind \in {"ready", "error"}
      BY DEF Delivering, Sent
    <3> QED
      BY <2>1, <3>1, <3>2, <3>3 DEF Sent
  <2>7. ASSUME state # "stopped", recoveryPc' # "stop", mailbox.kind = "ready"
        PROVE  mailbox.gen # generation
    <3>1. ~ctxDone
      BY <2>7 DEF Life, ctxDone
    <3>2. workerMessagePriority(mailbox) = 2
      BY <2>7 DEF workerMessagePriority
    <3>3. workerMessagePriority(msg) \in {0, 1}
      BY <2>7 DEF workerMessagePriority, Message
    <3>4. mailbox # NoMessage
      BY <2>7 DEF NoMessage
    <3> QED
      BY <1>3, <3>1, <3>2, <3>3, <3>4 DEF AfterSend, workerMessageIsCurrent
  <2>8. OnItsWay'
    <3>1. SUFFICES ASSUME attached, state # "stopped", recoveryPc' # "stop", snapshot # NoSnapshot,
                          ~overtaken, ~fenced \/ \E m \in ReadyMessages' : m.gen = generation
                   PROVE  shown = snapshot \/ Deliverable'
      BY <1>0 DEF OnItsWay
    <3>2. recoveryPc # "stop" /\ (~fenced \/ \E m \in ReadyMessages : m.gen = generation)
      BY <2>3, <3>1
    <3>3. shown = snapshot \/ Deliverable
      BY <3>1, <3>2 DEF Delivering, OnItsWay
    <3>4. Deliverable => Deliverable'
      <4>1. SUFFICES ASSUME NEW m \in ReadyMessages, m.snap = snapshot, m.gen = generation
                     PROVE  Deliverable'
        BY DEF Deliverable
      <4>2. m.kind = "ready"
        BY DEF ReadyMessages
      <4>3. m # mailbox
        BY <2>7, <3>1, <4>1, <4>2
      <4> QED
        BY <2>3, <4>1, <4>3 DEF Deliverable
    <3> QED
      BY <3>3, <3>4
  <2> QED
    BY <2>5, <2>6, <2>8 DEF Delivering
<1> QED
  BY <1>2, <1>3

\* Sending a snapshot: an older one that takes the place of the worker's snapshot
\* has overtaken it, and a newer one is of the present generation or refused.
LEMMA ReadySendKeepsDelivering ==
    ASSUME TypeOK, UITypes, Life, StoppedStaysDown, Chronology, Delivering, WorkerStep,
           NEW g \in Goroutine, SendResult(g), job[g].msg.kind = "ready"
    PROVE  Delivering'
<1> DEFINE msg == job[g].msg
<1>0. /\ job \in [Goroutine -> Job] /\ job[g].pc = "sending" /\ mailbox' \in AfterSend(msg)
      /\ job' = [job EXCEPT ![g] = IF job[g].again THEN Again ELSE Free]
      /\ UNCHANGED <<snapshot, snapshotVersion, generation, state, recoveryPc, waiter, attached, shown,
                     lastAppliedSnapshotVer, lastWorkerGeneration>>
  BY DEF SendResult, WorkerStep, TypeOK, uiState, resultVars, lifeVars
<1>1. job'[g].pc # "sending" /\ \A h \in Goroutine \ {g} : job'[h] = job[h]
  BY <1>0 DEF Again, Free
<1>2. fenced' = fenced
  BY <1>0 DEF WorkerStep, UITypes
<1>3. msg \in Outgoing /\ msg \in ReadyMessages
  BY <1>0 DEF Outgoing, ReadyMessages
<1>4. /\ msg.kind = "ready" /\ msg.gen \in Nat /\ msg.snap \in Known /\ msg.snap.ver \in Nat
      /\ msg.snap.ver <= snapshotVersion
  BY <1>3, ReadyFields
<1>5. ReadySent = {msg.snap.ver}
  BY <1>0, <1>1, <1>4 DEF ReadySent
<1>6. Outgoing' \subseteq Outgoing /\ Outgoing \subseteq Outgoing' \cup {msg}
  BY <1>0, <1>1 DEF Outgoing
<1>7. /\ sentVer \in Nat /\ snapshotVersion \in Nat /\ lastAppliedSnapshotVer \in Nat
      /\ generation \in Nat
  BY DEF TypeOK, UITypes
<1> HIDE DEF msg
<1>8. sentVer' = IF msg.snap.ver > sentVer THEN msg.snap.ver ELSE sentVer
  BY <1>4, <1>5, <1>7 DEF WorkerStep
<1>9. sentVer' \in Nat /\ sentVer <= sentVer' /\ msg.snap.ver <= sentVer'
  <2>1. CASE msg.snap.ver > sentVer
    BY <1>4, <1>7, <1>8, <2>1
  <2>2. CASE ~(msg.snap.ver > sentVer)
    BY <1>4, <1>7, <1>8, <2>2
  <2> QED
    BY <2>1, <2>2
<1>10. ~overtaken' => /\ ~overtaken
                      /\ ~(msg.snap.ver < sentVer /\ lastAppliedSnapshotVer < sentVer)
  BY <1>5 DEF WorkerStep
<1>11. mailbox' \in {mailbox, msg, NoMessage}
  BY <1>0, AfterSendLeaves
<1>12. Arrived' \subseteq Arrived \cup {msg}
  BY <1>0, <1>11 DEF Arrived, NoMessage
<1>13. ReadyMessages' \subseteq ReadyMessages
  BY <1>3, <1>6, <1>12, ReadySplits
<1>14. lastWorkerGeneration' <= generation
  BY <1>0 DEF Delivering, Generations
<1>15. Identity' /\ Generations'
  BY <1>0, <1>13, <1>14, FewerMessages DEF Delivering
<1>16. Sent'
  <2>1. \A m \in Arrived : m.snap.ver \in Nat
    BY ReadyFields, ReadySplits
  <2>2. \A m \in Arrived' : m.snap.ver <= sentVer'
    <3>1. \A m \in Arrived : m.snap.ver <= sentVer
      BY DEF Delivering, Sent
    <3> QED
      BY <1>7, <1>9, <1>12, <2>1, <3>1
  <2>3. snapshot' # NoSnapshot /\ sentVer' < snapshot'.ver => \E m \in Outgoing' : m.snap = snapshot'
    <3>1. SUFFICES ASSUME snapshot # NoSnapshot, sentVer' < snapshot.ver
                   PROVE  \E m \in Outgoing' : m.snap = snapshot
      BY <1>0
    <3>2. snapshot.ver = snapshotVersion
      BY <3>1 DEF Delivering, Identity
    <3>3. PICK m \in Outgoing : m.snap = snapshot
      BY <1>7, <1>9, <3>1, <3>2 DEF Delivering, Sent
    <3>4. m # msg
      BY <1>4, <1>7, <1>9, <3>1, <3>2, <3>3
    <3> QED
      BY <1>6, <3>3, <3>4
  <2>4. \A h \in Goroutine : job'[h].pc = "sending" => job'[h].msg.kind \in {"ready", "error"}
    BY <1>1 DEF Delivering, Sent
  <2>5. mailbox'.kind = "terminal" => state' = "stopped" \/ recoveryPc' = "stop"
    BY <1>0, <1>4, <1>11 DEF NoMessage, Delivering, Sent
  <2> QED
    BY <2>2, <2>3, <2>4, <2>5 DEF Sent
<1>17. OnItsWay'
  <2>1. SUFFICES ASSUME attached, state # "stopped", recoveryPc # "stop", snapshot # NoSnapshot,
                        ~overtaken', ~fenced \/ \E m \in ReadyMessages' : m.gen = generation,
                        shown # snapshot
                 PROVE  Deliverable'
    BY <1>0, <1>2 DEF OnItsWay
  <2>2. Deliverable
    BY <1>10, <1>13, <2>1 DEF Delivering, OnItsWay
  <2>3. PICK m \in ReadyMessages : m.snap = snapshot /\ m.gen = generation
    BY <2>2 DEF Deliverable
  <2>4. ~ctxDone
    BY <2>1 DEF Life, ctxDone
  <2>5. snapshot.ver = snapshotVersion
    BY <2>1 DEF Delivering, Identity
  <2>6. m.kind = "ready" /\ m \in Message
    BY <2>3, ReadyFields DEF ReadyMessages
  <2>7. ASSUME msg.gen = generation PROVE mailbox' = msg
    <3>1. mailbox # NoMessage => mailbox \in Message /\ mailbox.kind # "terminal"
      BY <2>1 DEF TypeOK, Delivering, Sent
    <3>2. mailbox # NoMessage => workerMessagePriority(mailbox) \in {0, 1, 2}
      BY <3>1 DEF workerMessagePriority, Message
    <3>3. workerMessagePriority(msg) = 2
      BY <1>4 DEF workerMessagePriority
    <3>4. ~(mailbox # NoMessage /\ workerMessagePriority(mailbox) > workerMessagePriority(msg))
      BY <3>2, <3>3
    <3> QED
      BY <1>0, <2>4, <2>7, <3>4 DEF AfterSend, workerMessageIsCurrent, msg
  <2>8. ASSUME msg.gen # generation PROVE mailbox' = mailbox
    BY <1>0, <2>8 DEF AfterSend, workerMessageIsCurrent
  <2>9. CASE m = msg
    <3>1. mailbox' = msg
      BY <2>3, <2>7, <2>9
    <3>2. msg \in ReadyMessages'
      BY <1>4, <3>1 DEF ReadyMessages
    <3> QED
      BY <1>0, <2>3, <2>9, <3>2 DEF Deliverable
  <2>10. CASE m # msg /\ m = mailbox /\ mailbox' # mailbox
    <3>1. msg.gen = generation /\ mailbox' = msg
      BY <2>7, <2>8, <2>10
    <3>2. CASE msg.snap = snapshot
      <4>1. msg \in ReadyMessages'
        BY <1>4, <3>1 DEF ReadyMessages
      <4> QED
        BY <1>0, <3>1, <3>2, <4>1 DEF Deliverable
    <3>3. CASE msg.snap # snapshot
      <4>1. msg.snap.ver < snapshotVersion
        BY <1>4, <1>7, <2>1, <2>5, <3>3 DEF Delivering, Identity
      <4>2. m \in Arrived
        BY <2>6, <2>10 DEF Arrived
      <4>3. snapshotVersion <= sentVer
        BY <2>3, <2>5, <4>2 DEF Delivering, Sent
      <4>4. lastAppliedSnapshotVer < snapshotVersion
        <5>1. CASE shown = NoSnapshot
          BY <1>7, <2>1, <5>1 DEF Delivering, Identity
        <5>2. CASE shown # NoSnapshot
          <6>1. shown \in Known /\ shown.ver = lastAppliedSnapshotVer /\ shown.ver <= snapshotVersion
            BY <5>2 DEF Known, Chronology
          <6>2. shown.ver # snapshotVersion
            BY <2>1, <2>5, <6>1 DEF Delivering, Identity
          <6> QED
            BY <1>7, <6>1, <6>2
        <5> QED
          BY <5>1, <5>2
      <4> QED
        BY <1>4, <1>7, <1>10, <2>1, <4>1, <4>3, <4>4
    <3> QED
      BY <3>2, <3>3
  <2>11. CASE m # msg /\ ~(m = mailbox /\ mailbox' # mailbox)
    <3>1. m \in ReadyMessages'
      <4>1. m \in Outgoing \/ m \in Arrived
        BY <2>3, ReadySplits
      <4>2. m \in Outgoing => m \in Outgoing'
        BY <1>6, <2>11
      <4>3. m \in Arrived => m \in Arrived'
        BY <1>0, <2>11 DEF Arrived
      <4> QED
        BY <4>1, <4>2, <4>3, ReadySplits
    <3> QED
      BY <1>0, <2>3, <3>1 DEF Deliverable
  <2> QED
    BY <2>9, <2>10, <2>11
<1> QED
  BY <1>15, <1>16, <1>17 DEF Delivering

\* The worker on its own: whatever goroutine, recovery, Start or Stop takes its
\* step, the snapshot stays on its way.
LEMMA WorkerKeepsDelivering ==
    ASSUME IInv, UITypes, Chronology, Delivering, WorkerStep
    PROVE  Delivering'
<1>0. /\ TypeOK /\ Life /\ StoppedStaysDown /\ job \in [Goroutine -> Job]
      /\ UNCHANGED uiState
      /\ UNCHANGED <<waiter, attached, shown, lastAppliedSnapshotVer, lastWorkerGeneration>>
      /\ lastWorkerGeneration <= generation
  BY DEF WorkerStep, IInv, TypeOK, uiState, Delivering, Generations
<1>1. ReadySent = {} /\ generation' = generation => UNCHANGED history
  <2>1. SUFFICES ASSUME ReadySent = {}, generation' = generation
                 PROVE  UNCHANGED history
    OBVIOUS
  <2>2. UNCHANGED sentVer
    BY <2>1 DEF WorkerStep
  <2>3. UNCHANGED overtaken
    BY <2>1 DEF WorkerStep, UITypes
  <2>4. UNCHANGED fenced
    BY <2>1 DEF WorkerStep, UITypes
  <2> QED
    BY <2>2, <2>3, <2>4 DEF history
<1>2. ASSUME UNCHANGED <<snapshot, snapshotVersion, generation, mailbox>>,
             state = "stopped" => state' = "stopped",
             recoveryPc = "stop" => recoveryPc' = "stop" \/ state' = "stopped",
             \A g \in Goroutine : job'[g].pc = "sending" \/ job[g].pc = "sending" => job'[g] = job[g]
      PROVE  Delivering'
  <2>1. Outgoing' = Outgoing /\ ReadySent = {}
    BY <1>2, OutgoingFrame
  <2>2. Arrived' = Arrived
    BY <1>0, <1>2 DEF Arrived
  <2>3. UNCHANGED history
    BY <1>1, <1>2, <2>1
  <2> QED
    BY <1>0, <1>2, <2>1, <2>2, <2>3, DeliveringFrame DEF history
<1>3. ASSUME UNCHANGED <<snapshot, snapshotVersion, generation, mailbox, state>>,
             recoveryPc = "stop" => recoveryPc' = "stop",
             NEW jobs \in [Goroutine -> Job], TriggerRefreshFrom(jobs),
             \A g \in Goroutine : jobs[g] = job[g] \/ (jobs[g] = Free /\ job[g] = Again)
      PROVE  Delivering'
  <2>1. \A g \in Goroutine : job'[g].pc = "sending" \/ job[g].pc = "sending" => job'[g] = job[g]
    BY <1>0, <1>3, TriggerKeepsJobs DEF Free, Again, Spawned
  <2> QED
    BY <1>2, <1>3, <2>1
<1>4. ASSUME UNCHANGED <<snapshot, snapshotVersion, generation, mailbox, state>>,
             recoveryPc = "stop" => recoveryPc' = "stop", TriggerRefreshFrom(job)
      PROVE  Delivering'
  BY <1>0, <1>3, <1>4
<1>5. ASSUME NEW g \in Goroutine, process(g)
      PROVE  Delivering'
  <2>1. CASE BeginProcess(g) \/ LoadIssues(g)
    <3>1. /\ UNCHANGED <<snapshot, snapshotVersion, generation, mailbox, recoveryPc>>
          /\ state = "stopped" => state' = "stopped"
          /\ job[g].pc # "sending"
          /\ \E todo : todo.pc # "sending" /\ job' = [job EXCEPT ![g] = todo]
      BY <2>1 DEF BeginProcess, LoadIssues, resultVars, lifeVars, Begun, Loaded, Free
    <3>2. \A h \in Goroutine : job'[h].pc = "sending" \/ job[h].pc = "sending" => job'[h] = job[h]
      BY <1>0, <3>1
    <3> QED
      BY <1>2, <3>1, <3>2
  <2>2. CASE CommitSnapshot(g)
    <3>1. generation' = generation /\ \A h \in Goroutine \ {g} : job'[h] = job[h]
      BY <1>0, <2>2 DEF CommitSnapshot
    <3>2. ReadySent = {}
      <4>1. job[g].pc # "sending"
        BY <2>2 DEF CommitSnapshot
      <4> QED
        BY <3>1, <4>1 DEF ReadySent
    <3> QED
      BY <1>0, <1>1, <2>2, <3>1, <3>2, CommitKeepsDelivering
  <2>3. CASE SendResult(g) /\ job[g].msg.kind = "ready"
    BY <1>0, <2>3, ReadySendKeepsDelivering DEF WorkerStep
  <2>4. CASE SendResult(g) /\ job[g].msg.kind # "ready"
    <3>1. /\ job[g].pc = "sending" /\ mailbox' \in AfterSend(job[g].msg)
          /\ UNCHANGED <<snapshot, snapshotVersion, generation, state, recoveryPc>>
          /\ \E todo \in {Free, Again} : job' = [job EXCEPT ![g] = todo]
      BY <2>4 DEF SendResult, resultVars, lifeVars
    <3>2. job'[g].pc # "sending" /\ \A h \in Goroutine \ {g} : job'[h] = job[h]
      BY <1>0, <3>1 DEF Free, Again
    <3>3. job[g].msg \in Message /\ job[g].msg.kind = "error"
      BY <1>0, <2>4, <3>1, JobFields DEF Delivering, Sent
    <3>4. Outgoing' = Outgoing /\ ReadySent = {}
      BY <3>2, <3>3, OutgoingFrame
    <3>5. UNCHANGED history
      BY <1>1, <3>1, <3>4
    <3>6. \A h \in Goroutine : job'[h].pc = "sending" => job'[h] = job[h]
      BY <3>2
    <3> QED
      BY <1>0, <3>1, <3>3, <3>4, <3>5, <3>6, OtherSendsKeepDelivering
  <2>5. CASE RunAgain(g)
    <3>1. [job EXCEPT ![g] = Free] \in [Goroutine -> Job]
      BY <1>0, JobValues
    <3>2. job[g] = Again
      <4>1. job[g].pc = "again"
        BY <2>5 DEF RunAgain
      <4> QED
        BY <1>0, <4>1 DEF Job, Free, Spawned, Again
    <3>3. \A h \in Goroutine : \/ [job EXCEPT ![g] = Free][h] = job[h]
                               \/ [job EXCEPT ![g] = Free][h] = Free /\ job[h] = Again
      BY <1>0, <3>2
    <3>4. /\ UNCHANGED <<snapshot, snapshotVersion, generation, mailbox, state, recoveryPc>>
          /\ TriggerRefreshFrom([job EXCEPT ![g] = Free])
      BY <2>5 DEF RunAgain, resultVars, lifeVars
    <3> QED
      BY <1>3, <3>1, <3>3, <3>4
  <2> QED
    BY <1>5, <2>1, <2>2, <2>3, <2>4, <2>5 DEF process
<1>6. ASSUME NEW p \in phase2, Phase2Completes(p)
      PROVE  Delivering'
  BY <1>2, <1>6 DEF Phase2Completes, resultVars, refreshVars, lifeVars
<1>7. ASSUME NEW p \in phase2, SendPhase2(p)
      PROVE  Delivering'
  <2>1. /\ mailbox' \in AfterSend(p.msg)
        /\ UNCHANGED <<snapshot, snapshotVersion, generation, state, recoveryPc, job>>
    BY <1>7 DEF SendPhase2, resultVars, refreshVars, lifeVars
  <2>2. p.msg \in Message /\ p.msg.kind = "phase2"
    BY <1>0 DEF TypeOK, Chronology
  <2>3. Outgoing' = Outgoing /\ ReadySent = {}
    BY <2>1, OutgoingFrame
  <2>4. UNCHANGED history
    BY <1>1, <2>1, <2>3
  <2> QED
    BY <1>0, <2>1, <2>2, <2>3, <2>4, OtherSendsKeepDelivering
<1>8. CASE processLoop
  BY <1>2, <1>4, <1>8 DEF processLoop, LoopReceives, LoopTriggers, LoopExits, TriggerRefresh,
     refreshVars, resultVars, lifeVars
<1>9. CASE StartBegins \/ StartWatches \/ StopCancels
  BY <1>2, <1>9 DEF StartBegins, StartWatches, StopCancels, refreshVars, resultVars
<1>10. CASE StartRefreshes
  BY <1>4, <1>10 DEF StartRefreshes, TriggerRefresh, resultVars
<1>11. CASE StopAfterFailedStart
  BY <1>2, <1>11 DEF StopAfterFailedStart, Stop, StopMarks, resultVars
<1>12. CASE StopDropsSnapshot
  <2>1. /\ snapshot' = NoSnapshot /\ state' = "stopped"
        /\ UNCHANGED <<snapshotVersion, generation, mailbox, job>>
    BY <1>0, <1>12 DEF StopDropsSnapshot, Life, refreshVars
  <2>2. ReadySent = {}
    BY <2>1 DEF ReadySent
  <2>3. UNCHANGED <<sentVer, overtaken, fenced>>
    BY <1>1, <2>1, <2>2 DEF history
  <2>4. ReadyMessages' = ReadyMessages /\ Arrived' = Arrived
    BY <1>0, <2>1 DEF ReadyMessages, Arrived
  <2>5. Identity'
    BY <1>0, <2>1 DEF Delivering, Identity
  <2>6. Generations'
    BY <1>0, <2>1, <2>4 DEF Delivering, Generations
  <2>7. Sent'
    BY <2>1, <2>3, <2>4 DEF Delivering, Sent
  <2>8. OnItsWay'
    BY <2>1 DEF OnItsWay
  <2> QED
    BY <2>5, <2>6, <2>7, <2>8 DEF Delivering
<1>13. CASE RecoveryBegins
  <2>1. ReadySent = {}
    BY <1>13 DEF ReadySent, RecoveryBegins
  <2>2. UNCHANGED <<sentVer, overtaken>>
    BY <2>1 DEF WorkerStep, UITypes
  <2> QED
    BY <1>0, <1>13, <2>2, RecoveryKeepsDelivering DEF WorkerStep
<1>14. CASE RecoveryRestarts
  BY <1>2, <1>14 DEF RecoveryRestarts, refreshVars, resultVars
<1>15. CASE RecoveryRefreshes
  BY <1>4, <1>15 DEF RecoveryRefreshes, ForceRefresh, resultVars
<1>16. CASE RecoveryReports
  <2>1. /\ UNCHANGED <<snapshot, snapshotVersion, generation, state, job>>
        /\ recoveryPc' = "stop" /\ mailbox' \in AfterSend(Terminal(generation))
    BY <1>16 DEF RecoveryReports, refreshVars, resultVars
  <2>2. Terminal(generation) \in Message /\ Terminal(generation).kind = "terminal"
    BY <1>0, MessageValues DEF TypeOK, Terminal
  <2>3. Outgoing' = Outgoing /\ ReadySent = {}
    BY <2>1, OutgoingFrame
  <2>4. UNCHANGED history
    BY <1>1, <2>1, <2>3
  <2> QED
    BY <1>0, <2>1, <2>2, <2>3, <2>4, OtherSendsKeepDelivering
<1>17. CASE RecoveryStops
  BY <1>2, <1>17 DEF RecoveryStops, Stop, StopMarks, resultVars
<1>18. CASE WriteFile \/ WatcherPublishes
  BY <1>2, <1>18 DEF WriteFile, WatcherPublishes, refreshVars, resultVars, lifeVars
<1> QED
  BY <1>5, <1>6, <1>7, <1>8, <1>9, <1>10, <1>11, <1>12, <1>13, <1>14, <1>15, <1>16, <1>17, <1>18
     DEF WorkerStep, Worker, Environment, attemptRecovery, runPhase2Analysis

\* Every step of the composed system keeps the snapshot on its way.
LEMMA DeliveringStep ==
    ASSUME IInv, UITypes, Chronology, Delivering, [UINext]_uiVars
    PROVE  Delivering'
<1>0. /\ TypeOK /\ Life
      /\ waiter \in [Waiter -> {Off, Waiting} \cup [pc : {"holding"}, msg : Message]]
      /\ job \in [Goroutine -> Job] /\ lastWorkerGeneration <= generation
  BY DEF IInv, UITypes, TypeOK, Delivering, Generations
<1>1. ASSUME UNCHANGED <<snapshot, snapshotVersion, generation, mailbox, recoveryPc, shown,
                         lastAppliedSnapshotVer, history>>,
             lastWorkerGeneration' <= generation,
             state = "stopped" => state' = "stopped",
             TriggerRefreshFrom(job) \/ UNCHANGED job,
             attached' => attached,
             \/ UNCHANGED waiter
             \/ \E w \in Waiter, x \in {Off, Waiting} :
                  /\ waiter' = [waiter EXCEPT ![w] = x]
                  /\ attached' /\ waiter[w].pc = "holding" => waiter[w].msg.kind # "ready"
      PROVE  Delivering'
  <2>1. \A g \in Goroutine : job'[g].pc = "sending" \/ job[g].pc = "sending" => job'[g] = job[g]
    BY <1>0, <1>1, TriggerKeepsJobs DEF Free, Spawned
  <2>2. Outgoing' = Outgoing
    BY <2>1, OutgoingFrame
  <2>3. /\ \A v \in Waiter : waiter'[v].pc = "holding" => waiter'[v] = waiter[v]
        /\ attached' => \A v \in Waiter : waiter[v].pc = "holding" /\ waiter[v].msg.kind = "ready"
                                        => waiter'[v] = waiter[v]
    BY <1>0, <1>1 DEF Off, Waiting
  <2>4. Arrived' \subseteq Arrived
    BY <1>1, <2>3 DEF Arrived
  <2>5. attached' => Arrived' = Arrived
    BY <1>1, <2>3, <2>4 DEF Arrived
  <2> QED
    BY <1>1, <2>1, <2>2, <2>4, <2>5, DeliveringFrame DEF history
<1>2. CASE WorkerStep
  BY <1>2, WorkerKeepsDelivering
<1>3. ASSUME NEW w \in Waiter, WaiterReceives(w) \/ UpdateSnapshotReady(w)
      PROVE  Delivering'
  BY <1>0, <1>3, ReceivingKeepsDelivering, ShowingKeepsDelivering
<1>4. ASSUME NEW w \in Waiter, UpdateDetached(w) \/ WaiterEnds(w)
      PROVE  Delivering'
  <2>1. /\ UNCHANGED <<snapshot, snapshotVersion, generation, mailbox, recoveryPc, shown, state, job,
                       lastAppliedSnapshotVer, lastWorkerGeneration, attached, history>>
        /\ waiter' = [waiter EXCEPT ![w] = Off]
        /\ attached => waiter[w] = Waiting
    BY <1>4 DEF UpdateDetached, WaiterEnds, vars, resultVars, refreshVars, lifeVars
  <2>2. \E v \in Waiter, x \in {Off, Waiting} :
           /\ waiter' = [waiter EXCEPT ![v] = x]
           /\ attached' /\ waiter[v].pc = "holding" => waiter[v].msg.kind # "ready"
    <3>1. Waiting.pc # "holding"
      BY DEF Waiting
    <3> QED
      BY <2>1, <3>1
  <2> QED
    BY <1>0, <1>1, <2>1, <2>2
<1>5. ASSUME NEW w \in Waiter, UpdatePhase2(w) \/ UpdateError(w) \/ UpdateTerminalError(w)
      PROVE  Delivering'
  <2>1. waiter[w].msg.kind # "ready" /\ \E x \in {Off, Waiting} : waiter' = [waiter EXCEPT ![w] = x]
    BY <1>5 DEF UpdatePhase2, UpdateError, UpdateTerminalError, Delivered, Rearm
  <2>2. lastWorkerGeneration' <= generation
    <3>1. \/ UNCHANGED lastWorkerGeneration
          \/ /\ waiter[w].msg.gen = generation
             /\ acceptWorkerGeneration(waiter[w].msg.gen)
      BY <1>5 DEF UpdatePhase2, UpdateError, UpdateTerminalError, rejectWorkerGeneration
    <3> QED
      BY <1>0, <3>1 DEF acceptWorkerGeneration, TypeOK
  <2>3. UNCHANGED <<snapshot, snapshotVersion, generation, mailbox, recoveryPc, shown, job,
                    lastAppliedSnapshotVer, history>>
    BY <1>5 DEF UpdatePhase2, UpdateError, UpdateTerminalError, vars, resultVars, refreshVars, lifeVars
  <2>4. (state = "stopped" => state' = "stopped") /\ (attached' => attached)
    BY <1>5 DEF UpdatePhase2, UpdateError, UpdateTerminalError, Stop, StopMarks, vars
  <2> QED
    BY <1>1, <2>1, <2>2, <2>3, <2>4
<1>6. CASE UpdateStartError
  BY <1>0, <1>1, <1>6 DEF UpdateStartError, vars, resultVars, refreshVars, lifeVars
<1>7. CASE FinishSetRecipe
  BY <1>0, <1>1, <1>7 DEF FinishSetRecipe, RefreshForRecipe, ForceRefresh, uiUnchanged, clientUnchanged,
     resultVars
<1>8. CASE CtrlR
  BY <1>0, <1>1, <1>8 DEF CtrlR, RequestForce, ForceRefresh, uiUnchanged, clientUnchanged, vars,
     resultVars, refreshVars, lifeVars
<1>9. CASE BrUpdateDone
  <2>1. /\ UNCHANGED <<snapshot, snapshotVersion, generation, mailbox, recoveryPc, shown, state,
                       lastAppliedSnapshotVer, lastWorkerGeneration, attached, history>>
        /\ TriggerRefreshFrom(job)
    BY <1>9 DEF BrUpdateDone, RequestForce, ForceRefresh, uiUnchanged, clientUnchanged, resultVars
  <2>2. \E w \in Waiter : waiter[w] = Off /\ waiter' = [waiter EXCEPT ![w] = Waiting]
    BY <1>9 DEF BrUpdateDone
  <2>3. \E w \in Waiter, x \in {Off, Waiting} :
           waiter' = [waiter EXCEPT ![w] = x] /\ waiter[w].pc # "holding"
    <3>1. PICK w \in Waiter : waiter[w] = Off /\ waiter' = [waiter EXCEPT ![w] = Waiting]
      BY <2>2
    <3>2. waiter[w].pc # "holding"
      BY <3>1 DEF Off
    <3> QED
      BY <3>1, <3>2
  <2> QED
    BY <1>0, <1>1, <2>1, <2>3
<1>10. ASSUME NEW r \in Recipe, SetActiveRecipe(r)
       PROVE  Delivering'
  BY <1>0, <1>1, <1>10 DEF SetActiveRecipe, setRecipe, uiUnchanged, clientUnchanged, resultVars, refreshVars
<1>11. CASE Quit
  BY <1>0, <1>1, <1>11 DEF Quit, Stop, StopMarks, vars, resultVars, refreshVars, lifeVars
<1>12. CASE UNCHANGED uiVars
  BY <1>0, <1>1, <1>12 DEF uiVars, uiState, vars, resultVars, refreshVars, lifeVars
<1> QED
  BY <1>2, <1>3, <1>4, <1>5, <1>6, <1>7, <1>8, <1>9, <1>10, <1>11, <1>12 DEF UINext, User, Update

\* Every step of the composed system keeps the types, the order of what is under
\* way, and the worker's snapshot on its way to the screen.
THEOREM DeliveryInvariant == UISpec => [](IInv /\ UITypes /\ Chronology /\ Delivering)
<1>1. UIInit => UITypes /\ Chronology /\ Delivering
  <2> SUFFICES ASSUME UIInit PROVE UITypes /\ Chronology /\ Delivering
    OBVIOUS
  <2>1. UITypes
    <3>1. waiter \in [Waiter -> {Off, Waiting} \cup [pc : {"holding"}, msg : Message]]
      BY DEF UIInit
    <3> QED
      BY <3>1 DEF UIInit, UITypes
  <2>2. ReadyMessages = {}
    BY DEF ReadyMessages, UIInit, Init, Free, Off, Waiting, NoMessage
  <2>3. Outgoing = {} /\ Arrived = {}
    BY <2>2, ReadySplits
  <2>4. Chronology
    BY <2>2 DEF UIInit, Init, Chronology, Known
  <2>5. Sent
    BY <2>3 DEF UIInit, Init, Sent, Free, NoMessage
  <2>6. Identity /\ Generations /\ OnItsWay
    BY <2>2 DEF UIInit, Init, Identity, Generations, OnItsWay
  <2> QED
    BY <2>1, <2>4, <2>5, <2>6 DEF Delivering
<1>2. UISpec => []IInv
  BY UIImplementsWorker, WorkerInvariant, PTL
<1>3. IInv /\ UITypes /\ Chronology /\ Delivering /\ [UINext]_uiVars
      => UITypes' /\ Chronology' /\ Delivering'
  BY UITypesStep, ChronologyStep, DeliveringStep DEF IInv
<1> QED
  BY <1>1, <1>2, <1>3, PTL DEF UISpec

\* Once everything has settled the screen has the worker's snapshot, unless a
\* recovery fenced its message off or the message of an older one overtook it: no
\* error, Phase 2 update or stale message ever takes its place in the mailbox.
THEOREM LatestSnapshotIsShown == UISpec => []LatestShownUnlessOvertakenOrFenced
<1>1. UITypes /\ Delivering => LatestShownUnlessOvertakenOrFenced
  <2> SUFFICES ASSUME UITypes, Delivering, UIQuiet, ~overtaken, ~fenced, snapshot # NoSnapshot
               PROVE  shown = snapshot
    BY DEF LatestShownUnlessOvertakenOrFenced, ShowsLatest
  <2>1. ReadyMessages = {}
    BY DEF UIQuiet, ReadyMessages, Free, NoMessage
  <2>2. attached /\ state # "stopped" /\ recoveryPc # "stop"
    BY DEF UIQuiet, RefreshOwed
  <2> QED
    BY <2>1, <2>2 DEF Delivering, OnItsWay, Deliverable
<1> QED
  BY <1>1, DeliveryInvariant, PTL

-----------------------------------------------------------------------------
(* There is always a waiter *)

\* No step of the worker or its client takes a stop back.
LEMMA StoppedIsFinal ==
    ASSUME [Next]_vars, state = "stopped"
    PROVE  state' = "stopped"
<1>1. ASSUME NEW g \in Goroutine, process(g)
      PROVE  state' = "stopped"
  BY <1>1 DEF process, BeginProcess, LoadIssues, CommitSnapshot, Superseded, SendResult, RunAgain
<1>2. ASSUME NEW p \in phase2, runPhase2Analysis(p)
      PROVE  state' = "stopped"
  BY <1>2 DEF runPhase2Analysis, Phase2Completes, SendPhase2
<1>3. CASE processLoop
  BY <1>3 DEF processLoop, LoopReceives, LoopTriggers, LoopExits
<1>4. CASE StartBegins \/ StartWatches \/ StartRefreshes \/ StopAfterFailedStart
  BY <1>4 DEF StartBegins, StartWatches, StartRefreshes, StopAfterFailedStart, Stop, StopMarks
<1>5. CASE StopCancels \/ StopDropsSnapshot \/ WatcherPublishes \/ Environment
  BY <1>5 DEF StopCancels, StopDropsSnapshot, WatcherPublishes, Environment, WriteFile, RecoveryBegins
<1>6. CASE attemptRecovery
  BY <1>6 DEF attemptRecovery, RecoveryRestarts, RecoveryRefreshes, RecoveryReports, RecoveryStops,
     Stop, StopMarks
<1>7. CASE Client
  BY <1>7 DEF Client, RequestForce, RefreshForRecipe, ReceiveMessage, RequestStop, setRecipe, StopMarks
<1>8. CASE UNCHANGED vars
  BY <1>8 DEF vars
<1> QED
  BY <1>1, <1>2, <1>3, <1>4, <1>5, <1>6, <1>7, <1>8 DEF Next, Worker

\* The last waiter is let go only when the worker is stopped or detached.
LEMMA WaiterChainStep ==
    ASSUME TypeOK, Life, StoppedStaysDown, UITypes, WaiterChainAlive, [UINext]_uiVars
    PROVE  WaiterChainAlive'
<1>0. /\ ctxDone => state = "stopped"
      /\ waiter \in [Waiter -> {Off, Waiting} \cup [pc : {"holding"}, msg : Message]]
      /\ Life'
  BY UIStepIsWorkerStep, LifeStep DEF Life, ctxDone, UITypes
<1>1. ASSUME attached' => attached, quit => quit', state = "stopped" => state' = "stopped",
             \/ UNCHANGED waiter
             \/ \E w \in Waiter : waiter'[w] # Off
      PROVE  WaiterChainAlive'
  BY <1>1 DEF WaiterChainAlive
<1>2. state = "stopped" => state' = "stopped"
  BY UIStepIsWorkerStep, StoppedIsFinal
<1>3. CASE WorkerStep \/ FinishSetRecipe
  BY <1>1, <1>2, <1>3 DEF WorkerStep, uiState, FinishSetRecipe, uiUnchanged
<1>4. ASSUME NEW w \in Waiter,
             \/ WaiterReceives(w) \/ UpdateSnapshotReady(w) \/ UpdatePhase2(w) \/ UpdateError(w)
      PROVE  WaiterChainAlive'
  <2>1. waiter' = [waiter EXCEPT ![w] = Waiting] \/ waiter' = [waiter EXCEPT ![w] = Holding(mailbox)]
    BY <1>4 DEF WaiterReceives, UpdateSnapshotReady, UpdatePhase2, UpdateError, Rearm
  <2>2. waiter'[w] # Off
    BY <1>0, <2>1 DEF Waiting, Holding, Off
  <2>3. UNCHANGED <<attached, quit>>
    BY <1>4 DEF WaiterReceives, UpdateSnapshotReady, UpdatePhase2, UpdateError
  <2> QED
    BY <1>1, <1>2, <2>2, <2>3
<1>5. ASSUME NEW w \in Waiter, WaiterEnds(w)
      PROVE  WaiterChainAlive'
  <2>1. state' = "stopped"
    BY <1>0, <1>2, <1>5 DEF WaiterEnds
  <2> QED
    BY <2>1 DEF WaiterChainAlive
<1>6. ASSUME NEW w \in Waiter, UpdateDetached(w)
      PROVE  WaiterChainAlive'
  BY <1>6 DEF UpdateDetached, WaiterChainAlive
<1>7. ASSUME NEW w \in Waiter, UpdateTerminalError(w)
      PROVE  WaiterChainAlive'
  <2>1. CASE attached' = FALSE
    BY <2>1 DEF WaiterChainAlive
  <2>2. CASE Rearm(w) /\ UNCHANGED attached
    <3>1. waiter'[w] # Off
      BY <1>0, <2>2 DEF Rearm, Waiting, Off
    <3> QED
      BY <1>1, <1>2, <1>7, <2>2, <3>1 DEF UpdateTerminalError
  <2> QED
    BY <1>7, <2>1, <2>2 DEF UpdateTerminalError
<1>8. CASE UpdateStartError
  BY <1>8 DEF UpdateStartError, WaiterChainAlive
<1>9. CASE CtrlR
  BY <1>1, <1>2, <1>9 DEF CtrlR, uiUnchanged
<1>10. CASE BrUpdateDone
  <2>1. \E w \in Waiter : waiter'[w] # Off
    BY <1>0, <1>10 DEF BrUpdateDone, Waiting, Off
  <2> QED
    BY <1>1, <1>2, <1>10, <2>1 DEF BrUpdateDone, uiUnchanged
<1>11. ASSUME NEW r \in Recipe, SetActiveRecipe(r)
       PROVE  WaiterChainAlive'
  BY <1>1, <1>2, <1>11 DEF SetActiveRecipe, uiUnchanged
<1>12. CASE Quit
  BY <1>12 DEF Quit, WaiterChainAlive
<1>13. CASE UNCHANGED uiVars
  BY <1>1, <1>2, <1>13 DEF uiVars, uiState
<1> QED
  BY <1>3, <1>4, <1>5, <1>6, <1>7, <1>8, <1>9, <1>10, <1>11, <1>12, <1>13 DEF UINext, User, Update

\* No handler, refresh or recovery drops the chain of waiters while the model has
\* a running worker: there is always somebody to receive its next message.
THEOREM WaiterChainHolds == UISpec => []WaiterChainAlive
<1>1. UIInit => WaiterChainAlive
  BY UIConstantsAssumption DEF UIInit, WaiterChainAlive, Waiting, Off
<1>2. IInv /\ UITypes /\ WaiterChainAlive /\ [UINext]_uiVars => WaiterChainAlive'
  BY WaiterChainStep DEF IInv
<1> QED
  BY <1>1, <1>2, DeliveryInvariant, PTL DEF UISpec

=============================================================================
