------------------------- MODULE BackgroundWorkerProofs -------------------------
(***************************************************************************)
(* What holds of the background worker for any number of process()         *)
(* goroutines, file contents, recipes, recoveries and requests.            *)
(***************************************************************************)
EXTENDS BackgroundWorker, TLAPS

-----------------------------------------------------------------------------
(* The strengthened invariant *)

\* Stop is one-way, and only a worker between two life cycles has no watcher.
Life ==
    /\ state = "stopped" <=> stopPc # "running"
    /\ startPc = "over" => state = "stopped"
    /\ recoveryPc = "refresh" /\ state # "stopped" => watching
    /\ state # "stopped" /\ startPc \in {"live", "started"} /\ recoveryPc = "watching"
       => watching

\* No build is of a generation that has not begun, and a scheduled process()
\* is on its way.
Builders ==
    /\ \A g \in Goroutine :
         job[g].pc \in {"begun", "loaded"} => job[g].gen <= generation
    /\ processScheduled => \E g \in Goroutine : job[g].pc = "spawned"

\* The build that will be accepted has read the file after the worker's
\* snapshot was built.
Revisions ==
    /\ snapshot # NoSnapshot => /\ snapshot.rev <= file.rev
                                /\ snapshot.ver <= snapshotVersion
    /\ \A g \in Goroutine : job[g].pc = "loaded" =>
         /\ job[g].file.rev <= file.rev
         /\ Builds(g) /\ snapshot # NoSnapshot => job[g].file.rev >= snapshot.rev

\* A worker that is building owes the refresh even if its snapshot happens to
\* agree with the file: the build may have read something older.
Owing ==
    /\ state = "processing" => RefreshOwed
    /\ NoRefreshLost

IInv == TypeOK /\ Life /\ StoppedStaysDown /\ Builders /\ OneBuilder /\ Revisions /\ Owing

-----------------------------------------------------------------------------
(* Lemmas about the data and the helpers *)

\* The locals of process() have the type that its program counter says.
LEMMA JobFields ==
    ASSUME NEW j \in Job
    PROVE  /\ j.pc \in {"free", "spawned", "again", "begun", "loaded", "sending"}
           /\ j.pc = "begun" => j.force \in BOOLEAN /\ j.gen \in Nat
           /\ j.pc = "loaded" => /\ j.force \in BOOLEAN /\ j.gen \in Nat
                                 /\ j.file \in FileState /\ j.recipe \in Recipe
           /\ j.pc = "sending" => j.msg \in Message /\ j.again \in BOOLEAN
BY DEF Job, Free, Spawned, Again

\* What process() puts into its slot is a Job.
LEMMA JobValues ==
    /\ Free \in Job /\ Spawned \in Job /\ Again \in Job
    /\ \A force \in BOOLEAN, gen \in Nat : Begun(force, gen) \in Job
    /\ \A force \in BOOLEAN, gen \in Nat, f \in FileState, r \in Recipe :
         Loaded(force, gen, f, r) \in Job
    /\ \A msg \in Message, again \in BOOLEAN : Sending(msg, again) \in Job
BY DEF Job, Begun, Loaded, Sending

\* The messages of the worker are Messages.
LEMMA MessageValues ==
    /\ \A gen \in Nat : LoadError(gen) \in Message /\ Terminal(gen) \in Message
    /\ \A s \in Snapshot, gen \in Nat : Ready(s, gen) \in Message /\ Phase2(s, gen) \in Message
BY DEF Message, LoadError, Terminal, Ready, Phase2

\* A goroutine is started in a slot that was free.
LEMMA SpawnTakesFreeSlot ==
    ASSUME NEW jobs, Spawn(jobs)
    PROVE  \E g \in Goroutine : jobs[g] = Free /\ job' = [jobs EXCEPT ![g] = Spawned]
<1> DEFINE h == CHOOSE h \in Goroutine : jobs[h] = Free
<1>1. h \in Goroutine /\ jobs[h] = Free
  BY DEF Spawn
<1>2. job' = [jobs EXCEPT ![h] = Spawned]
  BY DEF Spawn
<1> QED
  BY <1>1, <1>2

\* TriggerRefresh keeps the types of what it writes.
LEMMA TriggerTypes ==
    ASSUME TypeOK, NEW jobs \in [Goroutine -> Job], TriggerRefreshFrom(jobs)
    PROVE  /\ job' \in [Goroutine -> Job]
           /\ dirty' \in BOOLEAN
           /\ processScheduled' \in BOOLEAN
<1>1. CASE job' = jobs /\ dirty' \in {dirty, TRUE} /\ UNCHANGED processScheduled
  BY <1>1 DEF TypeOK
<1>2. CASE processScheduled' = TRUE /\ Spawn(jobs) /\ UNCHANGED dirty
  <2>1. PICK g \in Goroutine : job' = [jobs EXCEPT ![g] = Spawned]
    BY <1>2, SpawnTakesFreeSlot
  <2> QED
    BY <1>2, <2>1, JobValues DEF TypeOK
<1> QED
  BY <1>1, <1>2 DEF TriggerRefreshFrom

\* send() leaves its message or what was queued, or nothing.
LEMMA AfterSendTypes ==
    ASSUME TypeOK, NEW msg \in Message, mailbox' \in AfterSend(msg)
    PROVE  mailbox' \in Message \cup {NoMessage}
BY DEF TypeOK, AfterSend

-----------------------------------------------------------------------------
(* Type correctness, one lemma for each thread *)

\* Every step of process() keeps the types.
LEMMA ProcessTypes ==
    ASSUME TypeOK, NEW g \in Goroutine, process(g)
    PROVE  TypeOK'
<1> DEFINE j == job[g]
<1>0. j \in Job
  BY DEF TypeOK
<1>1. CASE BeginProcess(g)
  <2>1. Begun(forceNext, generation) \in Job /\ Free \in Job
    BY JobValues DEF TypeOK
  <2>2. job' \in [Goroutine -> Job]
    BY <1>1, <2>1 DEF BeginProcess, TypeOK
  <2>3. dirty' \in BOOLEAN /\ forceNext' \in BOOLEAN /\ processScheduled' \in BOOLEAN
    BY <1>1 DEF BeginProcess, TypeOK
  <2> QED
    BY <1>1, <2>2, <2>3 DEF BeginProcess, TypeOK, fileVars, resultVars, loopVars, lifeVars, clientVars
<1>2. CASE LoadIssues(g)
  <2>1. Loaded(j.force, j.gen, file, currentRecipe) \in Job
    BY <1>0, <1>2, JobFields, JobValues DEF LoadIssues, TypeOK
  <2>2. job' \in [Goroutine -> Job]
    BY <1>2, <2>1 DEF LoadIssues, TypeOK
  <2> QED
    BY <1>2, <2>2 DEF LoadIssues, TypeOK, fileVars, resultVars, loopVars, lifeVars, clientVars
<1>3. CASE CommitSnapshot(g)
  <2> DEFINE new == [ver |-> snapshotVersion + 1, rev |-> j.file.rev,
                     content |-> j.file.content, recipe |-> j.recipe]
  <2>1. j.gen \in Nat /\ j.file \in FileState /\ j.recipe \in Recipe
    BY <1>0, <1>3, JobFields DEF CommitSnapshot
  <2>2. new \in Snapshot /\ new.ver \in Nat
    BY <2>1 DEF Snapshot, FileState, TypeOK
  <2>3. /\ Free \in Job /\ Again \in Job
        /\ Sending(LoadError(j.gen), dirty) \in Job
        /\ Sending(Ready(new, j.gen), dirty) \in Job
    BY <2>1, <2>2, JobValues, MessageValues DEF TypeOK
  <2>4. /\ state' \in {state, "idle"}
        /\ lastError' \in {lastError, TRUE, FALSE}
        /\ snapshot' \in {snapshot, new}
        /\ snapshotVersion' \in {snapshotVersion, new.ver}
        /\ \E todo \in {Free, Again, Sending(LoadError(j.gen), dirty),
                        Sending(Ready(new, j.gen), dirty)} :
             job' = [job EXCEPT ![g] = todo]
    BY <1>3 DEF CommitSnapshot, resultVars
  <2>5. job' \in [Goroutine -> Job]
    BY <2>3, <2>4 DEF TypeOK
  <2> HIDE DEF new
  <2>6. /\ state' \in {"idle", "processing", "stopped"} /\ lastError' \in BOOLEAN
        /\ snapshot' \in Snapshot \cup {NoSnapshot} /\ snapshotVersion' \in Nat
    BY <2>2, <2>4 DEF TypeOK
  <2> QED
    BY <1>3, <2>5, <2>6 DEF CommitSnapshot, TypeOK, fileVars, loopVars, lifeVars, clientVars
<1>4. CASE SendResult(g)
  <2>1. j.msg \in Message /\ j.again \in BOOLEAN
    BY <1>0, <1>4, JobFields DEF SendResult
  <2>2. mailbox' \in Message \cup {NoMessage}
    BY <1>4, <2>1, AfterSendTypes DEF SendResult
  <2>3. job' \in [Goroutine -> Job]
    BY <1>4, JobValues DEF SendResult, TypeOK
  <2>4. j.msg.kind = "ready" => j.msg.snap \in Snapshot \cup {NoSnapshot} /\ j.msg.gen \in Nat
    BY <2>1 DEF Message
  <2>5. j.msg.kind = "ready" =>
          [pc |-> "waiting", msg |-> Phase2(j.msg.snap, j.msg.gen)]
            \in [pc : {"waiting", "done"}, msg : Message]
    BY <2>4 DEF Phase2, Message
  <2>6. phase2' \subseteq [pc : {"waiting", "done"}, msg : Message]
    BY <1>4, <2>5 DEF SendResult, TypeOK
  <2> QED
    BY <1>4, <2>2, <2>3, <2>6 DEF SendResult, TypeOK, fileVars, resultVars, loopVars, lifeVars, clientVars
<1>5. CASE RunAgain(g)
  <2>1. [job EXCEPT ![g] = Free] \in [Goroutine -> Job]
    BY JobValues DEF TypeOK
  <2>2. /\ job' \in [Goroutine -> Job] /\ dirty' \in BOOLEAN /\ processScheduled' \in BOOLEAN
    BY <1>5, <2>1, TriggerTypes DEF RunAgain
  <2> QED
    BY <1>5, <2>2 DEF RunAgain, TypeOK, fileVars, resultVars, loopVars, lifeVars, clientVars
<1> QED
  BY <1>1, <1>2, <1>3, <1>4, <1>5 DEF process

\* So do the steps of runPhase2Analysis,
LEMMA Phase2Types ==
    ASSUME TypeOK, NEW p \in phase2, runPhase2Analysis(p)
    PROVE  TypeOK'
<1>1. CASE Phase2Completes(p)
  <2>1. [p EXCEPT !.pc = "done"] \in [pc : {"waiting", "done"}, msg : Message]
    BY DEF TypeOK
  <2>2. phase2' \subseteq [pc : {"waiting", "done"}, msg : Message]
    BY <1>1, <2>1 DEF Phase2Completes, TypeOK
  <2> QED
    BY <1>1, <2>2 DEF Phase2Completes, TypeOK, fileVars, refreshVars, resultVars, loopVars,
                      lifeVars, clientVars
<1>2. CASE SendPhase2(p)
  <2>1. p.msg \in Message
    BY DEF TypeOK
  <2>2. mailbox' \in Message \cup {NoMessage}
    BY <1>2, <2>1, AfterSendTypes DEF SendPhase2
  <2> QED
    BY <1>2, <2>2 DEF SendPhase2, TypeOK, fileVars, refreshVars, resultVars, loopVars,
                      lifeVars, clientVars
<1> QED
  BY <1>1, <1>2 DEF runPhase2Analysis

\* of processLoop,
LEMMA LoopTypes ==
    ASSUME TypeOK, processLoop
    PROVE  TypeOK'
<1>1. CASE LoopReceives
  <2>1. changed' \in BOOLEAN /\ noticed' \in BOOLEAN
    BY <1>1 DEF LoopReceives
  <2> QED
    BY <1>1, <2>1 DEF LoopReceives, TypeOK, refreshVars, resultVars, lifeVars, clientVars
<1>2. CASE LoopTriggers
  <2>1. job \in [Goroutine -> Job] /\ TriggerRefreshFrom(job)
    BY <1>2 DEF LoopTriggers, TriggerRefresh, TypeOK
  <2>2. job' \in [Goroutine -> Job] /\ dirty' \in BOOLEAN /\ processScheduled' \in BOOLEAN
    BY <2>1, TriggerTypes
  <2>3. noticed' \in BOOLEAN
    BY <1>2 DEF LoopTriggers
  <2> QED
    BY <1>2, <2>2, <2>3 DEF LoopTriggers, TriggerRefresh, TypeOK, fileVars, resultVars, lifeVars, clientVars
<1>3. CASE LoopExits
  BY <1>3 DEF LoopExits, TypeOK, fileVars, refreshVars, resultVars, lifeVars, clientVars
<1> QED
  BY <1>1, <1>2, <1>3 DEF processLoop

\* of Start and Stop,
LEMMA LifeTypes ==
    ASSUME TypeOK,
           \/ StartBegins \/ StartWatches \/ StartRefreshes \/ StopAfterFailedStart
           \/ StopCancels \/ StopDropsSnapshot
    PROVE  TypeOK'
<1>1. CASE StartBegins
  BY <1>1 DEF StartBegins, TypeOK, fileVars, refreshVars, resultVars, loopVars, clientVars
<1>2. CASE StartWatches
  <2>1. watching' \in BOOLEAN /\ pending' \in BOOLEAN /\ changed' \in BOOLEAN
    BY <1>2 DEF StartWatches, WatcherStarts, TypeOK
  <2> QED
    BY <1>2, <2>1 DEF StartWatches, WatcherStarts, TypeOK, refreshVars, resultVars, clientVars
<1>3. CASE StartRefreshes
  <2>1. job \in [Goroutine -> Job] /\ TriggerRefreshFrom(job)
    BY <1>3 DEF StartRefreshes, TriggerRefresh, TypeOK
  <2>2. job' \in [Goroutine -> Job] /\ dirty' \in BOOLEAN /\ processScheduled' \in BOOLEAN
    BY <2>1, TriggerTypes
  <2> QED
    BY <1>3, <2>2 DEF StartRefreshes, TriggerRefresh, TypeOK, fileVars, resultVars, loopVars, clientVars
<1>4. CASE StopAfterFailedStart
  <2>1. processScheduled' \in BOOLEAN
    BY <1>4 DEF StopAfterFailedStart, Stop, StopMarks, TypeOK
  <2> QED
    BY <1>4, <2>1 DEF StopAfterFailedStart, Stop, StopMarks, TypeOK, fileVars, resultVars, loopVars, clientVars
<1>5. CASE StopCancels
  <2>1. watching' \in BOOLEAN /\ pending' \in BOOLEAN /\ changed' \in BOOLEAN
    BY <1>5 DEF StopCancels, WatcherStops
  <2> QED
    BY <1>5, <2>1 DEF StopCancels, WatcherStops, TypeOK, refreshVars, resultVars, clientVars
<1>6. CASE StopDropsSnapshot
  BY <1>6 DEF StopDropsSnapshot, TypeOK, fileVars, refreshVars, loopVars, clientVars
<1> QED
  BY <1>1, <1>2, <1>3, <1>4, <1>5, <1>6

\* of the watchdog's recovery,
LEMMA RecoveryTypes ==
    ASSUME TypeOK, attemptRecovery \/ RecoveryBegins
    PROVE  TypeOK'
<1>1. CASE RecoveryBegins
  <2>1. dirty' \in BOOLEAN /\ processScheduled' \in BOOLEAN
    BY <1>1 DEF RecoveryBegins
  <2> QED
    BY <1>1, <2>1 DEF RecoveryBegins, TypeOK, fileVars, resultVars, clientVars
<1>2. CASE RecoveryRestarts
  <2>1. watching' \in BOOLEAN /\ pending' \in BOOLEAN /\ changed' \in BOOLEAN
    BY <1>2 DEF RecoveryRestarts, WatcherStarts, WatcherStops, TypeOK
  <2> QED
    BY <1>2, <2>1 DEF RecoveryRestarts, WatcherStarts, WatcherStops, TypeOK, refreshVars, resultVars, clientVars
<1>3. CASE RecoveryRefreshes
  <2>1. job \in [Goroutine -> Job] /\ TriggerRefreshFrom(job) /\ forceNext' \in BOOLEAN
    BY <1>3 DEF RecoveryRefreshes, ForceRefresh, TypeOK
  <2>2. job' \in [Goroutine -> Job] /\ dirty' \in BOOLEAN /\ processScheduled' \in BOOLEAN
    BY <2>1, TriggerTypes
  <2> QED
    BY <1>3, <2>1, <2>2 DEF RecoveryRefreshes, TypeOK, fileVars, resultVars, loopVars, clientVars
<1>4. CASE RecoveryReports
  <2>1. Terminal(generation) \in Message
    BY MessageValues DEF TypeOK
  <2>2. mailbox' \in Message \cup {NoMessage}
    BY <1>4, <2>1, AfterSendTypes DEF RecoveryReports
  <2> QED
    BY <1>4, <2>2 DEF RecoveryReports, TypeOK, fileVars, refreshVars, resultVars, loopVars, clientVars
<1>5. CASE RecoveryStops
  <2>1. processScheduled' \in BOOLEAN
    BY <1>5 DEF RecoveryStops, Stop, StopMarks, TypeOK
  <2> QED
    BY <1>5, <2>1 DEF RecoveryStops, Stop, StopMarks, TypeOK, fileVars, resultVars, loopVars, clientVars
<1> QED
  BY <1>1, <1>2, <1>3, <1>4, <1>5 DEF attemptRecovery

\* of the file and its watcher,
LEMMA FileTypes ==
    ASSUME TypeOK, WriteFile \/ WatcherPublishes
    PROVE  TypeOK'
<1>1. CASE WriteFile
  <2>1. file' \in FileState
    BY <1>1 DEF WriteFile, TypeOK, FileState
  <2> QED
    BY <1>1, <2>1 DEF WriteFile, TypeOK, refreshVars, resultVars, loopVars, lifeVars, clientVars
<1>2. CASE WatcherPublishes
  <2>1. pending' \in BOOLEAN /\ changed' \in BOOLEAN
    BY <1>2, ConstantsAssumption DEF WatcherPublishes
  <2> QED
    BY <1>2, <2>1 DEF WatcherPublishes, TypeOK, refreshVars, resultVars, loopVars, lifeVars, clientVars
<1> QED
  BY <1>1, <1>2

\* and of the client.
LEMMA ClientTypes ==
    ASSUME TypeOK, Client
    PROVE  TypeOK'
<1>1. CASE RequestForce \/ RefreshForRecipe
  <2>1. job \in [Goroutine -> Job] /\ TriggerRefreshFrom(job) /\ forceNext' \in BOOLEAN
    BY <1>1 DEF RequestForce, RefreshForRecipe, ForceRefresh, TypeOK
  <2>2. job' \in [Goroutine -> Job] /\ dirty' \in BOOLEAN /\ processScheduled' \in BOOLEAN
    BY <2>1, TriggerTypes
  <2>3. recipeChanged' \in BOOLEAN
    BY <1>1 DEF RequestForce, RefreshForRecipe, TypeOK
  <2>4. requests' \in Nat
    BY <1>1 DEF RequestForce, RefreshForRecipe, TypeOK
  <2> QED
    BY <1>1, <2>1, <2>2, <2>3, <2>4 DEF RequestForce, RefreshForRecipe, clientUnchanged, TypeOK, fileVars,
                            resultVars, loopVars
<1>2. ASSUME NEW r \in Recipe, setRecipe(r) PROVE TypeOK'
  BY <1>2 DEF setRecipe, clientUnchanged, TypeOK, fileVars, refreshVars, resultVars, loopVars
<1>3. CASE ReceiveMessage
  BY <1>3 DEF ReceiveMessage, clientUnchanged, TypeOK, fileVars, refreshVars, resultVars, loopVars,
              clientVars
<1>4. CASE RequestStop
  <2>1. processScheduled' \in BOOLEAN
    BY <1>4 DEF RequestStop, StopMarks
  <2> QED
    BY <1>4, <2>1 DEF RequestStop, StopMarks, clientUnchanged, TypeOK, fileVars, resultVars, loopVars, clientVars
<1> QED
  BY <1>1, <1>2, <1>3, <1>4 DEF Client

\* Every variable of the worker keeps its type, whatever goroutines, recoveries
\* and clients do.
THEOREM WorkerTypeCorrect == Spec => []TypeOK
<1>1. Init => TypeOK
  <2> SUFFICES ASSUME Init PROVE TypeOK
    OBVIOUS
  <2>1. file \in FileState
    BY DEF Init, FileState
  <2>2. job \in [Goroutine -> Job]
    BY JobValues DEF Init
  <2> QED
    BY <2>1, <2>2 DEF Init, TypeOK
<1>2. TypeOK /\ [Next]_vars => TypeOK'
  <2> SUFFICES ASSUME TypeOK, [Next]_vars PROVE TypeOK'
    OBVIOUS
  <2>1. CASE UNCHANGED vars
    BY <2>1 DEF vars, TypeOK, fileVars, refreshVars, resultVars, loopVars, lifeVars, clientVars
  <2> QED
    BY <2>1, ProcessTypes, Phase2Types, LoopTypes, LifeTypes, RecoveryTypes, FileTypes, ClientTypes
       DEF Next, Worker, Environment
<1> QED
  BY <1>1, <1>2, PTL DEF Spec

-----------------------------------------------------------------------------
(* A stopped worker stays down *)

LifeVars == <<state, stopPc, startPc, recoveryPc, watching, loop, snapshot>>

\* What touches none of these variables preserves what is said of them.
LEMMA LifeFrame ==
    ASSUME Life, StoppedStaysDown, UNCHANGED LifeVars
    PROVE  Life' /\ StoppedStaysDown'
BY DEF Life, StoppedStaysDown, LifeVars, ctxDone

\* Stop is final and only a worker between two life cycles lacks its watcher:
\* every step of every thread keeps it so.
LEMMA LifeStep ==
    ASSUME TypeOK, Life, StoppedStaysDown, [Next]_vars
    PROVE  Life' /\ StoppedStaysDown'
<1> USE DEF Life, StoppedStaysDown, ctxDone
<1>1. ASSUME NEW g \in Goroutine, process(g)
      PROVE  Life' /\ StoppedStaysDown'
  <2>1. CASE BeginProcess(g)
    BY <2>1 DEF BeginProcess, TypeOK, fileVars, resultVars, loopVars, lifeVars
  <2>2. CASE CommitSnapshot(g)
    <3>1. CASE Superseded(job[g]) /\ UNCHANGED <<state, resultVars>>
      BY <2>2, <3>1 DEF CommitSnapshot, fileVars, resultVars, loopVars, lifeVars
    <3>2. CASE ~Superseded(job[g]) /\ state' = "idle"
      <4>1. state # "stopped"
        BY <3>2 DEF Superseded
      <4> QED
        BY <2>2, <3>2, <4>1 DEF CommitSnapshot, fileVars, loopVars, lifeVars
    <3> QED
      BY <2>2, <3>1, <3>2 DEF CommitSnapshot
  <2>3. CASE LoadIssues(g) \/ SendResult(g) \/ RunAgain(g)
    BY <2>3, LifeFrame DEF LoadIssues, SendResult, RunAgain, LifeVars, fileVars, resultVars,
                           loopVars, lifeVars
  <2> QED
    BY <1>1, <2>1, <2>2, <2>3 DEF process
<1>2. ASSUME NEW p \in phase2, runPhase2Analysis(p)
      PROVE  Life' /\ StoppedStaysDown'
  BY <1>2, LifeFrame DEF runPhase2Analysis, Phase2Completes, SendPhase2, LifeVars, fileVars,
                         resultVars, loopVars, lifeVars
<1>3. CASE processLoop
  <2>1. CASE LoopReceives \/ LoopTriggers
    BY <2>1, LifeFrame DEF LoopReceives, LoopTriggers, LifeVars, fileVars, resultVars, lifeVars
  <2>2. CASE LoopExits
    BY <2>2 DEF LoopExits, fileVars, resultVars, lifeVars
  <2> QED
    BY <1>3, <2>1, <2>2 DEF processLoop
<1>4. CASE StartBegins
  BY <1>4 DEF StartBegins, TypeOK, fileVars, resultVars, loopVars
<1>5. CASE StartWatches
  BY <1>5 DEF StartWatches, WatcherStarts, TypeOK, resultVars
<1>6. CASE StartRefreshes
  BY <1>6 DEF StartRefreshes, fileVars, resultVars, loopVars
<1>7. CASE StopAfterFailedStart
  BY <1>7 DEF StopAfterFailedStart, Stop, StopMarks, TypeOK, fileVars, resultVars, loopVars
<1>8. CASE StopCancels
  BY <1>8 DEF StopCancels, WatcherStops, TypeOK, resultVars
<1>9. CASE StopDropsSnapshot
  BY <1>9 DEF StopDropsSnapshot, TypeOK, fileVars, loopVars
<1>10. CASE RecoveryBegins
  BY <1>10 DEF RecoveryBegins, TypeOK, fileVars, resultVars
<1>11. CASE RecoveryRestarts
  BY <1>11 DEF RecoveryRestarts, WatcherStarts, WatcherStops, TypeOK, resultVars
<1>12. CASE RecoveryRefreshes
  BY <1>12 DEF RecoveryRefreshes, fileVars, resultVars, loopVars
<1>13. CASE RecoveryReports
  BY <1>13 DEF RecoveryReports, fileVars, resultVars, loopVars
<1>14. CASE RecoveryStops
  BY <1>14 DEF RecoveryStops, Stop, StopMarks, TypeOK, fileVars, resultVars, loopVars
<1>15. CASE WriteFile \/ WatcherPublishes
  BY <1>15, LifeFrame DEF WriteFile, WatcherPublishes, LifeVars, resultVars, loopVars, lifeVars
<1>16. CASE Client
  <2>1. CASE RequestStop
    BY <2>1 DEF RequestStop, StopMarks, clientUnchanged, TypeOK, fileVars, resultVars, loopVars
  <2>2. CASE ~RequestStop
    BY <1>16, <2>2, LifeFrame DEF Client, RequestForce, RefreshForRecipe, ReceiveMessage, setRecipe,
       clientUnchanged, LifeVars, fileVars, resultVars, loopVars
  <2> QED
    BY <2>1, <2>2
<1>17. CASE UNCHANGED vars
  BY <1>17, LifeFrame DEF vars, LifeVars, fileVars, resultVars, loopVars, lifeVars
<1> QED
  BY <1>1, <1>2, <1>3, <1>4, <1>5, <1>6, <1>7, <1>8, <1>9, <1>10, <1>11, <1>12, <1>13, <1>14,
     <1>15, <1>16, <1>17 DEF Next, Worker, Environment, attemptRecovery

\* Neither a Start nor a recovery that Stop overtook brings watcher or loop
\* back, and no build that outlived Stop installs a snapshot.
THEOREM StoppedWorkerStaysDown == Spec => []StoppedStaysDown
<1>1. Init => Life /\ StoppedStaysDown
  BY DEF Init, Life, StoppedStaysDown, ctxDone
<1>2. TypeOK /\ Life /\ StoppedStaysDown /\ [Next]_vars => Life' /\ StoppedStaysDown'
  BY LifeStep
<1> QED
  BY <1>1, <1>2, WorkerTypeCorrect, PTL DEF Spec

-----------------------------------------------------------------------------
(* One builder at a time *)

\* TriggerRefresh may start a goroutine in a free slot; the others go on.
LEMMA TriggerKeepsJobs ==
    ASSUME TypeOK, NEW jobs \in [Goroutine -> Job], TriggerRefreshFrom(jobs)
    PROVE  /\ \A g \in Goroutine : \/ job'[g] = jobs[g]
                                   \/ jobs[g] = Free /\ job'[g] = Spawned
           /\ processScheduled' => processScheduled \/ \E g \in Goroutine : job'[g] = Spawned
<1>1. CASE job' = jobs /\ UNCHANGED processScheduled
  BY <1>1
<1>2. CASE Spawn(jobs)
  <2>1. PICK g \in Goroutine : jobs[g] = Free /\ job' = [jobs EXCEPT ![g] = Spawned]
    BY <1>2, SpawnTakesFreeSlot
  <2>2. job'[g] = Spawned /\ \A h \in Goroutine \ {g} : job'[h] = jobs[h]
    BY <2>1
  <2> QED
    BY <2>1, <2>2
<1> QED
  BY <1>1, <1>2 DEF TriggerRefreshFrom

Building(j) == j.pc \in {"begun", "loaded"}

\* If state and generation stay and no slot starts, ends or changes a build,
\* the builders are the same.
LEMMA SameBuilders ==
    ASSUME Builders, OneBuilder, UNCHANGED <<state, generation>>,
           \A g \in Goroutine : \/ job'[g] = job[g]
                                \/ ~Building(job[g]) /\ ~Building(job'[g]),
           processScheduled' => \E g \in Goroutine : job'[g].pc = "spawned"
    PROVE  Builders' /\ OneBuilder'
<1>1. \A g \in Goroutine : Builds(g)' <=> Builds(g)
  BY DEF Builds, Building, Superseded
<1>2. OneBuilder'
  BY <1>1 DEF OneBuilder
<1>3. Builders'
  BY DEF Builders, Building
<1> QED
  BY <1>2, <1>3

\* Every caller of TriggerRefresh leaves the builders alone.
LEMMA TriggerKeepsBuilders ==
    ASSUME TypeOK, Builders, OneBuilder, UNCHANGED <<state, generation>>,
           NEW jobs \in [Goroutine -> Job], TriggerRefreshFrom(jobs),
           \A g \in Goroutine : \/ jobs[g] = job[g]
                                \/ job[g].pc = "again" /\ jobs[g] = Free
    PROVE  Builders' /\ OneBuilder'
<1>1. \A g \in Goroutine : \/ job'[g] = job[g]
                           \/ ~Building(job[g]) /\ ~Building(job'[g])
  BY TriggerKeepsJobs DEF Building, Free, Spawned
<1>2. ASSUME processScheduled'
      PROVE  \E g \in Goroutine : job'[g].pc = "spawned"
  <2>1. CASE \E g \in Goroutine : job'[g] = Spawned
    BY <2>1 DEF Spawned
  <2>2. CASE processScheduled
    <3>1. PICK g \in Goroutine : job[g].pc = "spawned"
      BY <2>2 DEF Builders
    <3>2. job'[g].pc = "spawned"
      BY <3>1, TriggerKeepsJobs DEF Free, Spawned
    <3> QED
      BY <3>2
  <2> QED
    BY <1>2, <2>1, <2>2, TriggerKeepsJobs
<1> QED
  BY <1>1, <1>2, SameBuilders

\* process() claims the worker only when it is idle, CommitSnapshot gives it up,
\* and a recovery or Stop leaves no build that could be accepted.
LEMMA BuildersStep ==
    ASSUME TypeOK, Life, Builders, OneBuilder, [Next]_vars
    PROVE  Builders' /\ OneBuilder'
<1>1. ASSUME NEW g \in Goroutine, process(g)
      PROVE  Builders' /\ OneBuilder'
  <2>0. job \in [Goroutine -> Job] /\ job[g] \in Job /\ generation \in Nat
    BY DEF TypeOK
  <2>1. CASE BeginProcess(g)
    <3>1. CASE state = "idle"
      <4>1. \A h \in Goroutine : ~Builds(h)
        BY <3>1 DEF OneBuilder
      <4>2. /\ job' = [job EXCEPT ![g] = Begun(forceNext, generation)]
            /\ state' = "processing" /\ processScheduled' = FALSE /\ generation' = generation
        BY <2>1, <3>1 DEF BeginProcess
      <4>3. \A h \in Goroutine \ {g} : job'[h] = job[h]
        BY <2>0, <4>2
      <4>4. job'[g].pc = "begun" /\ job'[g].gen = generation
        BY <2>0, <4>2 DEF Begun
      <4>5. Builds(g)' /\ \A h \in Goroutine \ {g} : ~Builds(h)'
        BY <3>1, <4>1, <4>2, <4>3, <4>4 DEF Builds, Superseded
      <4>6. OneBuilder'
        BY <4>2, <4>5 DEF OneBuilder
      <4>7. Builders'
        BY <2>0, <4>2, <4>3, <4>4 DEF Builders
      <4> QED
        BY <4>6, <4>7
    <3>2. CASE state # "idle"
      <4>1. /\ job' = [job EXCEPT ![g] = Free] /\ job[g].pc = "spawned"
            /\ processScheduled' = FALSE /\ UNCHANGED <<state, generation>>
        BY <2>1, <3>2 DEF BeginProcess
      <4>2. job'[g] = Free /\ \A h \in Goroutine \ {g} : job'[h] = job[h]
        BY <2>0, <4>1
      <4> QED
        BY <4>1, <4>2, SameBuilders DEF Building, Free
    <3> QED
      BY <3>1, <3>2
  <2>2. CASE LoadIssues(g)
    <3>1. /\ job[g].pc = "begun"
          /\ job' = [job EXCEPT ![g] = Loaded(@.force, @.gen, file, currentRecipe)]
          /\ UNCHANGED <<state, generation, processScheduled>>
      BY <2>2 DEF LoadIssues
    <3>2. job'[g].pc = "loaded" /\ job'[g].gen = job[g].gen
      BY <2>0, <3>1 DEF Loaded
    <3>3. \A h \in Goroutine \ {g} : job'[h] = job[h]
      BY <2>0, <3>1
    <3>4. \A h \in Goroutine : Builds(h)' <=> Builds(h)
      BY <3>1, <3>2, <3>3 DEF Builds, Superseded
    <3>5. OneBuilder'
      BY <3>1, <3>4 DEF OneBuilder
    <3>6. Builders'
      BY <3>1, <3>2, <3>3 DEF Builders
    <3> QED
      BY <3>5, <3>6
  <2>3. CASE CommitSnapshot(g)
    <3>1. /\ job[g].pc = "loaded"
          /\ UNCHANGED <<generation, processScheduled>>
          /\ \E todo : ~Building(todo) /\ todo.pc # "spawned" /\ job' = [job EXCEPT ![g] = todo]
      BY <2>3 DEF CommitSnapshot, Building, Free, Again, Sending
    <3>2. ~Building(job'[g]) /\ job'[g].pc # "spawned"
      BY <2>0, <3>1
    <3>3. \A h \in Goroutine \ {g} : job'[h] = job[h]
      BY <2>0, <3>1
    <3>4. Builders'
      BY <3>1, <3>2, <3>3 DEF Builders, Building
    <3>5. CASE Superseded(job[g]) /\ UNCHANGED state
      <4>1. \A h \in Goroutine : Builds(h)' <=> Builds(h)
        BY <3>1, <3>2, <3>3, <3>5 DEF Builds, Superseded, Building
      <4> QED
        BY <3>4, <3>5, <4>1 DEF OneBuilder
    <3>6. CASE ~Superseded(job[g]) /\ state' = "idle"
      <4>1. Builds(g) /\ state # "stopped"
        BY <3>1, <3>6 DEF Builds, Superseded
      <4>2. \A h \in Goroutine : ~Builds(h)'
        BY <3>1, <3>2, <3>3, <3>6, <4>1 DEF OneBuilder, Builds, Superseded, Building
      <4> QED
        BY <3>4, <3>6, <4>2 DEF OneBuilder
    <3> QED
      BY <2>3, <3>5, <3>6 DEF CommitSnapshot
  <2>4. CASE SendResult(g)
    <3>1. /\ job[g].pc = "sending" /\ UNCHANGED <<state, generation, processScheduled>>
          /\ \E todo \in {Free, Again} : job' = [job EXCEPT ![g] = todo]
      BY <2>4 DEF SendResult
    <3>2. job'[g] \in {Free, Again} /\ \A h \in Goroutine \ {g} : job'[h] = job[h]
      BY <2>0, <3>1
    <3>3. processScheduled' => \E h \in Goroutine : job'[h].pc = "spawned"
      BY <3>1, <3>2 DEF Builders
    <3> QED
      BY <3>1, <3>2, <3>3, SameBuilders DEF Building, Free, Again
  <2>5. CASE RunAgain(g)
    <3>1. [job EXCEPT ![g] = Free] \in [Goroutine -> Job]
      BY <2>0, JobValues
    <3>2. \A h \in Goroutine : \/ [job EXCEPT ![g] = Free][h] = job[h]
                               \/ job[h].pc = "again" /\ [job EXCEPT ![g] = Free][h] = Free
      BY <2>0, <2>5 DEF RunAgain
    <3>3. TriggerRefreshFrom([job EXCEPT ![g] = Free]) /\ UNCHANGED <<state, generation>>
      BY <2>5 DEF RunAgain
    <3> QED
      BY <3>1, <3>2, <3>3, TriggerKeepsBuilders
  <2> QED
    BY <1>1, <2>1, <2>2, <2>3, <2>4, <2>5 DEF process
<1>2. ASSUME TriggerRefreshFrom(job), UNCHANGED <<state, generation>>
      PROVE  Builders' /\ OneBuilder'
  BY <1>2, TriggerKeepsBuilders DEF TypeOK
<1>3. ASSUME UNCHANGED <<state, generation, processScheduled, job>>
      PROVE  Builders' /\ OneBuilder'
  BY <1>3, SameBuilders DEF Builders
<1>4. ASSUME UNCHANGED <<generation, job>>, StopMarks
      PROVE  Builders' /\ OneBuilder'
  <2>1. \A g \in Goroutine : ~Builds(g)'
    BY <1>4 DEF StopMarks, Builds, Superseded
  <2> QED
    BY <1>4, <2>1 DEF Builders, OneBuilder, StopMarks
<1>5. CASE RecoveryBegins
  <2>1. /\ UNCHANGED job /\ state' = "idle" /\ processScheduled' = FALSE
        /\ generation' = generation + 1 /\ generation \in Nat
    BY <1>5 DEF RecoveryBegins, TypeOK
  <2>2. \A g \in Goroutine : Building(job[g]) => job[g].gen \in Nat /\ job[g].gen <= generation
    BY JobFields DEF Building, Builders, TypeOK
  <2>3. \A g \in Goroutine : ~Builds(g)'
    BY <2>1, <2>2 DEF Builds, Superseded, Building
  <2>4. Builders'
    BY <2>1, <2>2 DEF Builders, Building
  <2> QED
    BY <2>1, <2>3, <2>4 DEF OneBuilder
<1>6. ASSUME NEW p \in phase2, runPhase2Analysis(p) PROVE Builders' /\ OneBuilder'
  BY <1>3, <1>6 DEF runPhase2Analysis, Phase2Completes, SendPhase2, refreshVars
<1>7. CASE processLoop
  BY <1>2, <1>3, <1>7 DEF processLoop, LoopReceives, LoopTriggers, LoopExits, TriggerRefresh, refreshVars
<1>8. CASE StartBegins \/ StartWatches \/ StopCancels \/ StopDropsSnapshot
  BY <1>3, <1>8 DEF StartBegins, StartWatches, StopCancels, StopDropsSnapshot, refreshVars
<1>9. CASE StartRefreshes
  BY <1>2, <1>9 DEF StartRefreshes, TriggerRefresh
<1>10. CASE StopAfterFailedStart
  BY <1>3, <1>4, <1>10 DEF StopAfterFailedStart, Stop
<1>11. CASE attemptRecovery
  BY <1>2, <1>3, <1>4, <1>11 DEF attemptRecovery, RecoveryRestarts, RecoveryRefreshes, RecoveryReports,
     RecoveryStops, ForceRefresh, Stop, refreshVars
<1>12. CASE WriteFile \/ WatcherPublishes
  BY <1>3, <1>12 DEF WriteFile, WatcherPublishes, refreshVars
<1>13. CASE Client
  BY <1>2, <1>3, <1>4, <1>13 DEF Client, RequestForce, RefreshForRecipe, ReceiveMessage, RequestStop,
     setRecipe, ForceRefresh, clientUnchanged, refreshVars
<1>14. CASE UNCHANGED vars
  BY <1>3, <1>14 DEF vars, refreshVars
<1> QED
  BY <1>1, <1>5, <1>6, <1>7, <1>8, <1>9, <1>10, <1>11, <1>12, <1>13, <1>14
     DEF Next, Worker, Environment

\* For any number of hung builds and recoveries at most one build will be
\* accepted, and the state says "processing" exactly while there is one.
THEOREM OneAcceptedBuilder == Spec => []OneBuilder
<1>1. Init => Life /\ StoppedStaysDown /\ Builders /\ OneBuilder
  BY DEF Init, Life, StoppedStaysDown, ctxDone, Builders, OneBuilder, Builds, Free
<1>2. TypeOK /\ Life /\ StoppedStaysDown /\ Builders /\ OneBuilder /\ [Next]_vars
      => Life' /\ StoppedStaysDown' /\ Builders' /\ OneBuilder'
  BY LifeStep, BuildersStep
<1> QED
  BY <1>1, <1>2, WorkerTypeCorrect, PTL DEF Spec

-----------------------------------------------------------------------------
(* The snapshot never goes back *)

NeverOlder ==
    snapshot # NoSnapshot /\ snapshot' # NoSnapshot
    => snapshot'.rev >= snapshot.rev /\ snapshot'.ver >= snapshot.ver

\* If nothing but commits installs snapshots, no slot loads the file and
\* superseded builds stay superseded, all is as before.
LEMMA RevisionsFrame ==
    ASSUME TypeOK, Revisions, UNCHANGED <<file, snapshot, snapshotVersion>>,
           \A g \in Goroutine : job'[g].pc = "loaded" =>
               job'[g] = job[g] /\ (Builds(g)' => Builds(g))
    PROVE  Revisions' /\ NeverOlder
<1>1. snapshot # NoSnapshot => snapshot.rev \in Nat /\ snapshot.ver \in Nat
  BY DEF TypeOK, Snapshot
<1> QED
  BY <1>1 DEF Revisions, NeverOlder

\* A build stays superseded: generations grow and Stop is final.
LEMMA StaysSuperseded ==
    ASSUME TypeOK, Builders, NEW g \in Goroutine, job'[g] = job[g],
           \/ UNCHANGED generation /\ (state = "stopped" => state' = "stopped")
           \/ generation' = generation + 1
    PROVE  Builds(g)' => Builds(g)
<1>1. generation \in Nat
  BY DEF TypeOK
<1>2. Building(job[g]) => job[g].gen \in Nat /\ job[g].gen <= generation
  BY JobFields DEF Building, Builders, TypeOK
<1> QED
  BY <1>1, <1>2 DEF Builds, Superseded, Building

\* A commit installs what its build has read, and no other build of the
\* generation has read the file before.
LEMMA RevisionsStep ==
    ASSUME TypeOK, Life, StoppedStaysDown, Builders, OneBuilder, Revisions, [Next]_vars
    PROVE  Revisions' /\ NeverOlder
<1>0. /\ job \in [Goroutine -> Job] /\ generation \in Nat /\ snapshotVersion \in Nat
      /\ file \in FileState /\ file.rev \in Nat
      /\ snapshot # NoSnapshot => snapshot.rev \in Nat /\ snapshot.ver \in Nat
  BY DEF TypeOK, Snapshot, FileState
<1>1. ASSUME UNCHANGED <<file, snapshot, snapshotVersion, generation>>,
             state = "stopped" => state' = "stopped",
             \A g \in Goroutine : job'[g].pc = "loaded" => job'[g] = job[g]
      PROVE  Revisions' /\ NeverOlder
  BY <1>1, StaysSuperseded, RevisionsFrame
<1>2. ASSUME UNCHANGED <<file, snapshot, snapshotVersion, generation, state>>,
             NEW jobs \in [Goroutine -> Job], TriggerRefreshFrom(jobs),
             \A g \in Goroutine : jobs[g] = job[g] \/ jobs[g] = Free
      PROVE  Revisions' /\ NeverOlder
  <2>1. \A g \in Goroutine : job'[g].pc = "loaded" => job'[g] = job[g]
    BY <1>2, TriggerKeepsJobs DEF Free, Spawned
  <2> QED
    BY <1>1, <1>2, <2>1
<1>3. ASSUME NEW g \in Goroutine, process(g)
      PROVE  Revisions' /\ NeverOlder
  <2>1. CASE BeginProcess(g)
    <3>1. /\ UNCHANGED <<file, snapshot, snapshotVersion, generation>>
          /\ state = "stopped" => state' = "stopped"
          /\ \E todo \in {Free, Begun(forceNext, generation)} : job' = [job EXCEPT ![g] = todo]
      BY <2>1 DEF BeginProcess, fileVars, resultVars
    <3>2. \A h \in Goroutine : job'[h].pc = "loaded" => job'[h] = job[h]
      BY <1>0, <3>1 DEF Free, Begun
    <3> QED
      BY <1>1, <3>1, <3>2
  <2>2. CASE LoadIssues(g)
    <3>1. /\ job[g].pc = "begun"
          /\ job' = [job EXCEPT ![g] = Loaded(@.force, @.gen, file, currentRecipe)]
          /\ UNCHANGED <<file, snapshot, snapshotVersion, state, generation>>
      BY <2>2 DEF LoadIssues, fileVars, resultVars
    <3>2. job'[g].file = file
      BY <1>0, <3>1 DEF Loaded
    <3>3. \A h \in Goroutine \ {g} : job'[h] = job[h] /\ (Builds(h)' => Builds(h))
      BY <1>0, <3>1, StaysSuperseded
    <3>4. Revisions'
      BY <1>0, <3>1, <3>2, <3>3 DEF Revisions
    <3> QED
      BY <1>0, <3>1, <3>4 DEF NeverOlder
  <2>3. CASE CommitSnapshot(g)
    <3> DEFINE j == job[g]
               new == [ver |-> snapshotVersion + 1, rev |-> j.file.rev,
                       content |-> j.file.content, recipe |-> j.recipe]
    <3>1. /\ j.pc = "loaded" /\ UNCHANGED <<file, generation>>
          /\ \E todo : todo.pc # "loaded" /\ job' = [job EXCEPT ![g] = todo]
      BY <2>3 DEF CommitSnapshot, Free, Again, Sending, fileVars
    <3>2. \A h \in Goroutine : job'[h].pc = "loaded" => h # g /\ job'[h] = job[h]
      BY <1>0, <3>1
    <3>3. j.file.rev \in Nat
      BY <1>0, <3>1, JobFields DEF FileState
    <3>4. CASE UNCHANGED <<snapshot, snapshotVersion>>
      <4>1. state = "stopped" => state' = "stopped"
        BY <2>3 DEF CommitSnapshot, Superseded
      <4> QED
        BY <1>1, <3>1, <3>2, <3>4, <4>1
    <3>5. CASE ~Superseded(j) /\ state' = "idle" /\ snapshot' = new /\ snapshotVersion' = new.ver
      <4>1. Builds(g) /\ state # "stopped"
        BY <3>1, <3>5 DEF Builds, Superseded
      <4>2. \A h \in Goroutine : job'[h].pc = "loaded" => ~Builds(h)'
        BY <1>0, <3>1, <3>2, <3>5, <4>1, StaysSuperseded DEF OneBuilder
      <4>3. snapshot'.rev = j.file.rev /\ snapshot'.ver = snapshotVersion + 1
        BY <3>5
      <4>4. j.file.rev <= file.rev /\ (snapshot # NoSnapshot => j.file.rev >= snapshot.rev)
        BY <3>1, <4>1 DEF Revisions
      <4>5. Revisions'
        BY <1>0, <3>1, <3>2, <3>5, <4>2, <4>3, <4>4 DEF Revisions
      <4>6. NeverOlder
        BY <1>0, <3>3, <4>3, <4>4 DEF NeverOlder, Revisions
      <4> QED
        BY <4>5, <4>6
    <3> HIDE DEF new
    <3> QED
      BY <2>3, <3>4, <3>5 DEF CommitSnapshot, resultVars, new
  <2>4. CASE SendResult(g)
    <3>1. /\ UNCHANGED <<file, snapshot, snapshotVersion, generation, state>>
          /\ \E todo \in {Free, Again} : job' = [job EXCEPT ![g] = todo]
      BY <2>4 DEF SendResult, fileVars, resultVars
    <3>2. \A h \in Goroutine : job'[h].pc = "loaded" => job'[h] = job[h]
      BY <1>0, <3>1 DEF Free, Again
    <3> QED
      BY <1>1, <3>1, <3>2
  <2>5. CASE RunAgain(g)
    <3>1. [job EXCEPT ![g] = Free] \in [Goroutine -> Job]
      BY <1>0, JobValues
    <3>2. \A h \in Goroutine : \/ [job EXCEPT ![g] = Free][h] = job[h]
                               \/ [job EXCEPT ![g] = Free][h] = Free
      BY <1>0
    <3>3. /\ UNCHANGED <<file, snapshot, snapshotVersion, generation, state>>
          /\ TriggerRefreshFrom([job EXCEPT ![g] = Free])
      BY <2>5 DEF RunAgain, fileVars, resultVars
    <3> QED
      BY <1>2, <3>1, <3>2, <3>3
  <2> QED
    BY <1>3, <2>1, <2>2, <2>3, <2>4, <2>5 DEF process
<1>4. ASSUME UNCHANGED <<file, snapshot, snapshotVersion, generation, state>>, TriggerRefreshFrom(job)
      PROVE  Revisions' /\ NeverOlder
  BY <1>0, <1>2, <1>4
<1>5. ASSUME UNCHANGED <<file, snapshot, snapshotVersion, generation, job>>,
             state = "stopped" => state' = "stopped"
      PROVE  Revisions' /\ NeverOlder
  BY <1>1, <1>5
<1>6. ASSUME NEW p \in phase2, runPhase2Analysis(p) PROVE Revisions' /\ NeverOlder
  BY <1>5, <1>6 DEF runPhase2Analysis, Phase2Completes, SendPhase2, fileVars, refreshVars, resultVars
<1>7. CASE processLoop
  BY <1>4, <1>5, <1>7 DEF processLoop, LoopReceives, LoopTriggers, LoopExits, TriggerRefresh, fileVars,
     refreshVars, resultVars
<1>8. CASE StartBegins \/ StartWatches \/ StopCancels
  BY <1>5, <1>8 DEF StartBegins, StartWatches, StopCancels, fileVars, refreshVars, resultVars
<1>9. CASE StartRefreshes
  BY <1>4, <1>9 DEF StartRefreshes, TriggerRefresh, fileVars, resultVars
<1>10. CASE StopAfterFailedStart
  BY <1>5, <1>10 DEF StopAfterFailedStart, Stop, StopMarks, fileVars, resultVars
<1>11. CASE StopDropsSnapshot
  <2>1. /\ snapshot' = NoSnapshot
        /\ UNCHANGED <<file, generation, state, job>>
    BY <1>11 DEF StopDropsSnapshot, fileVars, refreshVars
  <2> QED
    BY <2>1 DEF Revisions, NeverOlder
<1>12. CASE RecoveryBegins
  <2>1. /\ UNCHANGED <<file, snapshot, snapshotVersion, job>>
        /\ generation' = generation + 1
    BY <1>12 DEF RecoveryBegins, fileVars, resultVars
  <2> QED
    BY <2>1, StaysSuperseded, RevisionsFrame
<1>13. CASE attemptRecovery
  BY <1>4, <1>5, <1>13 DEF attemptRecovery, RecoveryRestarts, RecoveryRefreshes, RecoveryReports,
     RecoveryStops, ForceRefresh, Stop, StopMarks, fileVars, refreshVars, resultVars
<1>14. CASE WriteFile
  <2>1. /\ file'.rev = file.rev + 1
        /\ UNCHANGED <<snapshot, snapshotVersion, generation, state, job>>
    BY <1>14 DEF WriteFile, refreshVars, resultVars
  <2>2. \A g \in Goroutine : job[g].pc = "loaded" => job[g].file.rev \in Nat
    BY <1>0, JobFields DEF FileState
  <2>3. \A g \in Goroutine : Builds(g)' <=> Builds(g)
    BY <2>1 DEF Builds, Superseded
  <2>4. Revisions'
    BY <1>0, <2>1, <2>2, <2>3 DEF Revisions
  <2> QED
    BY <1>0, <2>1, <2>4 DEF NeverOlder
<1>15. CASE WatcherPublishes
  BY <1>5, <1>15 DEF WatcherPublishes, refreshVars, resultVars
<1>16. CASE Client
  BY <1>4, <1>5, <1>16 DEF Client, RequestForce, RefreshForRecipe, ReceiveMessage, RequestStop,
     StopMarks, setRecipe, ForceRefresh, clientUnchanged, fileVars, refreshVars, resultVars
<1>17. CASE UNCHANGED vars
  BY <1>5, <1>17 DEF vars, fileVars, refreshVars, resultVars
<1> QED
  BY <1>3, <1>6, <1>7, <1>8, <1>9, <1>10, <1>11, <1>12, <1>13, <1>14, <1>15, <1>16, <1>17
     DEF Next, Worker, Environment

-----------------------------------------------------------------------------
(* No refresh is lost *)

\* Besides the goroutines: what else owes a refresh.
OwedElsewhere ==
    \/ startPc \in {"new", "begun", "live", "failed"}
    \/ recoveryPc # "watching"
    \/ recipeChanged
    \/ pending \/ changed \/ noticed

\* Each part of RefreshOwed is enough by itself.
LEMMA OwedCases ==
    /\ RefreshOwed <=> \/ OwedElsewhere
                       \/ state = "processing" /\ dirty
                       \/ \E g \in Goroutine : OwedBy(g)
    /\ OwedElsewhere' => RefreshOwed'
    /\ state' = "processing" /\ dirty' => RefreshOwed'
    /\ \A g \in Goroutine : OwedBy(g)' => RefreshOwed'
    /\ RefreshOwed' => Owing'
BY DEF RefreshOwed, OwedElsewhere, Owing, NoRefreshLost

\* A stopped worker owes nothing.
LEMMA StoppedOwesNothing == state' = "stopped" => Owing'
BY DEF Owing, NoRefreshLost

\* What TriggerRefresh does always leads to a build.
LEMMA TriggerOwes ==
    ASSUME TypeOK, Builders, UNCHANGED state,
           NEW jobs \in [Goroutine -> Job], TriggerRefreshFrom(jobs),
           \A g \in Goroutine : \/ jobs[g] = job[g]
                                \/ job[g].pc = "again" /\ jobs[g] = Free
    PROVE  Owing'
<1>1. CASE state = "stopped"
  BY <1>1, StoppedOwesNothing
<1>2. CASE state = "processing" /\ dirty' = TRUE
  BY <1>2, OwedCases DEF RefreshOwed
<1>3. CASE processScheduled /\ job' = jobs
  <2>1. PICK g \in Goroutine : job[g].pc = "spawned"
    BY <1>3 DEF Builders
  <2>2. OwedBy(g)'
    BY <1>3, <2>1 DEF OwedBy, Free
  <2> QED
    BY <2>2, OwedCases
<1>4. CASE Spawn(jobs)
  <2>1. PICK g \in Goroutine : job' = [jobs EXCEPT ![g] = Spawned]
    BY <1>4, SpawnTakesFreeSlot
  <2>2. OwedBy(g)'
    BY <2>1 DEF OwedBy, Spawned
  <2> QED
    BY <2>2, OwedCases
<1> QED
  BY <1>1, <1>2, <1>3, <1>4 DEF TriggerRefreshFrom

\* A step that leaves the file, the recipe, the result and the builds alone,
\* and settles nothing that was owed.
LEMMA OwingFrame ==
    ASSUME Owing,
           UNCHANGED <<file, snapshot, lastError, currentRecipe, state, dirty, generation>>,
           OwedElsewhere => OwedElsewhere',
           \A g \in Goroutine : OwedBy(g) => OwedBy(g)'
    PROVE  Owing'
<1>1. RefreshOwed => RefreshOwed'
  BY OwedCases
<1>2. UpToDate <=> UpToDate'
  BY DEF UpToDate
<1> QED
  BY <1>1, <1>2 DEF Owing, NoRefreshLost

\* A goroutine that goes on with the same file, recipe and generation owes the same.
LEMMA SameJobsOwe ==
    ASSUME UNCHANGED <<file, currentRecipe, state, generation>>,
           NEW g \in Goroutine, job'[g] = job[g]
    PROVE  OwedBy(g) => OwedBy(g)'
BY DEF OwedBy, Builds, Superseded

\* A commit settles what is owed: the build was of the present file and recipe,
\* or somebody has set dirty, or somebody else owes the refresh.
LEMMA CommitOwes ==
    ASSUME TypeOK, OneBuilder, Owing, NEW g \in Goroutine, CommitSnapshot(g)
    PROVE  Owing'
<1> DEFINE j == job[g]
           new == [ver |-> snapshotVersion + 1, rev |-> j.file.rev,
                   content |-> j.file.content, recipe |-> j.recipe]
<1>0. /\ job \in [Goroutine -> Job]
      /\ j.pc = "loaded"
      /\ UNCHANGED <<file, currentRecipe, dirty, generation>>
      /\ OwedElsewhere => OwedElsewhere'
  BY DEF CommitSnapshot, TypeOK, OwedElsewhere, fileVars, loopVars, lifeVars, clientVars
<1>1. \A todo : job' = [job EXCEPT ![g] = todo] =>
          job'[g] = todo /\ \A h \in Goroutine \ {g} : job'[h] = job[h]
  BY <1>0
<1>2. CASE Superseded(j) /\ job' = [job EXCEPT ![g] = Free] /\ UNCHANGED <<state, resultVars>>
  <2>1. ~OwedBy(g)
    BY <1>0, <1>2 DEF OwedBy, Builds
  <2>2. \A h \in Goroutine : OwedBy(h) => OwedBy(h)'
    BY <1>0, <1>1, <1>2, <2>1, SameJobsOwe
  <2> QED
    BY <1>0, <1>2, <2>2, OwingFrame DEF resultVars
<1>3. ASSUME ~Superseded(j), state' = "idle",
             \/ /\ j.file.content = Unreadable /\ lastError' = TRUE
                /\ job' = [job EXCEPT ![g] = Sending(LoadError(j.gen), dirty)]
             \/ /\ j.file.content # Unreadable /\ Unchanged(j) /\ lastError' = FALSE
                /\ job' = [job EXCEPT ![g] = IF dirty THEN Again ELSE Free]
                /\ UNCHANGED snapshot
             \/ /\ j.file.content # Unreadable /\ lastError' = FALSE
                /\ job' = [job EXCEPT ![g] = Sending(Ready(new, j.gen), dirty)]
                /\ snapshot' = new
      PROVE  Owing'
  <2>1. Builds(g) /\ state = "processing"
    BY <1>0, <1>3 DEF Builds, Superseded, OneBuilder
  <2>2. RefreshOwed
    BY <2>1 DEF Owing
  <2>3. \A h \in Goroutine \ {g} : job'[h] = job[h]
    BY <1>1, <1>3
  <2>4. CASE dirty
    <3>1. OwedBy(g)'
      BY <1>1, <1>3, <2>4 DEF OwedBy, Again, Sending
    <3> QED
      BY <3>1, OwedCases
  <2>5. CASE ~dirty /\ ~(j.file.content = file.content /\ j.recipe = currentRecipe)
    <3>1. ~OwedBy(g)
      BY <1>0, <2>5 DEF OwedBy
    <3>2. CASE OwedElsewhere
      BY <1>0, <3>2, OwedCases
    <3>3. CASE \E h \in Goroutine : OwedBy(h)
      <4>1. PICK h \in Goroutine \ {g} : OwedBy(h)
        BY <3>1, <3>3
      <4>2. ~Builds(h)
        BY <2>1, <4>1 DEF OneBuilder
      <4>3. OwedBy(h)'
        BY <2>3, <4>1, <4>2 DEF OwedBy
      <4> QED
        BY <4>3, OwedCases
    <3> QED
      BY <2>2, <2>5, <3>2, <3>3, OwedCases
  <2>6. CASE j.file.content = file.content /\ j.recipe = currentRecipe
    <3>1. UpToDate'
      <4>1. CASE file.content = Unreadable
        BY <1>0, <1>3, <2>6, <4>1 DEF UpToDate
      <4>2. CASE file.content # Unreadable /\ Unchanged(j) /\ UNCHANGED snapshot /\ lastError' = FALSE
        BY <1>0, <2>6, <4>2 DEF UpToDate, Unchanged
      <4>3. CASE file.content # Unreadable /\ snapshot' = new /\ lastError' = FALSE
        <5>1. new.ver # 0
          BY DEF TypeOK
        <5>2. new # NoSnapshot /\ new.content = file.content /\ new.recipe = currentRecipe
          BY <2>6, <5>1 DEF NoSnapshot
        <5> QED
          BY <1>0, <4>3, <5>2 DEF UpToDate
      <4> HIDE DEF new
      <4> QED
        BY <1>3, <2>6, <4>1, <4>2, <4>3
    <3> QED
      BY <1>3, <3>1 DEF Owing, NoRefreshLost
  <2> QED
    BY <2>4, <2>5, <2>6
<1> HIDE DEF new
<1> QED
  BY <1>2, <1>3 DEF CommitSnapshot, new

\* No step of any thread forgets a refresh that is owed.
LEMMA OwingStep ==
    ASSUME TypeOK, Life, StoppedStaysDown, Builders, OneBuilder, Owing, [Next]_vars
    PROVE  Owing'
<1>0. job \in [Goroutine -> Job]
  BY DEF TypeOK
<1>1. OwedElsewhere' => Owing'
  BY OwedCases
<1>2. ASSUME UNCHANGED <<file, snapshot, lastError, currentRecipe, state, dirty, generation, job>>,
             OwedElsewhere => OwedElsewhere'
      PROVE  Owing'
  BY <1>2, SameJobsOwe, OwingFrame
<1>3. ASSUME TriggerRefreshFrom(job), UNCHANGED state
      PROVE  Owing'
  BY <1>0, <1>3, TriggerOwes
<1>4. ASSUME NEW g \in Goroutine, process(g)
      PROVE  Owing'
  <2>1. CASE BeginProcess(g)
    <3>1. CASE state = "idle"
      <4>1. /\ job' = [job EXCEPT ![g] = Begun(forceNext, generation)]
            /\ state' = "processing" /\ generation' = generation
        BY <2>1, <3>1 DEF BeginProcess
      <4>2. job'[g].pc = "begun" /\ job'[g].gen = generation
        BY <1>0, <4>1 DEF Begun
      <4>3. OwedBy(g)'
        BY <4>1, <4>2 DEF OwedBy, Builds, Superseded
      <4> QED
        BY <4>3, OwedCases
    <3>2. CASE state = "processing"
      <4>1. state' = "processing" /\ dirty'
        BY <2>1, <3>2 DEF BeginProcess
      <4> QED
        BY <4>1, OwedCases
    <3>3. CASE state = "stopped"
      BY <2>1, <3>3, StoppedOwesNothing DEF BeginProcess
    <3> QED
      BY <3>1, <3>2, <3>3 DEF TypeOK
  <2>2. CASE LoadIssues(g)
    <3>1. /\ job[g].pc = "begun"
          /\ job' = [job EXCEPT ![g] = Loaded(@.force, @.gen, file, currentRecipe)]
          /\ UNCHANGED <<file, snapshot, lastError, currentRecipe, state, dirty, generation>>
          /\ OwedElsewhere => OwedElsewhere'
      BY <2>2 DEF LoadIssues, OwedElsewhere, fileVars, resultVars, loopVars, lifeVars, clientVars
    <3>2. job'[g] = Loaded(job[g].force, job[g].gen, file, currentRecipe)
      BY <1>0, <3>1
    <3>3. \A h \in Goroutine \ {g} : OwedBy(h) => OwedBy(h)'
      BY <1>0, <3>1, SameJobsOwe
    <3>4. OwedBy(g) => OwedBy(g)'
      BY <3>1, <3>2 DEF OwedBy, Builds, Superseded, Loaded
    <3> QED
      BY <3>1, <3>3, <3>4, OwingFrame
  <2>3. CASE CommitSnapshot(g)
    BY <2>3, CommitOwes
  <2>4. CASE SendResult(g)
    <3>1. /\ job[g].pc = "sending"
          /\ job' = [job EXCEPT ![g] = IF job[g].again THEN Again ELSE Free]
          /\ UNCHANGED <<file, snapshot, lastError, currentRecipe, state, dirty, generation>>
          /\ OwedElsewhere => OwedElsewhere'
      BY <2>4 DEF SendResult, OwedElsewhere, fileVars, resultVars, loopVars, lifeVars, clientVars
    <3>2. \A h \in Goroutine \ {g} : OwedBy(h) => OwedBy(h)'
      BY <1>0, <3>1, SameJobsOwe
    <3>3. OwedBy(g) => OwedBy(g)'
      BY <1>0, <3>1 DEF OwedBy, Builds, Again
    <3> QED
      BY <3>1, <3>2, <3>3, OwingFrame
  <2>5. CASE RunAgain(g)
    <3>1. [job EXCEPT ![g] = Free] \in [Goroutine -> Job]
      BY <1>0, JobValues
    <3>2. \A h \in Goroutine : \/ [job EXCEPT ![g] = Free][h] = job[h]
                               \/ job[h].pc = "again" /\ [job EXCEPT ![g] = Free][h] = Free
      BY <1>0, <2>5 DEF RunAgain
    <3>3. TriggerRefreshFrom([job EXCEPT ![g] = Free]) /\ UNCHANGED state
      BY <2>5 DEF RunAgain
    <3> QED
      BY <3>1, <3>2, <3>3, TriggerOwes
  <2> QED
    BY <1>4, <2>1, <2>2, <2>3, <2>4, <2>5 DEF process
<1>5. ASSUME NEW p \in phase2, runPhase2Analysis(p) PROVE Owing'
  BY <1>2, <1>5 DEF runPhase2Analysis, Phase2Completes, SendPhase2, OwedElsewhere, fileVars, refreshVars,
                    resultVars, loopVars, lifeVars, clientVars
<1>6. CASE processLoop
  <2>1. CASE LoopReceives
    BY <1>1, <2>1 DEF LoopReceives, OwedElsewhere
  <2>2. CASE LoopTriggers
    BY <1>3, <2>2 DEF LoopTriggers, TriggerRefresh
  <2>3. CASE LoopExits
    BY <1>2, <2>3 DEF LoopExits, OwedElsewhere, fileVars, refreshVars, resultVars, lifeVars, clientVars
  <2> QED
    BY <1>6, <2>1, <2>2, <2>3 DEF processLoop
<1>7. CASE StartBegins \/ StartWatches
  BY <1>1, <1>7 DEF StartBegins, StartWatches, OwedElsewhere
<1>8. CASE StartRefreshes
  BY <1>3, <1>8 DEF StartRefreshes, TriggerRefresh
<1>9. CASE StopAfterFailedStart \/ StopCancels \/ StopDropsSnapshot \/ RecoveryStops \/ RequestStop
  <2>1. state' = "stopped"
    BY <1>9 DEF StopAfterFailedStart, StopCancels, StopDropsSnapshot, RecoveryStops, RequestStop,
                Stop, StopMarks, Life
  <2> QED
    BY <2>1, StoppedOwesNothing
<1>10. CASE RecoveryBegins
  BY <1>1, <1>10 DEF RecoveryBegins, OwedElsewhere
<1>11. CASE RecoveryRestarts
  <2>1. CASE state = "stopped" \/ ctxDone
    <3>1. state' = "stopped"
      BY <1>11, <2>1 DEF RecoveryRestarts, Life, ctxDone
    <3> QED
      BY <3>1, StoppedOwesNothing
  <2>2. CASE recoveryPc' # "watching"
    BY <1>1, <2>2 DEF OwedElsewhere
  <2> QED
    BY <1>11, <2>1, <2>2 DEF RecoveryRestarts
<1>12. CASE RecoveryRefreshes
  BY <1>3, <1>12 DEF RecoveryRefreshes, ForceRefresh
<1>13. CASE RecoveryReports
  BY <1>1, <1>13 DEF RecoveryReports, OwedElsewhere
<1>14. CASE WriteFile
  <2>1. CASE watching
    BY <1>1, <1>14, <2>1 DEF WriteFile, OwedElsewhere
  <2>2. CASE ~watching /\ state # "stopped"
    <3>1. startPc \in {"new", "begun", "failed"} \/ recoveryPc # "watching"
      BY <2>2 DEF Life, TypeOK
    <3> QED
      BY <1>1, <1>14, <3>1 DEF WriteFile, OwedElsewhere, lifeVars
  <2>3. CASE state = "stopped"
    BY <1>14, <2>3, StoppedOwesNothing DEF WriteFile
  <2> QED
    BY <2>1, <2>2, <2>3
<1>15. CASE WatcherPublishes
  BY <1>1, <1>15 DEF WatcherPublishes, OwedElsewhere
<1>16. CASE RequestForce \/ RefreshForRecipe
  BY <1>3, <1>16 DEF RequestForce, RefreshForRecipe, ForceRefresh
<1>17. CASE ReceiveMessage
  BY <1>2, <1>17 DEF ReceiveMessage, OwedElsewhere, clientUnchanged, fileVars, refreshVars, resultVars,
                     loopVars, clientVars
<1>18. ASSUME NEW r \in Recipe, setRecipe(r) PROVE Owing'
  BY <1>1, <1>18 DEF setRecipe, OwedElsewhere
<1>19. CASE UNCHANGED vars
  BY <1>2, <1>19 DEF vars, OwedElsewhere, fileVars, refreshVars, resultVars, loopVars, lifeVars, clientVars
<1> QED
  BY <1>4, <1>5, <1>6, <1>7, <1>8, <1>9, <1>10, <1>11, <1>12, <1>13, <1>14, <1>15, <1>16, <1>17,
     <1>18, <1>19 DEF Next, Worker, Environment, Client, attemptRecovery

-----------------------------------------------------------------------------
(* The inductive invariant, and what follows from it *)

\* The parts of the invariant hold together, from the start and after each step.
THEOREM WorkerInvariant == Spec => []IInv
<1>1. Init => Life /\ StoppedStaysDown /\ Builders /\ OneBuilder /\ Revisions /\ Owing
  <2> SUFFICES ASSUME Init
               PROVE  Life /\ StoppedStaysDown /\ Builders /\ OneBuilder /\ Revisions /\ Owing
    OBVIOUS
  <2>1. Life /\ StoppedStaysDown /\ Builders /\ OneBuilder /\ Revisions
    BY DEF Init, Life, StoppedStaysDown, ctxDone, Builders, OneBuilder, Builds, Free, Revisions
  <2>2. Owing
    BY DEF Init, Owing, NoRefreshLost, RefreshOwed
  <2> QED
    BY <2>1, <2>2
<1>2. TypeOK /\ Life /\ StoppedStaysDown /\ Builders /\ OneBuilder /\ Revisions /\ Owing
      /\ [Next]_vars
      => Life' /\ StoppedStaysDown' /\ Builders' /\ OneBuilder' /\ Revisions' /\ Owing'
  BY LifeStep, BuildersStep, RevisionsStep, OwingStep
<1> QED
  BY <1>1, <1>2, WorkerTypeCorrect, PTL DEF Spec, IInv

\* A change of the file or of the recipe, whenever it comes, is in the
\* worker's snapshot or some step is left that will lead to a build of it.
THEOREM NoRefreshIsLost == Spec => []NoRefreshLost
<1>1. IInv => NoRefreshLost
  BY DEF IInv, Owing
<1> QED
  BY <1>1, WorkerInvariant, PTL

\* Neither the file revision nor the version of the snapshot goes back, however
\* late a build comes that its generation has left behind.
THEOREM SnapshotNeverGoesBack == Spec => SnapshotNeverOlder
<1>1. IInv /\ [Next]_vars => [NeverOlder]_vars
  BY RevisionsStep DEF IInv
<1> QED
  BY <1>1, WorkerInvariant, PTL DEF Spec, SnapshotNeverOlder, NeverOlder

=============================================================================
