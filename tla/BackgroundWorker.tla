---------------------------- MODULE BackgroundWorker ----------------------------
(***************************************************************************)
(* The BackgroundWorker of pkg/ui/background_worker.go: it watches the     *)
(* issues file, builds snapshots off the UI thread and publishes them in a *)
(* one-slot mailbox.                                                       *)
(*                                                                         *)
(* A step is one critical section of w.mu (or of sendMu), or one read of   *)
(* the file.  The goroutines that run process() are slots of Goroutine;    *)
(* the watcher, the process loop, the watchdog's recovery, Start and Stop  *)
(* are one thread each, with a program counter of its own.  The client     *)
(* actions at the end are what the UI may call; a module that composes the *)
(* worker with the UI replaces them by the UI's handlers.                  *)
(***************************************************************************)
EXTENDS Naturals, FiniteSets

CONSTANTS
    Goroutine,      \* slots for concurrent process() goroutines: a bound
    Content,        \* what the issues file may contain
    Unreadable,     \* the content that loadIssuesForReload rejects
    Recipe,         \* recipes; one is active
    MaxChanges,     \* bound: writes to the issues file
    MaxRequests,    \* bound: refreshes asked for by the UI
    MaxTimeouts,    \* bound: builds or heartbeats that time out
    maxRecoveries,  \* WorkerConfig: recoveries before giving up
    WatcherFaults,  \* whether watcher.Start may fail
    Resignals,      \* whether the watcher may signal one change more than once
    Phase2Pending   \* possible values of ~snapshot.IsPhase2Ready()

ASSUME ConstantsAssumption ==
    /\ Unreadable \in Content
    /\ MaxChanges \in Nat /\ MaxRequests \in Nat /\ MaxTimeouts \in Nat
    /\ maxRecoveries \in Nat
    /\ WatcherFaults \in BOOLEAN /\ Resignals \in BOOLEAN
    /\ Phase2Pending \subseteq BOOLEAN

VARIABLES
    \* the file and its watcher (external to the worker)
    file,             \* [rev, content]: rev counts the writes
    watching,         \* the watcher runs
    pending,          \* it has seen a change it has not published (debounce)
    changed,          \* its Changed() channel, one slot
    \* fields of the worker, protected by w.mu
    state, dirty, processScheduled, forceNext, generation, recoveryCount,
    currentRecipe, snapshot, snapshotVersion, lastError,
    \* the mailbox msgCh
    mailbox,
    \* goroutines
    job,              \* process(): what each slot is doing
    phase2,           \* runPhase2Analysis: waiting for, or holding, a completion
    loop, noticed,    \* processLoop, and an event it has received
    startPc, stopPc, recoveryPc,
    recipeChanged,    \* setRecipe has returned true, ForceRefresh comes next
    requests          \* refreshes the client has asked for (only a bound)

fileVars    == <<file, watching, pending, changed>>
refreshVars == <<dirty, processScheduled, forceNext, job>>
resultVars  == <<snapshot, snapshotVersion, lastError>>
lifeVars    == <<startPc, stopPc, recoveryPc>>
clientVars  == <<recipeChanged, requests>>
loopVars    == <<loop, noticed>>
vars == <<fileVars, state, refreshVars, generation, recoveryCount, currentRecipe,
          resultVars, mailbox, phase2, loopVars, lifeVars, clientVars>>

-----------------------------------------------------------------------------
(* Data *)

\* A snapshot: its version, the file revision and content it was built from,
\* and the recipe it was built with.  The version also identifies it.
Snapshot == [ver : Nat, rev : Nat, content : Content, recipe : Recipe]
NoSnapshot == [ver |-> 0]

Message == [kind : {"ready", "error", "terminal", "phase2"}, gen : Nat,
            snap : Snapshot \cup {NoSnapshot}]
NoMessage == [kind |-> "none"]

Ready(s, gen)   == [kind |-> "ready", gen |-> gen, snap |-> s]
Phase2(s, gen)  == [kind |-> "phase2", gen |-> gen, snap |-> s]
LoadError(gen)  == [kind |-> "error", gen |-> gen, snap |-> NoSnapshot]
Terminal(gen)   == [kind |-> "terminal", gen |-> gen, snap |-> NoSnapshot]

\* What a process() goroutine is doing, and its locals: forceNext, gen and,
\* once loaded, the file and the recipe of the build; then what it must send
\* and whether it must run again.
Free    == [pc |-> "free"]
Spawned == [pc |-> "spawned"]
Begun(force, gen) == [pc |-> "begun", force |-> force, gen |-> gen]
Loaded(force, gen, f, r) ==
    [pc |-> "loaded", force |-> force, gen |-> gen, file |-> f, recipe |-> r]
Sending(msg, again) == [pc |-> "sending", msg |-> msg, again |-> again]
Again   == [pc |-> "again"]

FileState == [rev : Nat, content : Content]

Job == {Free, Spawned, Again}
       \cup [pc : {"begun"}, force : BOOLEAN, gen : Nat]
       \cup [pc : {"loaded"}, force : BOOLEAN, gen : Nat, file : FileState,
             recipe : Recipe]
       \cup [pc : {"sending"}, msg : Message, again : BOOLEAN]

Init ==
    /\ file \in {[rev |-> 0, content |-> c] : c \in Content}
    /\ watching = FALSE /\ pending = FALSE /\ changed = FALSE
    /\ state = "idle"
    /\ dirty = FALSE /\ processScheduled = FALSE /\ forceNext = FALSE
    /\ generation = 1 /\ recoveryCount = 0
    /\ currentRecipe \in Recipe
    /\ snapshot = NoSnapshot /\ snapshotVersion = 0 /\ lastError = FALSE
    /\ mailbox = NoMessage
    /\ job = [g \in Goroutine |-> Free]
    /\ phase2 = {}
    /\ loop = "none" /\ noticed = FALSE
    /\ startPc = "new" /\ stopPc = "running" /\ recoveryPc = "watching"
    /\ recipeChanged = FALSE /\ requests = 0

-----------------------------------------------------------------------------
(* The mailbox: send(), atomic under sendMu *)

\* ctx.Done() is closed.
ctxDone == stopPc \in {"cancelled", "stopped"}

workerMessageIsCurrent(msg) == msg.gen = generation

workerMessagePriority(msg) ==
    CASE msg.kind = "terminal" -> 3
      [] msg.kind = "ready"    -> 2
      [] msg.kind = "error"    -> 1
      [] msg.kind = "phase2"   -> 0

\* Fault: the latest message always wins the slot.
AfterSendLatestWins(msg) == IF workerMessageIsCurrent(msg) THEN {msg} ELSE {mailbox}

\* The mailbox that send(msg) may leave: stale messages are refused; a full
\* mailbox keeps the queued message only if it is current and outranks msg;
\* after cancellation select takes either of its ready cases.
AfterSend(msg) ==
    IF ~workerMessageIsCurrent(msg) THEN {mailbox}
    ELSE IF mailbox = NoMessage
    THEN {msg} \cup (IF ctxDone THEN {NoMessage} ELSE {})
    ELSE IF \/ ctxDone
            \/ /\ workerMessageIsCurrent(mailbox)
               /\ workerMessagePriority(mailbox) > workerMessagePriority(msg)
    THEN {mailbox}
    ELSE {msg}

-----------------------------------------------------------------------------
(* Asking for a refresh *)

\* A goroutine is started in the first free slot; with none free the caller
\* waits, which is the bound that Goroutine puts on the model.
Spawn(jobs) ==
    LET g == CHOOSE h \in Goroutine : jobs[h] = Free
    IN  /\ \E h \in Goroutine : jobs[h] = Free
        /\ job' = [jobs EXCEPT ![g] = Spawned]

\* Fault: a refresh asked for while one is scheduled or running is forgotten.
TriggerWithoutDirty(jobs) ==
    \/ /\ state # "idle" \/ processScheduled
       /\ job' = jobs
       /\ UNCHANGED <<dirty, processScheduled>>
    \/ /\ state = "idle" /\ ~processScheduled
       /\ processScheduled' = TRUE
       /\ Spawn(jobs)
       /\ UNCHANGED dirty

\* TriggerRefresh, called when the goroutines are doing jobs.
TriggerRefreshFrom(jobs) ==
    \/ /\ state = "stopped"
       /\ job' = jobs
       /\ UNCHANGED <<dirty, processScheduled>>
    \/ /\ state # "stopped"
       /\ state = "processing" \/ processScheduled
       /\ dirty' = TRUE
       /\ job' = jobs
       /\ UNCHANGED processScheduled
    \/ /\ state = "idle" /\ ~processScheduled
       /\ processScheduled' = TRUE
       /\ Spawn(jobs)
       /\ UNCHANGED dirty

TriggerRefresh == TriggerRefreshFrom(job) /\ UNCHANGED forceNext

ForceRefresh ==
    /\ TriggerRefreshFrom(job)
    /\ forceNext' = (state # "stopped" \/ forceNext)

-----------------------------------------------------------------------------
(* process() *)

\* Fault: process() starts a build without looking whether one is running.
BeginWithoutClaim(g) ==
    /\ job[g].pc = "spawned"
    /\ state # "stopped"
    /\ state' = "processing"
    /\ processScheduled' = FALSE /\ dirty' = FALSE /\ forceNext' = FALSE
    /\ job' = [job EXCEPT ![g] = Begun(forceNext, generation)]
    /\ UNCHANGED <<fileVars, generation, recoveryCount, currentRecipe, resultVars,
                   mailbox, phase2, loopVars, lifeVars, clientVars>>

\* The first critical section: claim the worker, or leave a note for the owner.
BeginProcess(g) ==
    /\ job[g].pc = "spawned"
    /\ processScheduled' = FALSE
    /\ \/ /\ state = "idle"
          /\ state' = "processing"
          /\ dirty' = FALSE
          /\ job' = [job EXCEPT ![g] = Begun(forceNext, generation)]
          /\ forceNext' = FALSE
       \/ /\ state # "idle"
          /\ dirty' = (dirty \/ state = "processing")
          /\ job' = [job EXCEPT ![g] = Free]
          /\ UNCHANGED <<state, forceNext>>
    /\ UNCHANGED <<fileVars, generation, recoveryCount, currentRecipe, resultVars,
                   mailbox, phase2, loopVars, lifeVars, clientVars>>

\* buildSnapshotResult captures the recipe and reads the file.  Only SetRecipe
\* could tell the two apart, and it might as well run after both.
LoadIssues(g) ==
    /\ job[g].pc = "begun"
    /\ job' = [job EXCEPT ![g] = Loaded(@.force, @.gen, file, currentRecipe)]
    /\ UNCHANGED <<fileVars, state, dirty, processScheduled, forceNext, generation,
                   recoveryCount, currentRecipe, resultVars, mailbox, phase2,
                   loopVars, lifeVars, clientVars>>

\* The dedup test of buildSnapshotResult.  lastHash is the content of the
\* snapshot, since both are assigned together.
Unchanged(j) ==
    /\ ~j.force
    /\ snapshot # NoSnapshot
    /\ snapshot.content = j.file.content
    /\ snapshot.recipe = j.recipe

\* Fault: no generation fence.
SupersededOnlyByStop(j) == state = "stopped"

\* The result of the build belongs to an earlier generation or to a stopped worker.
Superseded(j) == j.gen # generation \/ state = "stopped"

\* The second critical section: fence, swap, back to idle.  The dedup test reads
\* only what this section's owner may change, so it is made here.
CommitSnapshot(g) ==
    /\ job[g].pc = "loaded"
    /\ LET j    == job[g]
           new  == [ver |-> snapshotVersion + 1, rev |-> j.file.rev,
                    content |-> j.file.content, recipe |-> j.recipe]
           Goto(todo) == job' = [job EXCEPT ![g] = todo]
       IN  \/ /\ Superseded(j)
              /\ Goto(Free)
              /\ UNCHANGED <<state, resultVars>>
           \/ /\ ~Superseded(j)
              /\ state' = "idle"
              /\ \/ /\ j.file.content = Unreadable
                    /\ lastError' = TRUE
                    /\ Goto(Sending(LoadError(j.gen), dirty))
                    /\ UNCHANGED <<snapshot, snapshotVersion>>
                 \/ /\ j.file.content # Unreadable /\ Unchanged(j)
                    /\ lastError' = FALSE
                    /\ Goto(IF dirty THEN Again ELSE Free)
                    /\ UNCHANGED <<snapshot, snapshotVersion>>
                 \/ /\ j.file.content # Unreadable /\ ~Unchanged(j)
                    /\ lastError' = FALSE
                    /\ snapshot' = new
                    /\ snapshotVersion' = new.ver
                    /\ Goto(Sending(Ready(new, j.gen), dirty))
    /\ UNCHANGED <<fileVars, dirty, processScheduled, forceNext, generation,
                   recoveryCount, currentRecipe, mailbox, phase2, loopVars,
                   lifeVars, clientVars>>

\* Publish, then start the Phase 2 waiter if the graph metrics are not ready.
SendResult(g) ==
    /\ job[g].pc = "sending"
    /\ LET j == job[g]
       IN  /\ mailbox' \in AfterSend(j.msg)
           /\ \E waits \in Phase2Pending :
                phase2' = IF waits /\ j.msg.kind = "ready"
                          THEN phase2 \cup {[pc |-> "waiting", msg |-> Phase2(j.msg.snap, j.msg.gen)]}
                          ELSE phase2
           /\ job' = [job EXCEPT ![g] = IF j.again THEN Again ELSE Free]
    /\ UNCHANGED <<fileVars, state, dirty, processScheduled, forceNext, generation,
                   recoveryCount, currentRecipe, resultVars, loopVars, lifeVars,
                   clientVars>>

\* Fault: the dirty flag is read and then ignored.
NeverRunAgain(g) ==
    /\ job[g].pc = "again"
    /\ job' = [job EXCEPT ![g] = Free]
    /\ UNCHANGED <<fileVars, state, dirty, processScheduled, forceNext, generation,
                   recoveryCount, currentRecipe, resultVars, mailbox, phase2,
                   loopVars, lifeVars, clientVars>>

\* "If dirty, process again immediately".
RunAgain(g) ==
    /\ job[g].pc = "again"
    /\ TriggerRefreshFrom([job EXCEPT ![g] = Free])
    /\ UNCHANGED <<fileVars, state, forceNext, generation, recoveryCount,
                   currentRecipe, resultVars, mailbox, phase2, loopVars, lifeVars,
                   clientVars>>

process(g) == BeginProcess(g) \/ LoadIssues(g) \/ CommitSnapshot(g)
              \/ SendResult(g) \/ RunAgain(g)

-----------------------------------------------------------------------------
(* runPhase2Analysis *)

Phase2Completes(p) ==
    /\ p.pc = "waiting"
    /\ LET current == /\ state # "stopped"
                      /\ snapshot = p.msg.snap
                      /\ generation = p.msg.gen
       IN phase2' = (phase2 \ {p}) \cup (IF current THEN {[p EXCEPT !.pc = "done"]} ELSE {})
    /\ UNCHANGED <<fileVars, state, refreshVars, generation, recoveryCount,
                   currentRecipe, resultVars, mailbox, loopVars, lifeVars, clientVars>>

SendPhase2(p) ==
    /\ p.pc = "done"
    /\ mailbox' \in AfterSend(p.msg)
    /\ phase2' = phase2 \ {p}
    /\ UNCHANGED <<fileVars, state, refreshVars, generation, recoveryCount,
                   currentRecipe, resultVars, loopVars, lifeVars, clientVars>>

runPhase2Analysis(p) == Phase2Completes(p) \/ SendPhase2(p)

-----------------------------------------------------------------------------
(* processLoop *)

LoopReceives ==
    /\ loop # "none" /\ ~noticed /\ changed
    /\ changed' = FALSE /\ noticed' = TRUE
    /\ UNCHANGED <<file, watching, pending, state, refreshVars, generation,
                   recoveryCount, currentRecipe, resultVars, mailbox, phase2, loop,
                   lifeVars, clientVars>>

LoopTriggers ==
    /\ noticed
    /\ noticed' = FALSE
    /\ TriggerRefresh
    /\ UNCHANGED <<fileVars, state, generation, recoveryCount, currentRecipe,
                   resultVars, mailbox, phase2, loop, lifeVars, clientVars>>

LoopExits ==
    /\ loop = "cancelled" /\ ~noticed
    /\ loop' = "none"
    /\ UNCHANGED <<fileVars, state, refreshVars, generation, recoveryCount,
                   currentRecipe, resultVars, mailbox, phase2, noticed, lifeVars,
                   clientVars>>

processLoop == LoopReceives \/ LoopTriggers \/ LoopExits

-----------------------------------------------------------------------------
(* Start and StartBackgroundWorkerCmd *)

\* Watcher.Start drops what it had not published and takes a new baseline.
WatcherStarts ==
    watching' = TRUE /\ pending' = FALSE /\ changed' = FALSE

WatcherStops ==
    watching' = FALSE /\ pending' = FALSE /\ changed' = FALSE

StartBegins ==
    /\ startPc = "new"
    /\ startPc' = IF state = "stopped" THEN "failed" ELSE "begun"
    /\ UNCHANGED <<fileVars, state, refreshVars, generation, recoveryCount,
                   currentRecipe, resultVars, mailbox, phase2, loopVars, stopPc,
                   recoveryPc, clientVars>>

\* Fault: Start does not look again whether Stop has come in between.
StartWatchesBlindly ==
    /\ startPc = "begun"
    /\ WatcherStarts
    /\ loop' = "run"
    /\ startPc' = "live"
    /\ UNCHANGED <<file, state, refreshVars, generation, recoveryCount,
                   currentRecipe, resultVars, mailbox, phase2, noticed, stopPc,
                   recoveryPc, clientVars>>

\* The external watcher transition and the launch of the loop, under w.mu.
StartWatches ==
    /\ startPc = "begun"
    /\ \/ /\ state # "stopped" /\ ~ctxDone
          /\ WatcherStarts
          /\ loop' = "run"
          /\ startPc' = "live"
       \/ /\ state = "stopped" \/ ctxDone \/ WatcherFaults
          /\ startPc' = "failed"
          /\ UNCHANGED <<watching, pending, changed, loop>>
    /\ UNCHANGED <<file, state, refreshVars, generation, recoveryCount,
                   currentRecipe, resultVars, mailbox, phase2, noticed, stopPc,
                   recoveryPc, clientVars>>

\* The refresh that StartBackgroundWorkerCmd asks for once Start has succeeded.
StartRefreshes ==
    /\ startPc = "live"
    /\ startPc' = "started"
    /\ TriggerRefresh
    /\ UNCHANGED <<fileVars, state, generation, recoveryCount, currentRecipe,
                   resultVars, mailbox, phase2, loopVars, stopPc, recoveryPc, clientVars>>

started == startPc \in {"begun", "live", "started"}

-----------------------------------------------------------------------------
(* Stop *)

\* Its first critical section; a second call finds the worker stopped.
StopMarks ==
    /\ state # "stopped"
    /\ state' = "stopped"
    /\ processScheduled' = FALSE
    /\ stopPc' = "marked"

Stop == StopMarks \/ (state = "stopped" /\ UNCHANGED <<state, processScheduled, stopPc>>)

\* Fault: the process loop is not cancelled.
StopKeepsLoop ==
    /\ stopPc = "marked"
    /\ stopPc' = "cancelled"
    /\ WatcherStops
    /\ UNCHANGED <<file, state, refreshVars, generation, recoveryCount,
                   currentRecipe, resultVars, mailbox, phase2, loopVars, startPc,
                   recoveryPc, clientVars>>

\* Outside w.mu: cancel the contexts and stop the watcher.
StopCancels ==
    /\ stopPc = "marked"
    /\ stopPc' = "cancelled"
    /\ WatcherStops
    /\ loop' = IF loop = "none" THEN "none" ELSE "cancelled"
    /\ UNCHANGED <<file, state, refreshVars, generation, recoveryCount,
                   currentRecipe, resultVars, mailbox, phase2, noticed, startPc,
                   recoveryPc, clientVars>>

\* The loop is done or 500 ms have passed.
StopDropsSnapshot ==
    /\ stopPc = "cancelled"
    /\ stopPc' = "stopped"
    /\ snapshot' = NoSnapshot
    /\ UNCHANGED <<fileVars, state, refreshVars, generation, recoveryCount,
                   currentRecipe, snapshotVersion, lastError, mailbox, phase2,
                   loopVars, startPc, recoveryPc, clientVars>>

\* StartBackgroundWorkerCmd stops a worker whose Start failed.
StopAfterFailedStart ==
    /\ startPc = "failed"
    /\ startPc' = "over"
    /\ Stop
    /\ UNCHANGED <<fileVars, dirty, forceNext, job, generation, recoveryCount,
                   currentRecipe, resultVars, mailbox, phase2, loopVars, recoveryPc,
                   clientVars>>

-----------------------------------------------------------------------------
(* attemptRecovery, in the watchdog goroutine *)

\* The watchdog has seen a build or a heartbeat time out.  Timeouts are not
\* modelled: they may strike whenever the worker is started.
RecoveryBegins ==
    /\ recoveryPc = "watching" /\ recoveryCount < MaxTimeouts
    /\ startPc \in {"live", "started"} /\ state # "stopped" /\ ~ctxDone
    /\ recoveryCount' = recoveryCount + 1
    /\ generation' = generation + 1
    /\ state' = "idle"
    /\ dirty' = FALSE /\ processScheduled' = FALSE
    /\ \/ /\ maxRecoveries > 0 /\ recoveryCount' > maxRecoveries
          /\ recoveryPc' = "giveup"
          /\ UNCHANGED loop
       \/ /\ ~(maxRecoveries > 0 /\ recoveryCount' > maxRecoveries)
          /\ recoveryPc' = "restart"
          /\ loop' = IF loop = "none" THEN "none" ELSE "cancelled"
    /\ UNCHANGED <<fileVars, forceNext, job, currentRecipe, resultVars, mailbox,
                   phase2, noticed, startPc, stopPc, clientVars>>

\* After at most 2 s of waiting for the loop: restart watcher and loop under w.mu.
RecoveryRestarts ==
    /\ recoveryPc = "restart"
    /\ \/ /\ state = "stopped" \/ ctxDone
          /\ recoveryPc' = "watching"
          /\ UNCHANGED <<watching, pending, changed, loop>>
       \/ /\ state # "stopped" /\ ~ctxDone
          /\ WatcherStarts
          /\ loop' = "run"
          /\ recoveryPc' = "refresh"
       \/ /\ state # "stopped" /\ ~ctxDone /\ WatcherFaults
          /\ WatcherStops
          /\ recoveryPc' = "giveup"
          /\ UNCHANGED loop
    /\ UNCHANGED <<file, state, refreshVars, generation, recoveryCount,
                   currentRecipe, resultVars, mailbox, phase2, noticed, startPc,
                   stopPc, clientVars>>

RecoveryRefreshes ==
    /\ recoveryPc = "refresh"
    /\ recoveryPc' = "watching"
    /\ ForceRefresh
    /\ UNCHANGED <<fileVars, state, generation, recoveryCount, currentRecipe,
                   resultVars, mailbox, phase2, loopVars, startPc, stopPc, clientVars>>

\* Fault: giving up is not reported.
GivesUpSilently ==
    /\ recoveryPc = "giveup"
    /\ recoveryPc' = "stop"
    /\ UNCHANGED <<fileVars, state, refreshVars, generation, recoveryCount,
                   currentRecipe, resultVars, mailbox, phase2, loopVars, startPc,
                   stopPc, clientVars>>

\* The terminal error is sent first, while the context is still alive.
RecoveryReports ==
    /\ recoveryPc = "giveup"
    /\ recoveryPc' = "stop"
    /\ mailbox' \in AfterSend(Terminal(generation))
    /\ UNCHANGED <<fileVars, state, refreshVars, generation, recoveryCount,
                   currentRecipe, resultVars, phase2, loopVars, startPc, stopPc,
                   clientVars>>

RecoveryStops ==
    /\ recoveryPc = "stop"
    /\ recoveryPc' = "watching"
    /\ Stop
    /\ UNCHANGED <<fileVars, dirty, forceNext, job, generation, recoveryCount,
                   currentRecipe, resultVars, mailbox, phase2, loopVars, startPc,
                   clientVars>>

attemptRecovery == RecoveryRestarts \/ RecoveryRefreshes \/ RecoveryReports \/ RecoveryStops

-----------------------------------------------------------------------------
(* The issues file and its watcher, as the worker sees them *)

\* Somebody writes the file; a running watcher sees it.
WriteFile ==
    /\ file.rev < MaxChanges
    /\ \E c \in Content \ {file.content} :
         file' = [rev |-> file.rev + 1, content |-> c]
    /\ pending' = (pending \/ watching)
    /\ UNCHANGED <<watching, changed, state, refreshVars, generation, recoveryCount,
                   currentRecipe, resultVars, mailbox, phase2, loopVars, lifeVars,
                   clientVars>>

\* The debounce delay has passed.  More of the same change may be behind, which
\* will be signalled again: FileWatch, which module Watcher implements.
WatcherPublishes ==
    /\ watching /\ pending
    /\ pending' \in {FALSE, Resignals} /\ changed' = TRUE
    /\ UNCHANGED <<file, watching, state, refreshVars, generation, recoveryCount,
                   currentRecipe, resultVars, mailbox, phase2, loopVars, lifeVars,
                   clientVars>>

-----------------------------------------------------------------------------
(* What the worker does on its own *)

Worker ==
    \/ \E g \in Goroutine : process(g)
    \/ \E p \in phase2 : runPhase2Analysis(p)
    \/ processLoop
    \/ StartBegins \/ StartWatches \/ StartRefreshes \/ StopAfterFailedStart
    \/ StopCancels \/ StopDropsSnapshot
    \/ attemptRecovery
    \/ WatcherPublishes

\* What happens to it.
Environment == WriteFile \/ RecoveryBegins

-----------------------------------------------------------------------------
(* What a client may call *)

clientUnchanged == <<fileVars, generation, recoveryCount, resultVars, phase2,
                     loopVars, startPc, recoveryPc>>

RequestForce ==
    /\ ~recipeChanged /\ requests < MaxRequests
    /\ requests' = requests + 1
    /\ ForceRefresh
    /\ UNCHANGED <<clientUnchanged, state, currentRecipe, mailbox, stopPc, recipeChanged>>

\* SetRecipe is two critical sections: setRecipe, then ForceRefresh if it changed.
setRecipe(r) ==
    /\ ~recipeChanged /\ requests < MaxRequests
    /\ requests' = requests + 1
    /\ state # "stopped" /\ r # currentRecipe
    /\ currentRecipe' = r
    /\ recipeChanged' = TRUE
    /\ UNCHANGED <<clientUnchanged, state, refreshVars, mailbox, stopPc>>

RefreshForRecipe ==
    /\ recipeChanged
    /\ recipeChanged' = FALSE
    /\ ForceRefresh
    /\ UNCHANGED <<clientUnchanged, state, currentRecipe, mailbox, stopPc, requests>>

ReceiveMessage ==
    /\ mailbox # NoMessage
    /\ mailbox' = NoMessage
    /\ UNCHANGED <<clientUnchanged, state, refreshVars, currentRecipe, stopPc, clientVars>>

RequestStop ==
    /\ ~recipeChanged
    /\ StopMarks
    /\ UNCHANGED <<clientUnchanged, dirty, forceNext, job, currentRecipe, mailbox,
                   clientVars>>

Client ==
    \/ RequestForce \/ RefreshForRecipe \/ ReceiveMessage \/ RequestStop
    \/ \E r \in Recipe : setRecipe(r)

Next == Worker \/ Environment \/ Client

Spec == Init /\ [][Next]_vars

\* Goroutines that can run do run, the watcher signals every change at last, and a
\* client that has called SetRecipe returns from it.
Fairness ==
    /\ \A g \in Goroutine : WF_vars(process(g))
    /\ WF_vars(processLoop) /\ WF_vars(attemptRecovery)
    /\ WF_vars(WatcherPublishes /\ ~pending')
    /\ WF_vars(StartBegins \/ StartWatches \/ StartRefreshes \/ StopAfterFailedStart)
    /\ WF_vars(StopCancels \/ StopDropsSnapshot)
    /\ WF_vars(RefreshForRecipe)

FairSpec == Spec /\ Fairness

-----------------------------------------------------------------------------
(* Properties *)

TypeOK ==
    /\ file \in FileState
    /\ watching \in BOOLEAN /\ pending \in BOOLEAN /\ changed \in BOOLEAN
    /\ state \in {"idle", "processing", "stopped"}
    /\ dirty \in BOOLEAN /\ processScheduled \in BOOLEAN /\ forceNext \in BOOLEAN
    /\ generation \in Nat /\ recoveryCount \in Nat
    /\ currentRecipe \in Recipe
    /\ snapshot \in Snapshot \cup {NoSnapshot}
    /\ snapshotVersion \in Nat
    /\ lastError \in BOOLEAN
    /\ mailbox \in Message \cup {NoMessage}
    /\ job \in [Goroutine -> Job]
    /\ phase2 \subseteq [pc : {"waiting", "done"}, msg : Message]
    /\ loop \in {"none", "run", "cancelled"} /\ noticed \in BOOLEAN
    /\ startPc \in {"new", "begun", "live", "started", "failed", "over"}
    /\ stopPc \in {"running", "marked", "cancelled", "stopped"}
    /\ recoveryPc \in {"watching", "restart", "refresh", "giveup", "stop"}
    /\ recipeChanged \in BOOLEAN /\ requests \in Nat

\* A goroutine between the two critical sections of process(), whose result
\* will be accepted.
Builds(g) == job[g].pc \in {"begun", "loaded"} /\ ~Superseded(job[g])

\* At most one goroutine builds for the current generation, and the state says
\* "processing" exactly while one does: the hung build of an earlier generation
\* neither blocks the next build nor lets two run side by side.
OneBuilder ==
    /\ \A g, h \in Goroutine : Builds(g) /\ Builds(h) => g = h
    /\ state # "stopped" => (state = "processing" <=> \E g \in Goroutine : Builds(g))

\* What the worker holds is what a fresh build would give.
UpToDate ==
    IF file.content = Unreadable
    THEN lastError
    ELSE /\ ~lastError /\ snapshot # NoSnapshot
         /\ snapshot.content = file.content
         /\ snapshot.recipe = currentRecipe

\* What goroutine g is doing will lead to a build of the present file and recipe.
OwedBy(g) ==
    \/ job[g].pc \in {"spawned", "again"}
    \/ job[g].pc = "sending" /\ job[g].again
    \/ /\ Builds(g)
       /\ job[g].pc = "loaded" => /\ job[g].file.content = file.content
                                  /\ job[g].recipe = currentRecipe

\* Something is left that will lead to such a build.
RefreshOwed ==
    \/ startPc \in {"new", "begun", "live", "failed"}
    \/ recoveryPc # "watching"
    \/ recipeChanged
    \/ pending \/ changed \/ noticed
    \/ state = "processing" /\ dirty
    \/ \E g \in Goroutine : OwedBy(g)

\* No refresh is lost: a change of the file or of the recipe that comes while a
\* build is scheduled, running, being fenced off by recovery or being published
\* is either in the snapshot or still owed.
NoRefreshLost == state # "stopped" => UpToDate \/ RefreshOwed

\* A worker that has been stopped stays down: a Start or a recovery that Stop
\* overtook does not bring watcher or loop back, and no snapshot reappears.
StoppedStaysDown ==
    /\ ctxDone => ~watching /\ loop # "run"
    /\ stopPc = "stopped" => snapshot = NoSnapshot

\* The file revision behind the worker's snapshot never goes back, although a
\* build that outlived its generation may finish after its replacement.
SnapshotNeverOlder ==
    [][snapshot # NoSnapshot /\ snapshot' # NoSnapshot
       => snapshot'.rev >= snapshot.rev /\ snapshot'.ver >= snapshot.ver]_vars

\* Once the file is left alone, the worker ends up with its content, or stopped;
\* it does not rebuild for ever either.
CatchesUp == <>[](state = "stopped" \/ (UpToDate /\ \A g \in Goroutine : job[g] = Free))

\* Stop is always completed, and every goroutine but the caller's ends.
StopCompletes ==
    state = "stopped" ~> /\ stopPc = "stopped" /\ loop = "none" /\ ~noticed
                         /\ \A g \in Goroutine : job[g] = Free

=============================================================================
