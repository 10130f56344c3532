-------------------------------- MODULE Watcher --------------------------------
(***************************************************************************)
(* pkg/watcher: the file watcher of watcher.go on top of the Debouncer of  *)
(* debouncer.go, with fsnotify events or with polling.                     *)
(*                                                                         *)
(* Each Start begins a run with a goroutine of its own.  The goroutine of  *)
(* a stopped run may still be anywhere in its code while the next run      *)
(* goes on, and a timer callback that has fired cannot be stopped any      *)
(* more.  A step is one critical section of w.mu or of the debouncer's mu, *)
(* or one look at the file; Start holds w.mu between its two steps.        *)
(* Every write is assumed to change mtime or size, and fsnotify to deliver *)
(* every event.                                                            *)
(***************************************************************************)
EXTENDS Naturals, Sequences

CONSTANTS
    Modes,      \* the modes Start may choose: a subset of {"fsnotify", "poll"}
    MaxWrites,  \* bound: writes to the file
    MaxRemoves, \* bound: removals of the file
    MaxStarts   \* bound: runs

ASSUME WatcherConstants ==
    /\ Modes \subseteq {"fsnotify", "poll"}
    /\ MaxWrites \in Nat /\ MaxRemoves \in Nat /\ MaxStarts \in Nat

VARIABLES
    rev, exists, removes, \* the file: its revision stands for mtime and size
    started, starting,    \* starting: Start holds mu, between stat and launch
    runGeneration,
    lastStat,             \* lastExists, lastMtime, lastSize: a revision, or Missing
    run,                  \* the goroutine of each run
    seq, timers,          \* the debouncer, and its callbacks not yet finished
    changeCh              \* 0, or the run whose change is in the channel

fileVars == <<rev, exists, removes>>
watcherVars == <<fileVars, started, starting, runGeneration, lastStat, run, seq, timers, changeCh>>

Generation == 1..MaxStarts

\* os.Stat finds no file.
Missing == 0

fingerprint == IF exists THEN rev ELSE Missing

\* The goroutine of a run: its mode, the fsnotify events queued for it, where it
\* is, and the stat it holds.
NotBegun == [pc |-> "none", mode |-> "poll", events |-> <<>>, info |-> Missing]

WatcherInit ==
    /\ rev = 1 /\ exists \in BOOLEAN /\ removes = 0
    /\ started = FALSE /\ starting = FALSE
    /\ runGeneration = 0
    /\ lastStat = Missing
    /\ run = [g \in Generation |-> NotBegun]
    /\ seq = 0 /\ timers = {}
    /\ changeCh = 0

runIsActiveLocked(g) == started /\ runGeneration = g

RunGoto(g, pc) == run' = [run EXCEPT ![g].pc = pc]

-----------------------------------------------------------------------------
(* The file *)

\* fsnotify queues an event for every run whose watch is open.
Notify(event) ==
    run' = [g \in Generation |->
              IF runIsActiveLocked(g) /\ run[g].mode = "fsnotify"
              THEN [run[g] EXCEPT !.events = Append(@, event)] ELSE run[g]]

WriteFile ==
    /\ rev <= MaxWrites
    /\ rev' = rev + 1 /\ exists' = TRUE
    /\ Notify("write")
    /\ UNCHANGED <<removes, started, starting, runGeneration, lastStat, seq, timers, changeCh>>

RemoveFile ==
    /\ exists /\ removes < MaxRemoves
    /\ exists' = FALSE /\ removes' = removes + 1
    /\ Notify("remove")
    /\ UNCHANGED <<rev, started, starting, runGeneration, lastStat, seq, timers, changeCh>>

-----------------------------------------------------------------------------
(* Debouncer *)

\* Timer.Stop reaches only a timer that has not fired.
StopTimer == {t \in timers : t.pc # "armed"}

\* Fault: the callback is given the sequence number of the call before.
TriggerBeforeIncrement(g) ==
    /\ seq' = seq + 1
    /\ timers' = StopTimer \cup {[seq |-> seq, gen |-> g, pc |-> "armed"]}

Trigger(g) ==
    /\ seq' = seq + 1
    /\ timers' = StopTimer \cup {[seq |-> seq + 1, gen |-> g, pc |-> "armed"]}

Cancel == seq' = seq + 1 /\ timers' = StopTimer

TimerGoto(t, pc) == timers' = (timers \ {t}) \cup {[t EXCEPT !.pc = pc]}
TimerEnds(t) == timers' = timers \ {t}

-----------------------------------------------------------------------------
(* Start and Stop *)

\* Under mu: stat the file, then begin the run.
StartStats(mode) ==
    /\ ~started /\ ~starting /\ runGeneration < MaxStarts
    /\ starting' = TRUE
    /\ lastStat' = fingerprint
    /\ run' = [run EXCEPT ![runGeneration + 1].mode = mode]
    /\ UNCHANGED <<fileVars, started, runGeneration, seq, timers, changeCh>>

\* A change between the stat and the new watch is nobody's in fsnotify mode.
StartLaunches ==
    /\ starting
    /\ starting' = FALSE
    /\ runGeneration' = runGeneration + 1
    /\ started' = TRUE
    /\ RunGoto(runGeneration + 1, "select")
    /\ UNCHANGED <<fileVars, lastStat, seq, timers, changeCh>>

Stop ==
    /\ started /\ ~starting
    /\ started' = FALSE
    /\ Cancel
    /\ changeCh' = 0
    /\ UNCHANGED <<fileVars, starting, runGeneration, lastStat, run>>

-----------------------------------------------------------------------------
(* watchFsnotify and watchPolling *)

NothingElse == UNCHANGED <<fileVars, started, starting, runGeneration, changeCh>>

\* select: an event, even of a run that has been stopped, or ctx.Done().
ReceiveEvent(g) ==
    /\ run[g].pc = "select" /\ run[g].events # <<>>
    /\ run' = [run EXCEPT ![g].events = Tail(@),
                          ![g].pc = IF Head(run[g].events) = "remove" THEN "missing" ELSE "stat"]
    /\ NothingElse /\ UNCHANGED <<lastStat, seq, timers>>

Tick(g) ==
    /\ run[g].pc = "select" /\ run[g].mode = "poll"
    /\ RunGoto(g, "stat")
    /\ NothingElse /\ UNCHANGED <<lastStat, seq, timers>>

RunEnds(g) ==
    /\ run[g].pc = "select" /\ ~runIsActiveLocked(g)
    /\ RunGoto(g, "done")
    /\ NothingElse /\ UNCHANGED <<lastStat, seq, timers>>

\* os.Stat: a file that has gone is reported by the poller only; with fsnotify
\* the removal has an event of its own.
StatFile(g) ==
    /\ run[g].pc = "stat"
    /\ \/ /\ exists
          /\ run' = [run EXCEPT ![g].pc = "record", ![g].info = rev]
       \/ /\ ~exists
          /\ RunGoto(g, IF run[g].mode = "poll" THEN "missing" ELSE "select")
    /\ NothingElse /\ UNCHANGED <<lastStat, seq, timers>>

recordMissing(g) ==
    /\ run[g].pc = "missing" /\ ~starting
    /\ lastStat' = IF runIsActiveLocked(g) THEN Missing ELSE lastStat
    /\ RunGoto(g, "select")
    /\ NothingElse /\ UNCHANGED <<seq, timers>>

recordStat(g) ==
    /\ run[g].pc = "record" /\ ~starting
    /\ \/ /\ runIsActiveLocked(g)
          /\ lastStat' = run[g].info
          /\ RunGoto(g, IF run[g].mode = "fsnotify" \/ run[g].info # lastStat
                     THEN "schedule" ELSE "select")
       \/ /\ ~runIsActiveLocked(g)
          /\ RunGoto(g, "select")
          /\ UNCHANGED lastStat
    /\ NothingElse /\ UNCHANGED <<seq, timers>>

\* Fault: "a producer delayed after recordStat could resume in a later run and
\* cancel that run's legitimate debounce timer" (watcher.go:484).
scheduleChangeUnfenced(g) ==
    /\ run[g].pc = "schedule" /\ ~starting
    /\ Trigger(g)
    /\ RunGoto(g, "select")
    /\ NothingElse /\ UNCHANGED lastStat

scheduleChange(g) ==
    /\ run[g].pc = "schedule" /\ ~starting
    /\ IF runIsActiveLocked(g) THEN Trigger(g) ELSE UNCHANGED <<seq, timers>>
    /\ RunGoto(g, "select")
    /\ NothingElse /\ UNCHANGED lastStat

watch(g) ==
    \/ ReceiveEvent(g) \/ Tick(g) \/ RunEnds(g) \/ StatFile(g)
    \/ recordMissing(g) \/ recordStat(g) \/ scheduleChange(g)

-----------------------------------------------------------------------------
(* A timer's callback: the sequence check, then notifyChange *)

OnlyTimers == UNCHANGED <<fileVars, started, starting, runGeneration, lastStat, run, seq>>

TimerFires(t) ==
    /\ t.pc = "armed"
    /\ TimerGoto(t, "fired")
    /\ OnlyTimers /\ UNCHANGED changeCh

CheckSeq(t) ==
    /\ t.pc = "fired"
    /\ IF t.seq = seq THEN TimerGoto(t, "admitted") ELSE TimerEnds(t)
    /\ OnlyTimers /\ UNCHANGED changeCh

\* The first look at the generation, before the user's onChange.
Admit(t) ==
    /\ t.pc = "admitted" /\ ~starting
    /\ IF runIsActiveLocked(t.gen) THEN TimerGoto(t, "called") ELSE TimerEnds(t)
    /\ OnlyTimers /\ UNCHANGED changeCh

\* The second look and the send, which a full channel absorbs.
Publish(t) ==
    /\ t.pc = "called" /\ ~starting
    /\ changeCh' = IF runIsActiveLocked(t.gen) /\ changeCh = 0 THEN t.gen ELSE changeCh
    /\ TimerEnds(t)
    /\ OnlyTimers

callback(t) == TimerFires(t) \/ CheckSeq(t) \/ Admit(t) \/ Publish(t)

-----------------------------------------------------------------------------
\* The consumer of Changed().
ReceiveChange ==
    /\ changeCh # 0
    /\ changeCh' = 0
    /\ OnlyTimers /\ UNCHANGED timers

WatcherNext ==
    \/ WriteFile \/ RemoveFile
    \/ \E mode \in Modes : StartStats(mode)
    \/ StartLaunches \/ Stop
    \/ \E g \in Generation : watch(g)
    \/ \E t \in timers : callback(t)
    \/ ReceiveChange

WatcherSpec == WatcherInit /\ [][WatcherNext]_watcherVars

\* The goroutines and the timers' callbacks run, and the ticker ticks.  Nobody
\* has to write the file, start or stop the watcher, or read the channel.
WatcherFairSpec ==
    /\ WatcherSpec
    /\ WF_watcherVars(StartLaunches)
    /\ \A g \in Generation : WF_watcherVars(watch(g))
    /\ WF_watcherVars(\E t \in timers : callback(t))

-----------------------------------------------------------------------------
(* Properties *)

Pc == {"none", "select", "missing", "stat", "record", "schedule", "done"}

RunState == [pc : Pc, mode : {"fsnotify", "poll"},
             events : Seq({"write", "remove"}), info : Nat]

TimerState == [seq : Nat, gen : Generation, pc : {"armed", "fired", "admitted", "called"}]

WatcherTypeOK ==
    /\ rev \in Nat /\ exists \in BOOLEAN /\ removes \in Nat
    /\ started \in BOOLEAN /\ starting \in BOOLEAN
    /\ runGeneration \in 0..MaxStarts
    /\ lastStat \in Nat
    /\ run \in [Generation -> RunState]
    /\ seq \in Nat
    /\ timers \subseteq TimerState
    /\ changeCh \in 0..MaxStarts

\* What the goroutine of the current run is about to turn into a signal.
AboutToSchedule(g) ==
    \/ run[g].pc = "schedule"
    \/ /\ run[g].mode = "fsnotify"
       /\ \/ run[g].pc \in {"stat", "record"}
          \/ \E i \in DOMAIN run[g].events : run[g].events[i] = "write"
    \/ /\ run[g].mode = "poll"
       /\ \/ exists /\ rev # lastStat
          \/ run[g].pc = "record" /\ run[g].info # lastStat

\* A callback that will publish: the last one scheduled, or one past that check.
AboutToPublish(t) ==
    /\ t.gen = runGeneration
    /\ t.pc \in {"armed", "fired"} => t.seq = seq

\* The baseline of a poller is its stat; an fsnotify watch begins with the launch.
Watching == started \/ (starting /\ run[runGeneration + 1].mode = "poll")

Pending ==
    \/ /\ started
       /\ \/ AboutToSchedule(runGeneration)
          \/ \E t \in timers : AboutToPublish(t)
    \/ starting /\ Watching /\ AboutToSchedule(runGeneration + 1)

\* The watcher keeps its contract: however Stop, Start, late goroutines and late
\* timers interleave, no change of the current run is dropped before it is
\* signalled, and Stop leaves nothing behind.
FW == INSTANCE FileWatch WITH missing <- ~exists, watching <- Watching,
                              pending <- Pending, changed <- changeCh # 0
Contract == FW!Spec

\* A change is signalled once writing pauses for the debounce interval, unless
\* the watcher is stopped or the file is away.
ChangeIsSignalled == Pending ~> (changeCh # 0 \/ ~started \/ ~exists)

=============================================================================
