------------------------------- MODULE FilesProofs -------------------------------
(***************************************************************************)
(* What holds of the files that several bv processes share, for any number *)
(* of processes, crashes and faults: AGENTS.md, the instance lock, the     *)
(* watcher, the updater and the history caches.  The watcher keeps its     *)
(* contract for any number of runs, writes and removals: every step of its *)
(* goroutines, of its debouncer and of Start and Stop is a step of         *)
(* FileWatch or changes nothing a client can see.                          *)
(***************************************************************************)
EXTENDS MCFiles, SequenceTheorems, TLAPS

-----------------------------------------------------------------------------
(* The watcher *)

\* Only fsnotify queues events, nothing is known of a revision to come, and a run
\* that has not begun is as Start will find it.
RunInv ==
    \A g \in Generation :
       /\ run[g].events # <<>> => run[g].mode = "fsnotify"
       /\ run[g].info <= rev
       /\ g > runGeneration => run[g].pc = "none" /\ run[g].events = <<>>

StartInv == ~(started /\ starting) /\ (starting => runGeneration < MaxStarts)

FileInv == rev # 0 /\ lastStat <= rev

TimerInv == \A t \in timers : t.gen <= runGeneration

\* A poller that is about to record that the file is away has not seen what has
\* been written since.
MissingInv ==
    started /\ exists /\ run[runGeneration].mode = "poll" /\ run[runGeneration].pc = "missing" =>
        rev # lastStat

WatcherInv ==
    WatcherTypeOK /\ RunInv /\ StartInv /\ FileInv /\ TimerInv /\ MissingInv /\ (started => runGeneration # 0)
-----------------------------------------------------------------------------
\* A goroutine that only moves on.
LEMMA Moves ==
    ASSUME run \in [Generation -> RunState], NEW g \in Generation, NEW place \in Pc, RunGoto(g, place)
    PROVE  /\ run' \in [Generation -> RunState]
           /\ run'[g].pc = place /\ run'[g].mode = run[g].mode
           /\ run'[g].events = run[g].events /\ run'[g].info = run[g].info
           /\ \A h \in Generation \ {g} : run'[h] = run[h]
BY DEF RunGoto, RunState, Pc

\* An event reaches the queue of the current run, if that run listens.
LEMMA Queues ==
    ASSUME run \in [Generation -> RunState], NEW event \in {"write", "remove"}, Notify(event)
    PROVE  /\ run' \in [Generation -> RunState]
           /\ \A g \in Generation :
                 /\ run'[g].pc = run[g].pc /\ run'[g].mode = run[g].mode
                 /\ run'[g].info = run[g].info
                 /\ run'[g].events = IF runIsActiveLocked(g) /\ run[g].mode = "fsnotify"
                                     THEN Append(run[g].events, event) ELSE run[g].events
<1>1. ASSUME NEW g \in Generation
      PROVE  /\ run'[g] \in RunState
             /\ run'[g].pc = run[g].pc /\ run'[g].mode = run[g].mode
             /\ run'[g].info = run[g].info
             /\ run'[g].events = IF runIsActiveLocked(g) /\ run[g].mode = "fsnotify"
                                 THEN Append(run[g].events, event) ELSE run[g].events
  <2>1. run[g] \in RunState /\ Append(run[g].events, event) \in Seq({"write", "remove"})
    BY DEF RunState
  <2>2. CASE runIsActiveLocked(g) /\ run[g].mode = "fsnotify"
    <3>1. run'[g] = [run[g] EXCEPT !.events = Append(@, event)]
      BY <2>2 DEF Notify
    <3> QED
      BY <2>1, <2>2, <3>1 DEF RunState
  <2>3. CASE ~(runIsActiveLocked(g) /\ run[g].mode = "fsnotify")
    BY <2>1, <2>3 DEF Notify
  <2> QED
    BY <2>2, <2>3
<1> QED
  BY <1>1 DEF Notify

\* A timer whose callback goes on is the same timer in another place.
LEMMA TimerMoves ==
    ASSUME timers \subseteq TimerState, NEW t \in timers,
           NEW place \in {"armed", "fired", "admitted", "called"}, TimerGoto(t, place)
    PROVE  /\ timers' \subseteq TimerState
           /\ \E u \in timers' : /\ u.seq = t.seq /\ u.gen = t.gen /\ u.pc = place
                                 /\ timers' = (timers \ {t}) \cup {u}
<1> DEFINE u == [t EXCEPT !.pc = place]
<1>1. u \in TimerState /\ u.seq = t.seq /\ u.gen = t.gen /\ u.pc = place
  BY DEF TimerState
<1>2. timers' = (timers \ {t}) \cup {u}
  BY DEF TimerGoto
<1> HIDE DEF u
<1> QED
  BY <1>1, <1>2

\* Trigger moves seq on and leaves exactly one armed timer with it, the new one.
LEMMA Arms ==
    ASSUME timers \subseteq TimerState, seq \in Nat, NEW g \in Generation, Trigger(g)
    PROVE  /\ seq' = seq + 1 /\ timers' \subseteq TimerState
           /\ \E u \in timers' : /\ u.seq = seq' /\ u.gen = g /\ u.pc = "armed"
                                 /\ timers' = StopTimer \cup {u}
<1> DEFINE u == [seq |-> seq + 1, gen |-> g, pc |-> "armed"]
<1>1. u \in TimerState /\ u.seq = seq + 1 /\ u.gen = g /\ u.pc = "armed"
  BY DEF TimerState
<1>2. seq' = seq + 1 /\ timers' = StopTimer \cup {u}
  BY DEF Trigger
<1> HIDE DEF u
<1> QED
  BY <1>1, <1>2 DEF StopTimer

-----------------------------------------------------------------------------
(* The invariant *)

\* Before Start there is no run and no timer.
LEMMA WatcherInitInv == ASSUME WatcherInit PROVE WatcherInv
<1> USE WatcherConstants DEF WatcherInit, Missing
<1>1. NotBegun \in RunState /\ NotBegun.pc = "none" /\ NotBegun.events = <<>> /\ NotBegun.info = 0
  BY DEF NotBegun, RunState, Pc
<1>2. WatcherTypeOK
  <2>1. run \in [Generation -> RunState]
    BY <1>1
  <2>2. runGeneration \in 0 .. MaxStarts /\ changeCh \in 0 .. MaxStarts
    OBVIOUS
  <2> QED
    BY <2>1, <2>2 DEF WatcherTypeOK
<1>3. RunInv
  BY <1>1 DEF RunInv
<1> QED
  BY <1>2, <1>3 DEF WatcherInv, StartInv, FileInv, TimerInv, MissingInv

\* Others writing or removing the file touch nothing of the watcher.
LEMMA FileChangesInv ==
    ASSUME WatcherInv, WriteFile \/ RemoveFile
    PROVE  WatcherInv'
<1> USE DEF WatcherInv, WatcherTypeOK
<1>1. PICK event \in {"write", "remove"} : Notify(event)
  BY DEF WriteFile, RemoveFile
<1>2. /\ UNCHANGED <<started, starting, runGeneration, lastStat, seq, timers, changeCh>>
      /\ run \in [Generation -> RunState] /\ rev' \in Nat /\ removes' \in Nat /\ exists' \in BOOLEAN
      /\ \/ rev' = rev + 1
         \/ rev' = rev /\ exists' = FALSE
  <2>1. CASE WriteFile
    BY <2>1 DEF WriteFile
  <2>2. CASE RemoveFile
    <3>1. removes' \in Nat
      BY <2>2 DEF RemoveFile
    <3>2. /\ UNCHANGED <<started, starting, runGeneration, lastStat, seq, timers, changeCh>>
          /\ rev' = rev /\ exists' = FALSE
      BY <2>2 DEF RemoveFile
    <3> QED
      BY <3>1, <3>2
  <2> QED
    BY <2>1, <2>2
<1>3. WatcherTypeOK'
  BY <1>1, <1>2, Queues DEF WatcherTypeOK
<1>4. RunInv'
  BY <1>1, <1>2, Queues DEF RunInv, RunState, runIsActiveLocked
<1>5. MissingInv'
  BY <1>1, <1>2, Queues DEF MissingInv, FileInv, Generation
<1> QED
  BY <1>2, <1>3, <1>4, <1>5 DEF StartInv, FileInv, TimerInv

\* Start takes the baseline of the file as it is now, before any goroutine runs.
LEMMA StartStatsInv ==
    ASSUME WatcherInv, NEW mode \in Modes, StartStats(mode)
    PROVE  WatcherInv'
<1> USE WatcherConstants DEF WatcherInv, WatcherTypeOK
<1>1. /\ ~started /\ ~starting /\ runGeneration < MaxStarts /\ starting' = TRUE
      /\ lastStat' \in Nat /\ lastStat' <= rev
      /\ UNCHANGED <<fileVars, started, runGeneration, seq, timers, changeCh>>
  BY DEF StartStats, fingerprint, Missing
<1> DEFINE g == runGeneration + 1
<1>2. g \in Generation
  BY <1>1 DEF Generation
<1>3. /\ run' \in [Generation -> RunState]
      /\ run'[g].pc = run[g].pc /\ run'[g].events = run[g].events /\ run'[g].info = run[g].info
      /\ \A h \in Generation \ {g} : run'[h] = run[h]
  <2>1. run[g] \in RunState /\ mode \in {"fsnotify", "poll"}
    BY <1>2
  <2>2. run' = [run EXCEPT ![g].mode = mode]
    BY DEF StartStats
  <2> QED
    BY <1>2, <2>1, <2>2 DEF RunState
<1>4. run[g].events = <<>>
  BY <1>2 DEF RunInv, Generation
<1> HIDE DEF g
<1>5. WatcherTypeOK'
  BY <1>1, <1>3 DEF fileVars, WatcherTypeOK
<1>6. RunInv'
  BY <1>1, <1>3, <1>4 DEF RunInv, fileVars
<1> QED
  BY <1>1, <1>5, <1>6 DEF StartInv, FileInv, TimerInv, MissingInv, fileVars

\* Start launches the goroutine of a generation no goroutine has had.
LEMMA StartLaunchesInv ==
    ASSUME WatcherInv, StartLaunches
    PROVE  WatcherInv'
<1> USE WatcherConstants DEF WatcherInv, WatcherTypeOK
<1>1. /\ starting /\ ~started /\ runGeneration < MaxStarts /\ starting' = FALSE
      /\ started' = TRUE /\ runGeneration' = runGeneration + 1
      /\ UNCHANGED <<fileVars, lastStat, seq, timers, changeCh>>
  BY DEF StartLaunches, StartInv
<1> DEFINE g == runGeneration + 1
<1>2. g \in Generation /\ RunGoto(g, "select") /\ "select" \in Pc
  BY <1>1 DEF Generation, StartLaunches, Pc
<1>3. /\ run' \in [Generation -> RunState]
      /\ run'[g].pc = "select" /\ run'[g].mode = run[g].mode
      /\ run'[g].events = run[g].events /\ run'[g].info = run[g].info
      /\ \A h \in Generation \ {g} : run'[h] = run[h]
  BY <1>2, Moves
<1>4. WatcherTypeOK'
  <2>1. runGeneration' \in 0 .. MaxStarts
    BY <1>1
  <2> QED
    BY <1>1, <1>3, <2>1 DEF fileVars
<1>5. RunInv'
  BY <1>1, <1>2, <1>3 DEF RunInv, fileVars, Generation
<1>6. TimerInv'
  BY <1>1 DEF TimerInv, TimerState, Generation
<1> QED
  BY <1>1, <1>3, <1>4, <1>5, <1>6 DEF StartInv, FileInv, MissingInv, fileVars

\* Stop ends the generation, moves seq on and forgets the timer it could stop.
LEMMA StopInv ==
    ASSUME WatcherInv, Stop
    PROVE  WatcherInv'
<1> USE WatcherConstants DEF WatcherInv, WatcherTypeOK, Stop, Cancel, StopTimer, fileVars
<1>1. WatcherTypeOK'
  <2>1. seq' \in Nat
    OBVIOUS
  <2>2. timers' \subseteq TimerState /\ changeCh' \in 0 .. MaxStarts
    OBVIOUS
  <2> QED
    BY <2>1, <2>2
<1> QED
  BY <1>1 DEF StartInv, FileInv, TimerInv, MissingInv, RunInv, WatcherTypeOK

\* A goroutine that only goes on in its code keeps the invariant if the timers do.
LEMMA MoveInv ==
    ASSUME WatcherInv, NEW g \in Generation, NEW place \in Pc, RunGoto(g, place),
           run[g].pc # "none", place # "missing",
           UNCHANGED <<fileVars, started, starting, runGeneration, lastStat, changeCh>>,
           seq' \in Nat, timers' \subseteq TimerState, TimerInv'
    PROVE  WatcherInv'
<1> USE DEF WatcherInv, WatcherTypeOK, fileVars
<1>1. /\ run' \in [Generation -> RunState]
      /\ run'[g].pc = place /\ run'[g].mode = run[g].mode
      /\ run'[g].events = run[g].events /\ run'[g].info = run[g].info
      /\ \A h \in Generation \ {g} : run'[h] = run[h]
  BY Moves
<1>2. RunInv'
  BY <1>1 DEF RunInv
<1>3. MissingInv'
  BY <1>1 DEF MissingInv, Generation
<1> QED
  BY <1>1, <1>2, <1>3 DEF StartInv, FileInv

\* An event is received by the goroutine it was queued for.
LEMMA ReceiveEventInv ==
    ASSUME WatcherInv, NEW g \in Generation, ReceiveEvent(g)
    PROVE  WatcherInv'
<1> USE DEF WatcherInv, WatcherTypeOK
<1>0. UNCHANGED <<rev, exists, removes, started, starting, runGeneration, changeCh, lastStat, seq, timers>>
  BY DEF ReceiveEvent, NothingElse, fileVars
<1>1. /\ run' \in [Generation -> RunState]
      /\ run'[g].pc \in {"missing", "stat"} /\ run'[g].mode = run[g].mode
      /\ run'[g].events = Tail(run[g].events) /\ run'[g].info = run[g].info
      /\ \A h \in Generation \ {g} : run'[h] = run[h]
      /\ run[g].events # <<>> /\ run[g].pc # "none"
  <2>1. run[g] \in RunState /\ run[g].events # <<>> /\ run[g].pc = "select"
    BY DEF ReceiveEvent
  <2>2. Tail(run[g].events) \in Seq({"write", "remove"})
    BY <2>1 DEF RunState
  <2>3. PICK place \in {"missing", "stat"} : run' = [run EXCEPT ![g].events = Tail(@), ![g].pc = place]
    BY DEF ReceiveEvent
  <2>4. run'[g] = [run[g] EXCEPT !.events = Tail(@), !.pc = place]
    BY <2>3
  <2>5. \A h \in Generation \ {g} : run'[h] = run[h]
    BY <2>3
  <2>6. run'[g] \in RunState /\ run'[g].pc = place /\ run'[g].mode = run[g].mode
        /\ run'[g].events = Tail(run[g].events) /\ run'[g].info = run[g].info
    BY <2>1, <2>2, <2>4 DEF RunState, Pc
  <2>7. run' \in [Generation -> RunState]
    BY <2>3, <2>6
  <2> QED
    BY <2>1, <2>3, <2>5, <2>6, <2>7
<1>2. run[g].mode = "fsnotify"
  BY <1>1 DEF RunInv
<1>3. RunInv'
  BY <1>0, <1>1, <1>2 DEF RunInv
<1>4. MissingInv'
  BY <1>0, <1>1, <1>2 DEF MissingInv, Generation
<1> QED
  BY <1>0, <1>1, <1>3, <1>4 DEF StartInv, FileInv, TimerInv

\* A stat sees the file as it is at that moment.
LEMMA StatFileInv ==
    ASSUME WatcherInv, NEW g \in Generation, StatFile(g)
    PROVE  WatcherInv'
<1> USE DEF WatcherInv, WatcherTypeOK
<1>0. UNCHANGED <<rev, exists, removes, started, starting, runGeneration, changeCh, lastStat, seq, timers>>
  BY DEF StatFile, NothingElse, fileVars
<1>1. CASE exists /\ run' = [run EXCEPT ![g].pc = "record", ![g].info = rev]
  <2>1. run[g] \in RunState /\ run[g].pc = "stat"
    BY DEF StatFile
  <2>2. run'[g] = [run[g] EXCEPT !.pc = "record", !.info = rev]
    BY <1>1
  <2>3. /\ run'[g] \in RunState /\ run'[g].pc = "record" /\ run'[g].mode = run[g].mode
        /\ run'[g].events = run[g].events /\ run'[g].info = rev
    BY <2>1, <2>2 DEF RunState, Pc
  <2>4. \A h \in Generation \ {g} : run'[h] = run[h]
    BY <1>1
  <2>5. run' \in [Generation -> RunState]
    BY <1>1, <2>3
  <2>6. RunInv'
    BY <1>0, <2>1, <2>3, <2>4 DEF RunInv
  <2>7. MissingInv'
    BY <1>0, <2>1, <2>3, <2>4 DEF MissingInv, Generation
  <2> QED
    BY <1>0, <2>5, <2>6, <2>7 DEF StartInv, FileInv, TimerInv
<1>2. CASE ~exists /\ RunGoto(g, IF run[g].mode = "poll" THEN "missing" ELSE "select")
  <2>1. PICK place \in {"missing", "select"} : RunGoto(g, place)
    BY <1>2
  <2>2. /\ run' \in [Generation -> RunState]
        /\ run'[g].pc = place /\ run'[g].mode = run[g].mode
        /\ run'[g].events = run[g].events /\ run'[g].info = run[g].info
        /\ \A h \in Generation \ {g} : run'[h] = run[h]
    BY <2>1, Moves DEF Pc
  <2>3. run[g].pc = "stat"
    BY DEF StatFile
  <2>4. RunInv'
    BY <1>0, <2>2, <2>3 DEF RunInv
  <2>5. MissingInv'
    BY <1>0, <1>2 DEF MissingInv
  <2> QED
    BY <1>0, <2>2, <2>4, <2>5 DEF StartInv, FileInv, TimerInv
<1> QED
  BY <1>1, <1>2 DEF StatFile

\* recordMissing and recordStat write only for the current generation.
LEMMA RecordInv ==
    ASSUME WatcherInv, NEW g \in Generation, recordMissing(g) \/ recordStat(g)
    PROVE  WatcherInv'
<1> USE DEF WatcherInv, WatcherTypeOK
<1>0. /\ UNCHANGED <<rev, exists, removes, started, starting, runGeneration, changeCh, seq, timers>>
      /\ run[g].pc \in {"missing", "record"} /\ run[g] \in RunState
  BY DEF recordMissing, recordStat, NothingElse, fileVars
<1>1. PICK place \in {"select", "schedule"} : RunGoto(g, place)
  BY DEF recordMissing, recordStat
<1>2. /\ run' \in [Generation -> RunState]
      /\ run'[g].pc = place /\ run'[g].mode = run[g].mode
      /\ run'[g].events = run[g].events /\ run'[g].info = run[g].info
      /\ \A h \in Generation \ {g} : run'[h] = run[h]
  BY <1>1, Moves DEF Pc
<1>3. /\ lastStat' \in Nat /\ lastStat' <= rev
      /\ ~runIsActiveLocked(g) => lastStat' = lastStat
  BY <1>0 DEF recordMissing, recordStat, Missing, FileInv, RunInv, RunState
<1>4. RunInv'
  BY <1>0, <1>2 DEF RunInv
<1>5. MissingInv'
  BY <1>0, <1>2, <1>3 DEF MissingInv, Generation, runIsActiveLocked
<1> QED
  BY <1>0, <1>2, <1>3, <1>4, <1>5 DEF StartInv, FileInv, TimerInv

\* scheduleChange arms a timer only for the current generation.
LEMMA ScheduleInv ==
    ASSUME WatcherInv, NEW g \in Generation, scheduleChange(g)
    PROVE  WatcherInv'
<1> USE DEF WatcherInv, WatcherTypeOK
<1>1. seq' \in Nat /\ timers' \subseteq TimerState /\ TimerInv'
  <2>1. UNCHANGED runGeneration
    BY DEF scheduleChange, NothingElse
  <2>2. CASE runIsActiveLocked(g)
    <3>1. Trigger(g)
      BY <2>2 DEF scheduleChange
    <3> QED
      BY <2>1, <2>2, <3>1, Arms DEF TimerInv, StopTimer, runIsActiveLocked
  <2>3. CASE ~runIsActiveLocked(g)
    BY <2>1, <2>3 DEF scheduleChange, TimerInv
  <2> QED
    BY <2>2, <2>3
<1> QED
  BY <1>1, MoveInv DEF scheduleChange, NothingElse, Pc

\* Every step of a goroutine, of this run or of an earlier one, keeps the invariant.
LEMMA GoroutineInv ==
    ASSUME WatcherInv, NEW g \in Generation, watch(g)
    PROVE  WatcherInv'
<1>1. CASE Tick(g) \/ RunEnds(g)
  <2>1. /\ timers' \subseteq TimerState /\ seq' \in Nat /\ TimerInv'
    BY <1>1 DEF Tick, RunEnds, WatcherInv, WatcherTypeOK, TimerInv, NothingElse
  <2> QED
    BY <1>1, <2>1, MoveInv DEF Tick, RunEnds, NothingElse, Pc
<1> QED
  BY <1>1, ReceiveEventInv, StatFileInv, RecordInv, ScheduleInv DEF watch

\* Every step of a timer's callback does.
LEMMA CallbackInv ==
    ASSUME WatcherInv, NEW t \in timers, callback(t)
    PROVE  WatcherInv'
<1> USE DEF WatcherInv, WatcherTypeOK
<1>1. UNCHANGED <<rev, exists, removes, started, starting, runGeneration, lastStat, run, seq>>
  BY DEF callback, TimerFires, CheckSeq, Admit, Publish, OnlyTimers, fileVars
<1>2. \/ \E place \in {"armed", "fired", "admitted", "called"} : TimerGoto(t, place)
      \/ TimerEnds(t)
  BY DEF callback, TimerFires, CheckSeq, Admit, Publish
<1>3. timers' \subseteq TimerState /\ TimerInv'
  BY <1>1, <1>2, TimerMoves DEF TimerInv, TimerEnds
<1>4. changeCh' \in 0 .. MaxStarts
  BY DEF callback, TimerFires, CheckSeq, Admit, Publish, TimerState, Generation
<1> QED
  BY <1>1, <1>3, <1>4 DEF RunInv, StartInv, FileInv, MissingInv

\* So does every step of the watcher.
LEMMA WatcherStepInv ==
    ASSUME WatcherInv, [WatcherNext]_watcherVars
    PROVE  WatcherInv'
<1>1. CASE ReceiveChange
  BY <1>1, WatcherConstants DEF ReceiveChange, OnlyTimers, fileVars, WatcherInv, WatcherTypeOK, RunInv,
     StartInv, FileInv, TimerInv, MissingInv
<1>2. CASE UNCHANGED watcherVars
  BY <1>2 DEF watcherVars, fileVars, WatcherInv, WatcherTypeOK, RunInv, StartInv, FileInv, TimerInv,
     MissingInv
<1> QED
  BY <1>1, <1>2, FileChangesInv, StartStatsInv, StartLaunchesInv, StopInv, GoroutineInv, CallbackInv
     DEF WatcherNext

\* The invariant of the watcher; what the debouncer counts plays no part in it.
THEOREM WatcherInvariant == WatcherSpec => []WatcherInv
BY WatcherInitInv, WatcherStepInv, PTL DEF WatcherSpec

\* The state of the watcher stays well formed.
THEOREM WatcherTypeCorrect == WatcherSpec => []WatcherTypeOK
<1>1. WatcherInv => WatcherTypeOK
  BY DEF WatcherInv
<1> QED
  BY <1>1, WatcherInvariant, PTL
-----------------------------------------------------------------------------
(* The refinement.  Pending follows the change through the program: an event   *)
(* queued or a difference a poller will see, the goroutine on its way to       *)
(* schedule, a timer that is not superseded, a callback past its checks.       *)

\* A watcher not started is one of the abstract specification.
LEMMA InitRefines == ASSUME WatcherInit PROVE FW!Init
BY DEF WatcherInit, FW!Init, Watching, Pending

\* What the client sees is one of two values, and nothing more.
LEMMA Seen ==
    Watching \in BOOLEAN /\ Pending \in BOOLEAN /\ Watching' \in BOOLEAN /\ Pending' \in BOOLEAN
BY DEF Watching, Pending

\* A client sees no step that keeps what is in the channel and whether a change is pending.
LEMMA Unseen ==
    ASSUME UNCHANGED <<exists, changeCh>>, Watching' <=> Watching, Pending' <=> Pending
    PROVE  UNCHANGED FW!watchVars
BY Seen DEF FW!watchVars

\* While a run starts no goroutine of it is at work yet, and no timer is its own.
LEMMA NotYet ==
    ASSUME WatcherInv, runGeneration < MaxStarts
    PROVE  /\ runGeneration + 1 \in Generation
           /\ run[runGeneration + 1].pc = "none" /\ run[runGeneration + 1].events = <<>>
           /\ \A t \in timers : t.gen # runGeneration + 1
<1>1. runGeneration + 1 \in Generation
  BY WatcherConstants DEF WatcherInv, WatcherTypeOK, Generation
<1> QED
  BY <1>1 DEF WatcherInv, WatcherTypeOK, RunInv, TimerInv, TimerState, Generation

\* A write is a change pending, if a run is watching: the stat or the event that will
\* find it is still to come.
LEMMA WriteRefines == ASSUME WatcherInv, WriteFile PROVE FW!FileWritten
<1> USE DEF WatcherInv, WatcherTypeOK
<1>1. /\ exists' = TRUE /\ rev' = rev + 1 /\ Notify("write")
      /\ UNCHANGED <<started, starting, runGeneration, lastStat, timers, seq, changeCh>>
  BY DEF WriteFile
<1>2. \A g \in Generation :
         /\ run'[g].pc = run[g].pc /\ run'[g].mode = run[g].mode
         /\ run'[g].events = IF runIsActiveLocked(g) /\ run[g].mode = "fsnotify"
                             THEN Append(run[g].events, "write") ELSE run[g].events
  BY <1>1, Queues
<1>3. started => Pending'
  <2> SUFFICES ASSUME started PROVE AboutToSchedule(runGeneration)'
    BY <1>1 DEF Pending
  <2>1. runGeneration \in Generation /\ run[runGeneration] \in RunState
    BY DEF Generation
  <2>2. CASE run[runGeneration].mode = "fsnotify"
    <3>1. run'[runGeneration].events = Append(run[runGeneration].events, "write")
      BY <1>2, <2>1, <2>2 DEF runIsActiveLocked
    <3>2. run[runGeneration].events \in Seq({"write", "remove"})
      BY <2>1 DEF RunState
    <3>3. \E i \in DOMAIN run'[runGeneration].events : run'[runGeneration].events[i] = "write"
      <4> DEFINE s == run[runGeneration].events
      <4>1. Len(s) + 1 \in DOMAIN Append(s, "write") /\ Append(s, "write")[Len(s) + 1] = "write"
        BY <3>2
      <4> QED
        BY <3>1, <4>1
    <3> QED
      BY <1>1, <1>2, <2>1, <2>2, <3>3 DEF AboutToSchedule
  <2>3. CASE run[runGeneration].mode = "poll"
    BY <1>1, <1>2, <2>1, <2>3 DEF AboutToSchedule, FileInv
  <2> QED
    BY <2>1, <2>2, <2>3 DEF RunState
<1>4. starting => runGeneration + 1 \in Generation
  BY NotYet DEF StartInv
<1>5. Watching' <=> Watching
  BY <1>1, <1>2, <1>4 DEF Watching
<1>6. Pending' <=> Watching
  <2>1. CASE starting /\ Watching
    <3>1. run[runGeneration + 1].mode = "poll"
      BY <2>1 DEF Watching, StartInv
    <3>2. AboutToSchedule(runGeneration + 1)'
      BY <1>1, <1>2, <1>4, <2>1, <3>1 DEF AboutToSchedule, FileInv
    <3> QED
      BY <1>1, <1>5, <2>1, <3>2 DEF Pending
  <2>2. CASE ~(starting /\ Watching)
    BY <1>1, <1>3, <1>5, <2>2 DEF Pending, Watching
  <2> QED
    BY <2>1, <2>2
<1> QED
  BY <1>1, <1>5, <1>6 DEF FW!FileWritten

\* The same for a removal.
LEMMA RemoveRefines == ASSUME WatcherInv, RemoveFile PROVE FW!FileRemoved
<1> USE DEF WatcherInv, WatcherTypeOK
<1>1. /\ exists' = FALSE /\ rev' = rev /\ Notify("remove")
      /\ UNCHANGED <<started, starting, runGeneration, lastStat, timers, seq, changeCh>>
  BY DEF RemoveFile
<1>2. \A g \in Generation :
         /\ run'[g].pc = run[g].pc /\ run'[g].mode = run[g].mode /\ run'[g].info = run[g].info
         /\ run'[g].events = IF runIsActiveLocked(g) /\ run[g].mode = "fsnotify"
                             THEN Append(run[g].events, "remove") ELSE run[g].events
  BY <1>1, Queues
<1>3. ASSUME NEW g \in Generation, AboutToSchedule(g)' PROVE AboutToSchedule(g)
  <2>1. ASSUME NEW i \in DOMAIN run'[g].events, run'[g].events[i] = "write"
        PROVE  \E j \in DOMAIN run[g].events : run[g].events[j] = "write"
    <3>1. run[g].events \in Seq({"write", "remove"})
      BY DEF RunState
    <3>2. CASE run'[g].events = Append(run[g].events, "remove")
      <4>1. i \in DOMAIN run[g].events /\ run[g].events[i] = "write"
        BY <2>1, <3>1, <3>2
      <4> QED
        BY <4>1
    <3>3. CASE run'[g].events = run[g].events
      BY <2>1, <3>3
    <3> QED
      BY <1>2, <3>2, <3>3
  <2> QED
    BY <1>1, <1>2, <1>3, <2>1 DEF AboutToSchedule
<1>4. starting => runGeneration + 1 \in Generation
  BY NotYet DEF StartInv
<1>5. started => runGeneration \in Generation
  BY DEF Generation
<1>6. Watching' <=> Watching
  BY <1>1, <1>2, <1>4 DEF Watching
<1>7. Pending' => Pending
  BY <1>1, <1>3, <1>4, <1>5, <1>6 DEF Pending, AboutToPublish
<1>8. Watching' = Watching /\ Pending' \in {Pending, FALSE}
  BY Seen, <1>6, <1>7
<1> QED
  BY <1>1, <1>8 DEF FW!FileRemoved

\* For the client Start happens with the baseline stat or not at all in this step.
LEMMA StartStatsRefines ==
    ASSUME WatcherInv, NEW mode \in Modes, StartStats(mode)
    PROVE  FW!Start \/ UNCHANGED FW!watchVars
<1> USE DEF WatcherInv, WatcherTypeOK
<1>1. /\ ~started /\ ~starting /\ runGeneration < MaxStarts /\ starting' = TRUE
      /\ lastStat' = fingerprint /\ run' = [run EXCEPT ![runGeneration + 1].mode = mode]
      /\ UNCHANGED <<rev, exists, started, runGeneration, timers, seq, changeCh>>
  BY DEF StartStats, fileVars
<1> DEFINE g == runGeneration + 1
<1>2. g \in Generation /\ run[g].pc = "none" /\ run[g] \in RunState
  BY <1>1, NotYet
<1>3. run'[g].pc = "none" /\ run'[g].mode = mode
  <2>1. run'[g] = [run[g] EXCEPT !.mode = mode]
    BY <1>1, <1>2
  <2> QED
    BY <1>2, <2>1 DEF RunState
<1>4. ~Watching /\ ~Pending
  BY <1>1 DEF Watching, Pending
<1>5. ~Pending'
  BY <1>1, <1>3 DEF Pending, Watching, AboutToSchedule, fingerprint
<1>6. CASE Watching'
  <2>1. ~Watching /\ Watching' = TRUE /\ Pending' = Pending
    BY Seen, <1>4, <1>5, <1>6
  <2> QED
    BY <1>1, <2>1 DEF FW!Start
<1>7. CASE ~Watching'
  BY <1>1, <1>4, <1>5, <1>7, Unseen
<1> QED
  BY <1>6, <1>7

\* Or with the launch of the goroutine, whichever makes the file watched.
LEMMA StartLaunchesRefines ==
    ASSUME WatcherInv, StartLaunches
    PROVE  FW!Start \/ UNCHANGED FW!watchVars
<1> USE DEF WatcherInv, WatcherTypeOK
<1>1. /\ starting /\ ~started /\ runGeneration < MaxStarts /\ starting' = FALSE
      /\ started' = TRUE /\ runGeneration' = runGeneration + 1
      /\ UNCHANGED <<rev, exists, lastStat, seq, timers, changeCh>>
  BY DEF StartLaunches, StartInv, fileVars
<1> DEFINE g == runGeneration + 1
<1>2. /\ g \in Generation /\ run[g].pc = "none" /\ run[g].events = <<>>
      /\ \A t \in timers : t.gen # g
  BY <1>1, NotYet
<1>3. run'[g].pc = "select" /\ run'[g].mode = run[g].mode /\ run'[g].events = run[g].events
  BY <1>2, Moves DEF StartLaunches, Pc
<1>4. AboutToSchedule(runGeneration)' <=> AboutToSchedule(g)
  BY <1>1, <1>2, <1>3 DEF AboutToSchedule
<1>5. run[g].mode = "fsnotify" => ~AboutToSchedule(g)
  BY <1>2 DEF AboutToSchedule
<1>6. Pending' <=> AboutToSchedule(g)
  BY <1>1, <1>2, <1>4 DEF Pending, AboutToPublish
<1>7. Pending <=> AboutToSchedule(g)
  BY <1>1, <1>2, <1>5 DEF Pending, Watching, RunState
<1>8. Watching'
  BY <1>1 DEF Watching
<1>9. CASE Watching
  BY <1>1, <1>6, <1>7, <1>8, <1>9, Unseen
<1>10. CASE ~Watching
  <2>1. Watching' = TRUE /\ Pending' = Pending
    BY Seen, <1>6, <1>7, <1>8
  <2> QED
    BY <1>1, <1>10, <2>1 DEF FW!Start
<1> QED
  BY <1>9, <1>10

\* Stop is one step for the client: what was pending is dropped.
LEMMA StopRefines == ASSUME WatcherInv, Stop PROVE FW!Stop
BY DEF Stop, FW!Stop, Watching, Pending, WatcherInv, StartInv, fileVars

\* What a goroutine's step can change for the client: nothing if its run is over.
LEMMA GoesOn ==
    ASSUME WatcherInv, NEW g \in Generation, NothingElse, run[g].pc # "none",
           \A h \in Generation \ {g} : run'[h] = run[h],
           ~runIsActiveLocked(g) => UNCHANGED <<lastStat, seq, timers>>,
           runIsActiveLocked(g) /\ (\E t \in timers : AboutToPublish(t)) =>
               \E t \in timers' : AboutToPublish(t)'
    PROVE  /\ UNCHANGED <<exists, changeCh>> /\ (Watching' <=> Watching)
           /\ ~runIsActiveLocked(g) => (Pending' <=> Pending)
<1> USE DEF WatcherInv, WatcherTypeOK
<1>1. UNCHANGED <<rev, exists, started, starting, runGeneration, changeCh>>
  BY DEF NothingElse, fileVars
<1>2. starting => runGeneration + 1 \in Generation \ {g}
  BY NotYet DEF StartInv
<1>3. Watching' <=> Watching
  BY <1>1, <1>2 DEF Watching
<1>4. ASSUME NEW h \in Generation \ {g}, UNCHANGED lastStat
      PROVE  AboutToSchedule(h)' <=> AboutToSchedule(h)
  BY <1>1, <1>4 DEF AboutToSchedule
<1>5. ASSUME ~runIsActiveLocked(g)
      PROVE  Pending' <=> Pending
  <2>1. started => runGeneration \in Generation \ {g}
    BY <1>5 DEF Generation, runIsActiveLocked
  <2>2. UNCHANGED <<lastStat, seq, timers>>
    BY <1>5
  <2>3. started => (AboutToSchedule(runGeneration)' <=> AboutToSchedule(runGeneration))
    BY <1>1, <1>4, <2>1, <2>2
  <2>4. starting => (AboutToSchedule(runGeneration + 1)' <=> AboutToSchedule(runGeneration + 1))
    BY <1>1, <1>2, <1>4, <2>2
  <2> QED
    BY <1>1, <1>3, <2>2, <2>3, <2>4 DEF Pending, AboutToPublish
<1> QED
  BY <1>1, <1>3, <1>5

\* The goroutine of the current run, as long as no timer changes: its own business
\* is all that Pending depends on.
LEMMA GoesOnUnseen ==
    ASSUME WatcherInv, NEW g \in Generation, NothingElse, run[g].pc # "none",
           \A h \in Generation \ {g} : run'[h] = run[h], UNCHANGED <<seq, timers>>,
           ~runIsActiveLocked(g) => UNCHANGED lastStat,
           runIsActiveLocked(g) => (AboutToSchedule(g)' <=> AboutToSchedule(g))
    PROVE  UNCHANGED FW!watchVars
<1> USE DEF WatcherInv
<1>1. /\ UNCHANGED <<exists, changeCh>> /\ (Watching' <=> Watching)
      /\ ~runIsActiveLocked(g) => (Pending' <=> Pending)
  BY GoesOn DEF AboutToPublish, NothingElse
<1>2. runIsActiveLocked(g) => (Pending' <=> Pending)
  BY DEF runIsActiveLocked, NothingElse, Pending, AboutToPublish, StartInv
<1> QED
  BY <1>1, <1>2, Unseen

\* Receiving an event is invisible: the change stays pending as a stat to come.
LEMMA ReceiveEventRefines ==
    ASSUME WatcherInv, NEW g \in Generation, ReceiveEvent(g) PROVE UNCHANGED FW!watchVars
<1> USE DEF WatcherInv, WatcherTypeOK
<1> DEFINE s == run[g].events
           place == IF Head(s) = "remove" THEN "missing" ELSE "stat"
<1>1. /\ run[g].pc = "select" /\ s # <<>> /\ s \in Seq({"write", "remove"}) /\ run[g] \in RunState
      /\ run' = [run EXCEPT ![g].events = Tail(@), ![g].pc = place]
      /\ NothingElse /\ UNCHANGED <<lastStat, seq, timers>>
  BY DEF ReceiveEvent, RunState
<1>2. /\ run'[g].events = Tail(s) /\ run'[g].pc = place /\ run'[g].mode = "fsnotify"
      /\ run[g].mode = "fsnotify"
      /\ \A h \in Generation \ {g} : run'[h] = run[h]
  BY <1>1 DEF RunInv, RunState
<1>3. (\E i \in DOMAIN s : s[i] = "write") <=>
      Head(s) = "write" \/ \E i \in DOMAIN Tail(s) : Tail(s)[i] = "write"
  <2>1. ASSUME NEW i \in DOMAIN s, s[i] = "write", Head(s) # "write"
        PROVE  \E j \in DOMAIN Tail(s) : Tail(s)[j] = "write"
    <3>1. i \in 1..Len(s) /\ i # 1 /\ Len(s) \in Nat
      BY <1>1, <2>1
    <3>2. i - 1 \in 1..(Len(s) - 1) /\ Len(Tail(s)) = Len(s) - 1 /\ Tail(s) \in Seq({"write", "remove"})
      BY <1>1, <3>1
    <3>3. Tail(s)[i - 1] = s[i - 1 + 1] /\ i - 1 + 1 = i
      BY <1>1, <3>1, <3>2
    <3>4. i - 1 \in DOMAIN Tail(s) /\ Tail(s)[i - 1] = "write"
      BY <2>1, <3>2, <3>3
    <3> QED
      BY <3>4
  <2>2. ASSUME NEW j \in DOMAIN Tail(s), Tail(s)[j] = "write"
        PROVE  \E i \in DOMAIN s : s[i] = "write"
    <3>1. j + 1 \in DOMAIN s /\ s[j + 1] = "write"
      BY <1>1, <2>2
    <3> QED
      BY <3>1
  <2>3. 1 \in DOMAIN s /\ Head(s) = s[1] /\ Head(s) \in {"write", "remove"}
    BY <1>1
  <2> QED
    BY <2>1, <2>2, <2>3
<1>4. Head(s) \in {"write", "remove"}
  BY <1>1
<1>5. AboutToSchedule(g)' <=> AboutToSchedule(g)
  BY <1>1, <1>2, <1>3, <1>4 DEF AboutToSchedule
<1> QED
  BY <1>1, <1>2, <1>5, GoesOnUnseen

\* Ticks and the end of a run are invisible.
LEMMA MoveRefines ==
    ASSUME WatcherInv, NEW g \in Generation, Tick(g) \/ RunEnds(g)
    PROVE  UNCHANGED FW!watchVars
<1> USE DEF WatcherInv, WatcherTypeOK
<1>1. PICK place \in {"stat", "done"} :
        /\ run[g].pc = "select" /\ RunGoto(g, place) /\ NothingElse /\ UNCHANGED <<lastStat, seq, timers>>
        /\ runIsActiveLocked(g) => run[g].mode = "poll" /\ place = "stat"
  BY DEF Tick, RunEnds
<1>2. /\ run'[g].pc = place /\ run'[g].mode = run[g].mode /\ run'[g].events = run[g].events
      /\ run'[g].info = run[g].info
      /\ \A h \in Generation \ {g} : run'[h] = run[h]
  BY <1>1, Moves DEF Pc
<1>3. runIsActiveLocked(g) => (AboutToSchedule(g)' <=> AboutToSchedule(g))
  BY <1>1, <1>2 DEF AboutToSchedule, NothingElse, fileVars
<1> QED
  BY <1>1, <1>2, <1>3, GoesOnUnseen

\* In fsnotify mode a write that is already in the queue, or on its way to the
\* stat, is forgotten when the file has gone: it is the removal that is reported.
LEMMA StatFileRefines ==
    ASSUME WatcherInv, NEW g \in Generation, StatFile(g)
    PROVE  FW!Forget \/ UNCHANGED FW!watchVars
<1> USE DEF WatcherInv, WatcherTypeOK
<1>1. run[g].pc = "stat" /\ run[g] \in RunState /\ NothingElse /\ UNCHANGED <<lastStat, seq, timers>>
  BY DEF StatFile
<1>2. UNCHANGED <<rev, exists, started, starting, runGeneration, changeCh>>
  BY <1>1 DEF NothingElse, fileVars
<1>3. CASE exists
  <2>1. run' = [run EXCEPT ![g].pc = "record", ![g].info = rev]
    BY <1>3 DEF StatFile
  <2>2. /\ run'[g].pc = "record" /\ run'[g].info = rev /\ run'[g].mode = run[g].mode
        /\ run'[g].events = run[g].events
        /\ \A h \in Generation \ {g} : run'[h] = run[h]
    BY <1>1, <2>1 DEF RunState
  <2>3. AboutToSchedule(g)' <=> AboutToSchedule(g)
    BY <1>1, <1>2, <1>3, <2>2 DEF AboutToSchedule
  <2> QED
    BY <1>1, <2>2, <2>3, GoesOnUnseen
<1>4. CASE ~exists
  <2> DEFINE place == IF run[g].mode = "poll" THEN "missing" ELSE "select"
  <2>1. RunGoto(g, place)
    BY <1>4 DEF StatFile
  <2>2. /\ run'[g].pc = place /\ run'[g].mode = run[g].mode /\ run'[g].events = run[g].events
        /\ run'[g].info = run[g].info
        /\ \A h \in Generation \ {g} : run'[h] = run[h]
    BY <1>1, <2>1, Moves DEF Pc
  <2>3. AboutToSchedule(g)' => AboutToSchedule(g)
    BY <1>1, <1>2, <2>2 DEF AboutToSchedule
  <2>4. CASE runIsActiveLocked(g) /\ ~AboutToSchedule(g)' /\ ~Pending'
    <3>1. /\ UNCHANGED <<exists, changeCh>> /\ (Watching' <=> Watching)
      BY <1>1, <2>2, GoesOn DEF AboutToPublish, NothingElse
    <3>2. Pending' = FALSE /\ Watching' = Watching
      BY Seen, <2>4, <3>1
    <3> QED
      BY <1>4, <3>1, <3>2 DEF FW!Forget
  <2>5. CASE runIsActiveLocked(g) /\ Pending'
    <3>1. Pending
      BY <1>2, <1>1, <2>3, <2>5 DEF Pending, AboutToPublish, StartInv, runIsActiveLocked
    <3>2. /\ UNCHANGED <<exists, changeCh>> /\ (Watching' <=> Watching)
      BY <1>1, <2>2, GoesOn DEF AboutToPublish, NothingElse
    <3> QED
      BY <2>5, <3>1, <3>2, Unseen
  <2>6. CASE ~runIsActiveLocked(g)
    BY <1>1, <2>2, <2>6, GoesOnUnseen
  <2>7. runIsActiveLocked(g) /\ AboutToSchedule(g)' => Pending'
    BY <1>2 DEF Pending, runIsActiveLocked
  <2> QED
    BY <2>4, <2>5, <2>6, <2>7
<1> QED
  BY <1>3, <1>4

\* A file found missing is invisible: nothing was pending but its removal.
LEMMA RecordMissingRefines ==
    ASSUME WatcherInv, NEW g \in Generation, recordMissing(g) PROVE UNCHANGED FW!watchVars
<1> USE DEF WatcherInv, WatcherTypeOK
<1>1. /\ run[g].pc = "missing" /\ run[g] \in RunState /\ NothingElse /\ UNCHANGED <<seq, timers>>
      /\ RunGoto(g, "select")
  BY DEF recordMissing
<1>2. /\ runIsActiveLocked(g) => lastStat' = Missing
      /\ ~runIsActiveLocked(g) => UNCHANGED lastStat
  BY DEF recordMissing
<1>3. /\ run'[g].pc = "select" /\ run'[g].mode = run[g].mode /\ run'[g].events = run[g].events
      /\ run'[g].info = run[g].info
      /\ \A h \in Generation \ {g} : run'[h] = run[h]
  BY <1>1, Moves DEF Pc
<1>4. UNCHANGED <<rev, exists, started, starting, runGeneration, changeCh>>
  BY <1>1 DEF NothingElse, fileVars
<1>5. ASSUME runIsActiveLocked(g)
      PROVE  AboutToSchedule(g)' <=> AboutToSchedule(g)
  <2>1. started /\ runGeneration = g
    BY <1>5 DEF runIsActiveLocked
  <2>2. run[g].mode = "poll" /\ exists => rev # lastStat
    BY <1>1, <2>1 DEF MissingInv
  <2>3. rev # lastStat'
    BY <1>2, <1>5 DEF FileInv, Missing
  <2> QED
    BY <1>1, <1>3, <1>4, <2>2, <2>3 DEF AboutToSchedule
<1> QED
  BY <1>1, <1>2, <1>3, <1>5, GoesOnUnseen

\* What is recorded is on its way to schedule, unless the poller saw nothing new.
LEMMA RecordStatRefines ==
    ASSUME WatcherInv, NEW g \in Generation, recordStat(g) PROVE UNCHANGED FW!watchVars
<1> USE DEF WatcherInv, WatcherTypeOK
<1>1. run[g].pc = "record" /\ run[g] \in RunState /\ NothingElse /\ UNCHANGED <<seq, timers>>
  BY DEF recordStat
<1>2. UNCHANGED <<rev, exists, started, starting, runGeneration, changeCh>>
  BY <1>1 DEF NothingElse, fileVars
<1>3. CASE runIsActiveLocked(g)
  <2> DEFINE place == IF run[g].mode = "fsnotify" \/ run[g].info # lastStat THEN "schedule" ELSE "select"
  <2>1. RunGoto(g, place) /\ lastStat' = run[g].info
    BY <1>3 DEF recordStat
  <2>2. /\ run'[g].pc = place /\ run'[g].mode = run[g].mode /\ run'[g].events = run[g].events
        /\ run'[g].info = run[g].info
        /\ \A h \in Generation \ {g} : run'[h] = run[h]
    BY <2>1, Moves DEF Pc
  <2>3. AboutToSchedule(g)' <=> AboutToSchedule(g)
    BY <1>1, <1>2, <2>1, <2>2 DEF AboutToSchedule, RunState
  <2> QED
    BY <1>1, <1>3, <2>2, <2>3, GoesOnUnseen
<1>4. CASE ~runIsActiveLocked(g)
  <2>1. RunGoto(g, "select") /\ UNCHANGED lastStat
    BY <1>4 DEF recordStat
  <2>2. \A h \in Generation \ {g} : run'[h] = run[h]
    BY <2>1, Moves DEF Pc
  <2> QED
    BY <1>1, <1>4, <2>1, <2>2, GoesOnUnseen
<1> QED
  BY <1>3, <1>4

\* The change is handed to the newest timer of the same run.
LEMMA ScheduleRefines ==
    ASSUME WatcherInv, NEW g \in Generation, scheduleChange(g) PROVE UNCHANGED FW!watchVars
<1> USE DEF WatcherInv, WatcherTypeOK
<1>1. run[g].pc = "schedule" /\ NothingElse /\ UNCHANGED lastStat /\ RunGoto(g, "select")
  BY DEF scheduleChange
<1>2. UNCHANGED <<rev, exists, started, starting, runGeneration, changeCh>>
  BY <1>1 DEF NothingElse, fileVars
<1>3. \A h \in Generation \ {g} : run'[h] = run[h]
  BY <1>1, Moves DEF Pc
<1>4. CASE runIsActiveLocked(g)
  <2>1. Pending
    BY <1>1, <1>4 DEF Pending, AboutToSchedule, runIsActiveLocked
  <2>2. \E u \in timers' : u.seq = seq' /\ u.gen = g
    BY <1>4, Arms DEF scheduleChange
  <2>3. \E u \in timers' : AboutToPublish(u)'
    BY <1>2, <1>4, <2>2 DEF AboutToPublish, runIsActiveLocked
  <2>4. Pending'
    BY <1>2, <1>4, <2>3 DEF Pending, runIsActiveLocked
  <2>5. UNCHANGED <<exists, changeCh>> /\ (Watching' <=> Watching)
    BY <1>1, <1>3, <1>4, <2>3, GoesOn
  <2> QED
    BY <2>1, <2>4, <2>5, Unseen
<1>5. CASE ~runIsActiveLocked(g)
  <2>1. UNCHANGED <<seq, timers>>
    BY <1>5 DEF scheduleChange
  <2> QED
    BY <1>1, <1>3, <1>5, <2>1, GoesOnUnseen
<1> QED
  BY <1>4, <1>5

\* A callback that has taken a look: the same timer is about to publish, or one
\* that was not ends.
LEMMA CallbackUnseen ==
    ASSUME WatcherInv, OnlyTimers, UNCHANGED changeCh,
           started => ((\E t \in timers' : AboutToPublish(t)) <=> \E t \in timers : AboutToPublish(t))
    PROVE  UNCHANGED FW!watchVars
<1>1. /\ UNCHANGED <<rev, exists, started, starting, runGeneration, lastStat, run, seq, changeCh>>
  BY DEF OnlyTimers, fileVars
<1>2. Watching' <=> Watching
  BY <1>1 DEF Watching
<1>3. \A t : AboutToPublish(t)' <=> AboutToPublish(t)
  BY <1>1 DEF AboutToPublish
<1>4. \A g : AboutToSchedule(g)' <=> AboutToSchedule(g)
  BY <1>1 DEF AboutToSchedule
<1>5. Pending' <=> Pending
  BY <1>1, <1>2, <1>3, <1>4 DEF Pending
<1> QED
  BY <1>1, <1>2, <1>5, Unseen

\* A callback that goes on in order to publish, and one that ends because it is
\* superseded, of another run, or of no run at all.
LEMMA GoesOnToPublish ==
    ASSUME WatcherInv, NEW t \in timers, OnlyTimers, UNCHANGED changeCh,
           NEW place \in {"armed", "fired", "admitted", "called"}, TimerGoto(t, place),
           (place \in {"armed", "fired"} => t.seq = seq) <=> (t.pc \in {"armed", "fired"} => t.seq = seq)
    PROVE  UNCHANGED FW!watchVars
<1>1. PICK u \in timers' : /\ u.seq = t.seq /\ u.gen = t.gen /\ u.pc = place
                           /\ timers' = (timers \ {t}) \cup {u}
  BY TimerMoves DEF WatcherInv, WatcherTypeOK
<1>2. AboutToPublish(u) <=> AboutToPublish(t)
  BY <1>1 DEF AboutToPublish
<1>3. (\E v \in timers' : AboutToPublish(v)) <=> \E v \in timers : AboutToPublish(v)
  BY <1>1, <1>2
<1> QED
  BY <1>3, CallbackUnseen

\* A callback that gives up is invisible, since it was not the one to publish.
LEMMA EndsUnseen ==
    ASSUME WatcherInv, NEW t \in timers, OnlyTimers, UNCHANGED changeCh, TimerEnds(t),
           started => ~AboutToPublish(t)
    PROVE  UNCHANGED FW!watchVars
<1>1. timers' = timers \ {t}
  BY DEF TimerEnds
<1>2. started => ((\E v \in timers' : AboutToPublish(v)) <=> \E v \in timers : AboutToPublish(v))
  BY <1>1
<1> QED
  BY <1>2, CallbackUnseen

\* A callback publishes the pending change or is invisible.
LEMMA CallbackRefines ==
    ASSUME WatcherInv, NEW t \in timers, callback(t)
    PROVE  FW!Publish \/ UNCHANGED FW!watchVars
<1>1. CASE TimerFires(t)
  BY <1>1, GoesOnToPublish DEF TimerFires
<1>2. CASE CheckSeq(t)
  <2>1. CASE t.seq = seq
    BY <1>2, <2>1, GoesOnToPublish DEF CheckSeq
  <2>2. CASE t.seq # seq
    BY <1>2, <2>2, EndsUnseen DEF CheckSeq, AboutToPublish
  <2> QED
    BY <2>1, <2>2
<1>3. CASE Admit(t)
  <2>1. CASE runIsActiveLocked(t.gen)
    BY <1>3, <2>1, GoesOnToPublish DEF Admit
  <2>2. CASE ~runIsActiveLocked(t.gen)
    BY <1>3, <2>2, EndsUnseen DEF Admit, AboutToPublish, runIsActiveLocked
  <2> QED
    BY <2>1, <2>2
<1>4. CASE Publish(t)
  <2>1. CASE runIsActiveLocked(t.gen)
    <3>1. t.pc = "called" /\ started /\ t.gen = runGeneration /\ t.gen # 0
      BY <1>4, <2>1 DEF Publish, runIsActiveLocked, WatcherInv
    <3>2. Pending
      BY <3>1 DEF Pending, AboutToPublish
    <3>3. Watching /\ UNCHANGED <<exists, started>> /\ changeCh' # 0
      BY <1>4, <2>1, <3>1 DEF Publish, OnlyTimers, fileVars, Watching
    <3>4. Watching'
      BY <3>1, <3>3 DEF Watching
    <3>5. Watching' = Watching /\ Pending' \in BOOLEAN /\ (changeCh' # 0) = TRUE
      BY <3>3, <3>4, Seen
    <3> QED
      BY <3>2, <3>3, <3>5 DEF FW!Publish
  <2>2. CASE ~runIsActiveLocked(t.gen)
    <3>1. started => ~AboutToPublish(t)
      BY <2>2 DEF AboutToPublish, runIsActiveLocked
    <3>2. TimerEnds(t) /\ OnlyTimers /\ UNCHANGED changeCh
      BY <1>4, <2>2 DEF Publish
    <3> QED
      BY <3>1, <3>2, EndsUnseen
  <2> QED
    BY <2>1, <2>2
<1> QED
  BY <1>1, <1>2, <1>3, <1>4 DEF callback

\* The client's receive is the abstract one.
LEMMA ReceiveChangeRefines == ASSUME WatcherInv, ReceiveChange PROVE FW!Receive
<1>1. /\ changeCh # 0 /\ changeCh' = 0
      /\ UNCHANGED <<rev, exists, started, starting, runGeneration, lastStat, run, seq, timers>>
  BY DEF ReceiveChange, OnlyTimers, fileVars
<1>2. Watching' <=> Watching
  BY <1>1 DEF Watching
<1>3. Pending' <=> Pending
  BY <1>1, <1>2 DEF Pending, AboutToPublish, AboutToSchedule
<1>4. Watching' = Watching /\ Pending' = Pending
  BY <1>2, <1>3, Seen
<1> QED
  BY <1>1, <1>4 DEF FW!Receive

\* Every step of the watcher is a step of FileWatch or invisible.
LEMMA WatcherStepRefines ==
    ASSUME WatcherInv, [WatcherNext]_watcherVars PROVE [FW!Next]_(FW!watchVars)
<1>1. CASE UNCHANGED watcherVars
  BY <1>1 DEF watcherVars, fileVars, FW!watchVars, Watching, Pending, AboutToSchedule, AboutToPublish
<1>2. CASE WriteFile
  BY <1>2, WriteRefines DEF FW!Next
<1>3. CASE RemoveFile
  BY <1>3, RemoveRefines DEF FW!Next
<1>4. ASSUME NEW mode \in Modes, StartStats(mode) PROVE FW!Next \/ UNCHANGED FW!watchVars
  BY <1>4, StartStatsRefines DEF FW!Next
<1>5. CASE StartLaunches
  BY <1>5, StartLaunchesRefines DEF FW!Next
<1>6. CASE Stop
  BY <1>6, StopRefines DEF FW!Next
<1>7. ASSUME NEW g \in Generation, watch(g) PROVE FW!Next \/ UNCHANGED FW!watchVars
  BY <1>7, ReceiveEventRefines, MoveRefines, StatFileRefines, RecordMissingRefines,
     RecordStatRefines, ScheduleRefines DEF watch, FW!Next
<1>8. ASSUME NEW t \in timers, callback(t) PROVE FW!Next \/ UNCHANGED FW!watchVars
  BY <1>8, CallbackRefines DEF FW!Next
<1>9. CASE ReceiveChange
  BY <1>9, ReceiveChangeRefines DEF FW!Next
<1> QED
  BY <1>1, <1>2, <1>3, <1>4, <1>5, <1>6, <1>7, <1>8, <1>9 DEF WatcherNext

\* watcher.go and debouncer.go implement FileWatch: no interleaving of Stop, Start,
\* late goroutines and late callbacks drops a change of the current run before it
\* is signalled, or leaves anything of an earlier run behind.
THEOREM ContractHolds == WatcherSpec => Contract
<1>1. WatcherInit => FW!Init
  BY InitRefines
<1>2. WatcherInv /\ [WatcherNext]_watcherVars => [FW!Next]_(FW!watchVars)
  BY WatcherStepRefines
<1> QED
  BY <1>1, <1>2, WatcherInvariant, PTL DEF WatcherSpec, Contract, FW!Spec

-----------------------------------------------------------------------------
(* AGENTS.md survives any number of bv processes, crashes at any step and  *)
(* an editor that knows of no lock; and no older bv puts its blurb in the  *)
(* place of a newer one.                                                   *)
Inode == 1 .. MaxInodes
Content == [text : SUBSET Edits, blurbs : Seq(Nat), whole : BOOLEAN]
Op == {"append", "update", "remove", "create"}
Call == [op : Op \cup {"none"}, seen : 0 .. MaxInodes, fd : 0 .. MaxInodes,
         read : Content, tmp : 0 .. MaxInodes]

Typed ==
    /\ made \in Inode /\ named \in 0 .. made
    /\ inodes \in [Inode -> Content]
    /\ flocked \in [Inode -> Writers \cup {NoOne}]
    /\ step \in [Writers -> Steps] /\ call \in [Writers -> Call]
    /\ edited \subseteq Edits /\ inGap \subseteq Edits

\* Under the lock of the file it read.
Locked(w) ==
    \/ step[w] \in {"read", "verify", "rename"}
    \/ step[w] = "fill" /\ call[w].op # "create"

\* With a replacement that no reader can see yet.
Preparing(w) == step[w] \in {"fill", "verify", "rename", "publish"}

\* What the replacement holds once it is written.
Replacement(w) ==
    [text |-> call[w].read.text, whole |-> TRUE,
     blurbs |-> NewBlurbs(w, call[w].op, call[w].read.blurbs)]

\* What a process knows of its own call.
CallOK(w) ==
    /\ step[w] = "idle" => call[w] = Idle
    /\ step[w] \in {"resolve", "open", "lock", "read"} =>
          call[w].op \in Op \ {"create"} /\ call[w].tmp = 0
    /\ step[w] \in {"verify", "rename"} => call[w].op \in Op \ {"create"}
    /\ step[w] = "fill" => call[w].op \in Op
    /\ step[w] = "publish" => call[w].op = "create"
    /\ Preparing(w) /\ call[w].op = "create" => call[w].read = Blank
    /\ Locked(w) \/ step[w] = "lock" => call[w].fd \in Inode
    /\ Locked(w) /\ step[w] # "read" => Accepts(w, call[w].op, call[w].read.blurbs)
    /\ step[w] \in {"verify", "rename", "publish"} =>
          call[w].tmp # 0 /\ inodes[call[w].tmp] = Replacement(w)
    /\ step[w] = "check" => call[w].tmp # 0

\* The flock of an inode has one holder, who is at work.
FlockInv ==
    /\ \A w \in Writers : Locked(w) => flocked[call[w].fd] = w
    /\ \A i \in Inode : flocked[i] # NoOne => step[flocked[i]] # "idle"

\* Replacements are private until they are published.
TmpInv ==
    \A w \in Writers :
       /\ call[w].tmp <= made
       /\ Preparing(w) /\ call[w].tmp # 0 => call[w].tmp # named
       /\ \A v \in Writers \ {w} : call[w].tmp # 0 => call[w].tmp # call[v].tmp

\* What was verified stays true up to the rename unless the editor hits the gap.
GapInv ==
    /\ named = 0 => edited = {}
    /\ \A w \in Writers : step[w] = "rename" =>
          /\ edited \ inGap \subseteq call[w].read.text
          /\ inGap = {} => named = call[w].fd /\ inodes[named] = call[w].read

AgentInv ==
    Typed /\ (\A w \in Writers : CallOK(w)) /\ FlockInv /\ TmpInv /\ GapInv /\ NamedFileIsWhole /\ NoEditLostOutsideGap

-----------------------------------------------------------------------------
\* A file just created holds nobody's text and no blurb.
LEMMA BlankTyped == Blank \in Content /\ Blank.text = {} /\ Blank.blurbs = <<>>
BY DEF Blank, Content

\* Between two calls a process has no inode, has read nothing and has no replacement.
LEMMA IdleTyped ==
    /\ Idle \in Call
    /\ Idle.op = "none" /\ Idle.seen = 0 /\ Idle.fd = 0 /\ Idle.read = Blank /\ Idle.tmp = 0
BY BlankTyped, AgentAssumption DEF Idle, Call

\* A call with one field changed.
LEMMA SetsOp ==
    ASSUME NEW c \in Call, NEW x \in Op, NEW d, d = [c EXCEPT !.op = x]
    PROVE  d \in Call /\ d.op = x /\ d.seen = c.seen /\ d.fd = c.fd /\ d.read = c.read /\ d.tmp = c.tmp
BY DEF Call

\* Recording which inode the path led to keeps the types and the other fields of a call.
LEMMA SetsSeen ==
    ASSUME NEW c \in Call, NEW x \in 0 .. MaxInodes, NEW d, d = [c EXCEPT !.seen = x]
    PROVE  d \in Call /\ d.op = c.op /\ d.seen = x /\ d.fd = c.fd /\ d.read = c.read /\ d.tmp = c.tmp
BY DEF Call

\* Opening an inode keeps the types and the other fields of a call.
LEMMA SetsFd ==
    ASSUME NEW c \in Call, NEW x \in 0 .. MaxInodes, NEW d, d = [c EXCEPT !.fd = x]
    PROVE  d \in Call /\ d.op = c.op /\ d.seen = c.seen /\ d.fd = x /\ d.read = c.read /\ d.tmp = c.tmp
BY DEF Call

\* Reading a content keeps the types and the other fields of a call.
LEMMA SetsRead ==
    ASSUME NEW c \in Call, NEW x \in Content, NEW d, d = [c EXCEPT !.read = x]
    PROVE  d \in Call /\ d.op = c.op /\ d.seen = c.seen /\ d.fd = c.fd /\ d.read = x /\ d.tmp = c.tmp
BY DEF Call

\* Creating the temporary file keeps the types and the other fields of a call.
LEMMA SetsTmp ==
    ASSUME NEW c \in Call, NEW x \in 0 .. MaxInodes, NEW d, d = [c EXCEPT !.tmp = x]
    PROVE  d \in Call /\ d.op = c.op /\ d.seen = c.seen /\ d.fd = c.fd /\ d.read = c.read /\ d.tmp = x
BY DEF Call

\* What the operations write is one blurb or none.
LEMMA NewBlurbsShort ==
    ASSUME NEW w \in Writers, NEW op \in Op, NEW blurbs \in Seq(Nat),
           op # "create" => Accepts(w, op, blurbs)
    PROVE  NewBlurbs(w, op, blurbs) \in Seq(Nat) /\ Len(NewBlurbs(w, op, blurbs)) <= 1
<1>1. Version[w] \in Nat
  BY AgentAssumption
<1>2. CASE op = "append"
  <2>1. blurbs = <<>>
    BY <1>2 DEF Accepts
  <2>2. NewBlurbs(w, op, blurbs) = <<Version[w]>>
    BY <1>1, <1>2, <2>1 DEF NewBlurbs
  <2> QED
    BY <1>1, <2>2
<1>3. CASE op \in {"update", "create"}
  <2>1. NewBlurbs(w, op, blurbs) = <<Version[w]>>
    BY <1>3 DEF NewBlurbs
  <2> QED
    BY <1>1, <2>1
<1>4. CASE op = "remove"
  <2>1. NewBlurbs(w, op, blurbs) = <<>>
    BY <1>4 DEF NewBlurbs
  <2> QED
    BY <2>1
<1> QED
  BY <1>2, <1>3, <1>4 DEF Op

\* At first AGENTS.md is missing or whole, without an edit, and nobody has it open.
LEMMA AgentInitInv == ASSUME AgentInit PROVE AgentInv
<1> USE AgentAssumption, IdleTyped, BlankTyped
<1>1. PICK old \in {<<>>} \cup {<<v>> : v \in {Version[w] : w \in Writers}} :
         inodes = [i \in Inode |->
                     IF i = 1 THEN [text |-> {}, blurbs |-> old, whole |-> TRUE] ELSE Blank]
  BY DEF AgentInit, Inode
<1>2. old \in Seq(Nat) /\ Len(old) <= 1
  <2>1. CASE old = <<>>
    BY <2>1
  <2>2. ASSUME NEW w \in Writers, old = <<Version[w]>>
        PROVE  old \in Seq(Nat) /\ Len(old) <= 1
    BY <2>2
  <2> QED
    BY <2>1, <2>2
<1>3. 1 \in Inode
  BY DEF Inode
<1>4. inodes \in [Inode -> Content]
  BY <1>1, <1>2 DEF Content
<1>5. Typed
  BY <1>3, <1>4 DEF AgentInit, Typed, Inode, Steps
<1>6. (\A w \in Writers : CallOK(w)) /\ FlockInv /\ TmpInv /\ GapInv
  BY <1>3 DEF AgentInit, CallOK, FlockInv, TmpInv, GapInv, Locked, Preparing, Inode
<1>7. NamedFileIsWhole /\ NoEditLostOutsideGap
  BY <1>1, <1>2, <1>3 DEF AgentInit, NamedFileIsWhole, NoEditLostOutsideGap
<1> QED
  BY <1>5, <1>6, <1>7 DEF AgentInv

\* What a process knows stays true while nobody touches its call or its file.
LEMMA CallFrame ==
    ASSUME NEW v \in Writers, CallOK(v), step'[v] = step[v], call'[v] = call[v],
           step[v] \in {"verify", "rename", "publish"} =>
              inodes'[call[v].tmp] = inodes[call[v].tmp]
    PROVE  CallOK(v)'
<1> USE DEF CallOK, Locked, Preparing, Replacement
<1>1. Replacement(v)' = Replacement(v)
  OBVIOUS
<1> HIDE DEF Replacement
<1> QED
  BY <1>1

\* An operation that ends, for whatever reason, leaves the files as they are.
LEMMA Finishing ==
    ASSUME AgentInv, NEW w \in Writers, NEW how, Finish(w, how),
           UNCHANGED <<named, inodes, made, edited, inGap>>
    PROVE  AgentInv'
<1> USE AgentAssumption, IdleTyped DEF AgentInv, Finish, Keep
<1>1. Typed'
  BY DEF Typed, Inode, Steps
<1>2. /\ step'[w] = "idle" /\ call'[w] = Idle
      /\ \A v \in Writers \ {w} : step'[v] = step[v] /\ call'[v] = call[v]
      /\ \A i \in Inode : flocked'[i] = IF flocked[i] = w THEN NoOne ELSE flocked[i]
  BY DEF Typed, Inode
<1>3. \A v \in Writers : CallOK(v)'
  <2>1. CallOK(w)'
    BY <1>2 DEF CallOK, Locked, Preparing
  <2> QED
    BY <1>2, <2>1, CallFrame
<1>4. FlockInv'
  <2>1. ASSUME NEW v \in Writers, Locked(v)'
        PROVE  flocked'[call'[v].fd] = v
    BY <1>2, <2>1 DEF FlockInv, CallOK, Locked
  <2>2. ASSUME NEW i \in Inode, flocked'[i] # NoOne
        PROVE  step'[flocked'[i]] # "idle"
    BY <1>2, <2>2 DEF FlockInv, Typed
  <2> QED
    BY <2>1, <2>2 DEF FlockInv
<1>5. TmpInv' /\ GapInv'
  BY <1>2 DEF TmpInv, GapInv, Preparing, Typed, Inode
<1>6. NamedFileIsWhole' /\ NoEditLostOutsideGap'
  BY DEF NamedFileIsWhole, NoEditLostOutsideGap
<1> QED
  BY <1>1, <1>3, <1>4, <1>5, <1>6

\* Starting a call changes no file and no lock.
LEMMA Begins ==
    ASSUME AgentInv, NEW w \in Writers, Begin(w)
    PROVE  AgentInv'
<1> USE AgentAssumption DEF AgentInv
<1>0. UNCHANGED <<named, inodes, flocked, made, outcome, edited, inGap>>
  BY DEF Begin
<1> USE <1>0
<1>a. PICK op \in Wanted(w) :
         /\ call' = [call EXCEPT ![w].op = op] /\ step[w] = "idle"
         /\ step' = [step EXCEPT ![w] = IF op = "create" THEN "fill" ELSE "resolve"]
  BY DEF Begin, Keep
<1>b. op \in Op
  BY DEF Wanted, Op
<1>1. /\ call[w] = Idle /\ call'[w] \in Call /\ call'[w].op = op /\ call'[w].read = Blank
      /\ call[w].tmp = 0 /\ call'[w].tmp = 0 /\ call' = [call EXCEPT ![w] = call'[w]] /\ op \in Op
      /\ step[w] = "idle" /\ step' = [step EXCEPT ![w] = step'[w]]
      /\ step'[w] \in {"fill", "resolve"} /\ (step'[w] = "fill" <=> op = "create")
  <2>1. call[w] \in Call /\ call'[w] = [call[w] EXCEPT !.op = op]
    BY <1>a DEF Typed
  <2>2. /\ call'[w] \in Call /\ call'[w].op = op
        /\ call'[w].read = call[w].read /\ call'[w].tmp = call[w].tmp
    BY <1>b, <2>1, SetsOp
  <2>3. call[w] = Idle /\ call[w].read = Blank /\ call[w].tmp = 0
    BY <1>a, IdleTyped DEF CallOK
  <2>4. call' = [call EXCEPT ![w] = call'[w]] /\ step' = [step EXCEPT ![w] = step'[w]]
    BY <1>a DEF Typed
  <2>5. step'[w] \in {"fill", "resolve"} /\ (step'[w] = "fill" <=> op = "create")
    BY <1>a DEF Typed
  <2> QED
    BY <1>a, <1>b, <2>2, <2>3, <2>4, <2>5
<1>2. \A v \in Writers \ {w} : step'[v] = step[v] /\ call'[v] = call[v]
  BY <1>1 DEF Typed
<1>3. Typed'
  BY <1>1 DEF Typed, Inode, Steps
<1>4. \A v \in Writers : CallOK(v)'
  <2>1. CallOK(w)'
    BY <1>1 DEF CallOK, Locked, Preparing
  <2> QED
    BY <1>2, <2>1, CallFrame
<1>5. FlockInv'
  BY <1>1, <1>2 DEF FlockInv, CallOK, Locked, Typed
<1>6. TmpInv'
  <2>1. \A v \in Writers : call'[v].tmp = call[v].tmp
    BY <1>1, <1>2
  <2>2. ASSUME NEW v \in Writers, Preparing(v)', call'[v].tmp # 0
        PROVE  call'[v].tmp # named'
    BY <1>1, <1>2, <2>2 DEF TmpInv, Preparing
  <2> QED
    BY <2>1, <2>2 DEF TmpInv
<1>7. GapInv'
  BY <1>1, <1>2 DEF GapInv
<1>8. NamedFileIsWhole' /\ NoEditLostOutsideGap'
  BY <1>1 DEF NamedFileIsWhole, NoEditLostOutsideGap
<1> QED
  BY <1>3, <1>4, <1>5, <1>6, <1>7, <1>8


\* Looking the path up records the inode it leads to.
LEMMA Resolves ==
    ASSUME AgentInv, NEW w \in Writers, resolveAgentMutationPath(w), named # 0
    PROVE  AgentInv'
<1> USE AgentAssumption DEF AgentInv, resolveAgentMutationPath, Keep
<1>1. /\ call'[w] \in Call /\ call'[w].op = call[w].op /\ call'[w].seen = named
      /\ call'[w].fd = call[w].fd /\ call'[w].read = call[w].read /\ call'[w].tmp = call[w].tmp
      /\ call' = [call EXCEPT ![w] = call'[w]]
      /\ step[w] = "resolve" /\ step' = [step EXCEPT ![w] = "open"] /\ step'[w] = "open"
  <2>1. call[w] \in Call /\ call'[w] = [call[w] EXCEPT !.seen = named]
    BY DEF Typed
  <2>2. named \in 0 .. MaxInodes
    BY DEF Typed, Inode
  <2> QED
    BY <2>1, <2>2, SetsSeen DEF Typed, Inode
<1>2. \A v \in Writers \ {w} : step'[v] = step[v] /\ call'[v] = call[v]
  BY <1>1 DEF Typed
<1>3. Typed'
  BY <1>1 DEF Typed, Inode, Steps
<1>4. \A v \in Writers : CallOK(v)'
  <2>1. CallOK(w)'
    BY <1>1 DEF CallOK, Locked, Preparing
  <2> QED
    BY <1>2, <2>1, CallFrame
<1>5. FlockInv'
  BY <1>1, <1>2 DEF FlockInv, CallOK, Locked, Typed
<1>6. TmpInv'
  BY <1>1, <1>2 DEF TmpInv, Preparing
<1>7. GapInv'
  BY <1>1, <1>2 DEF GapInv
<1>8. NamedFileIsWhole' /\ NoEditLostOutsideGap'
  BY <1>1 DEF NamedFileIsWhole, NoEditLostOutsideGap
<1> QED
  BY <1>3, <1>4, <1>5, <1>6, <1>7, <1>8


\* The inode opened is the one named at that moment, whatever the path led to before.
LEMMA Opens ==
    ASSUME AgentInv, NEW w \in Writers, OpenForMutation(w), named # 0
    PROVE  AgentInv'
<1> USE AgentAssumption DEF AgentInv, OpenForMutation, Keep
<1>1. /\ call'[w] \in Call /\ call'[w].op = call[w].op /\ call'[w].seen = call[w].seen
      /\ call'[w].fd = named /\ call'[w].read = call[w].read /\ call'[w].tmp = call[w].tmp
      /\ call' = [call EXCEPT ![w] = call'[w]]
      /\ step[w] = "open" /\ step' = [step EXCEPT ![w] = "lock"] /\ step'[w] = "lock" /\ named \in Inode
  <2>1. call[w] \in Call /\ call'[w] = [call[w] EXCEPT !.fd = named]
    BY DEF Typed
  <2>2. named \in 0 .. MaxInodes
    BY DEF Typed, Inode
  <2> QED
    BY <2>1, <2>2, SetsFd DEF Typed, Inode
<1>2. \A v \in Writers \ {w} : step'[v] = step[v] /\ call'[v] = call[v]
  BY <1>1 DEF Typed
<1>3. Typed'
  BY <1>1 DEF Typed, Inode, Steps
<1>4. \A v \in Writers : CallOK(v)'
  <2>1. CallOK(w)'
    BY <1>1 DEF CallOK, Locked, Preparing
  <2> QED
    BY <1>2, <2>1, CallFrame
<1>5. FlockInv'
  BY <1>1, <1>2 DEF FlockInv, CallOK, Locked, Typed
<1>6. TmpInv'
  BY <1>1, <1>2 DEF TmpInv, Preparing
<1>7. GapInv'
  BY <1>1, <1>2 DEF GapInv
<1>8. NamedFileIsWhole' /\ NoEditLostOutsideGap'
  BY <1>1 DEF NamedFileIsWhole, NoEditLostOutsideGap
<1> QED
  BY <1>3, <1>4, <1>5, <1>6, <1>7, <1>8


\* flock is granted on an inode nobody holds, so each inode has one holder.
LEMMA Locks ==
    ASSUME AgentInv, NEW w \in Writers, LockExclusive(w)
    PROVE  AgentInv'
<1> USE AgentAssumption DEF AgentInv, LockExclusive, Keep
<1>1. /\ call[w].fd \in Inode /\ flocked[call[w].fd] = NoOne
      /\ call'[w] = call[w] /\ step[w] = "lock" /\ step'[w] = "read"
  BY DEF Typed, CallOK
<1>2. \A v \in Writers \ {w} : step'[v] = step[v] /\ call'[v] = call[v]
  BY <1>1 DEF Typed
<1>3. Typed'
  BY <1>1 DEF Typed, Inode, Steps
<1>4. \A v \in Writers : CallOK(v)'
  <2>1. CallOK(w)'
    BY <1>1 DEF CallOK, Locked, Preparing
  <2> QED
    BY <1>2, <2>1, CallFrame
<1>5. FlockInv'
  BY <1>1, <1>2 DEF FlockInv, CallOK, Locked, Typed
<1>6. TmpInv'
  BY <1>1, <1>2 DEF TmpInv, Preparing
<1>7. GapInv'
  BY <1>1, <1>2 DEF GapInv
<1>8. NamedFileIsWhole' /\ NoEditLostOutsideGap'
  BY <1>1 DEF NamedFileIsWhole, NoEditLostOutsideGap
<1> QED
  BY <1>3, <1>4, <1>5, <1>6, <1>7, <1>8


\* The temporary file is an inode that no name, lock or open file refers to.
LEMMA Creates ==
    ASSUME AgentInv, NEW w \in Writers, CreateReplacement(w)
    PROVE  AgentInv'
<1> USE AgentAssumption DEF AgentInv, CreateReplacement, Keep
<1>1. /\ call'[w] \in Call /\ call'[w].op = call[w].op /\ call'[w].seen = call[w].seen
      /\ call'[w].fd = call[w].fd /\ call'[w].read = call[w].read /\ call'[w].tmp = made + 1
      /\ call' = [call EXCEPT ![w] = call'[w]]
      /\ step[w] = "fill" /\ step' = [step EXCEPT ![w] = "fill"] /\ step'[w] = "fill" /\ made + 1 \in Inode
  <2>1. call[w] \in Call /\ step'[w] = "fill" /\ call'[w] = [call[w] EXCEPT !.tmp = made + 1]
    BY DEF Typed
  <2>2. made + 1 \in 0 .. MaxInodes
    BY DEF Typed, Inode
  <2> QED
    BY <2>1, <2>2, SetsTmp DEF Typed, Inode
<1>2. \A v \in Writers \ {w} : step'[v] = step[v] /\ call'[v] = call[v]
  BY <1>1 DEF Typed
<1>3. Typed'
  BY <1>1 DEF Typed, Inode, Steps
<1>4. \A v \in Writers : CallOK(v)'
  <2>1. CallOK(w)'
    BY <1>1 DEF CallOK, Locked, Preparing
  <2> QED
    BY <1>2, <2>1, CallFrame
<1>5. FlockInv'
  BY <1>1, <1>2 DEF FlockInv, CallOK, Locked, Typed
<1>6. TmpInv'
  <2>1. /\ made \in Nat /\ made' = made + 1 /\ named \in 0 .. made /\ named' = named
        /\ \A v \in Writers : call[v].tmp \in Nat /\ call[v].tmp <= made
    BY DEF Typed, TmpInv, Call, Inode
  <2>2. ASSUME NEW v \in Writers, Preparing(v)', call'[v].tmp # 0
        PROVE  call'[v].tmp # named'
    <3>1. CASE v = w
      BY <1>1, <2>1, <3>1
    <3>2. CASE v # w
      BY <1>1, <1>2, <2>1, <2>2, <3>2 DEF TmpInv, Preparing
    <3> QED
      BY <3>1, <3>2
  <2>3. \A v \in Writers : call'[v].tmp <= made'
    BY <1>1, <1>2, <2>1
  <2>4. ASSUME NEW u \in Writers, NEW v \in Writers \ {u}, call'[u].tmp # 0
        PROVE  call'[u].tmp # call'[v].tmp
    BY <1>1, <1>2, <2>1, <2>4 DEF TmpInv
  <2> QED
    BY <2>2, <2>3, <2>4 DEF TmpInv
<1>7. GapInv'
  BY <1>1, <1>2 DEF GapInv, Typed
<1>8. NamedFileIsWhole' /\ NoEditLostOutsideGap'
  BY <1>1 DEF NamedFileIsWhole, NoEditLostOutsideGap
<1> QED
  BY <1>3, <1>4, <1>5, <1>6, <1>7, <1>8

\* The bytes are read: what the operation refuses is refused here.
LEMMA Reads ==
    ASSUME AgentInv, NEW w \in Writers, ReadLocked(w)
    PROVE  AgentInv'
<1> USE AgentAssumption DEF AgentInv
<1>1. UNCHANGED <<named, inodes, made, edited, inGap>>
  BY DEF ReadLocked
<1>2. CASE \E how : Finish(w, how)
  BY <1>1, <1>2, Finishing
<1>3. ASSUME named # 0, call[w].fd # named,
             flocked' = [flocked EXCEPT ![call[w].fd] = NoOne], Keep(w, "resolve"),
             call' = [call EXCEPT ![w] = [Idle EXCEPT !.op = call[w].op]], step[w] = "read"
      PROVE  AgentInv'
  <2> USE <1>1, <1>3
  <2>1. /\ call'[w] \in Call /\ call'[w].op = call[w].op /\ call'[w].tmp = 0
        /\ call' = [call EXCEPT ![w] = call'[w]] /\ call[w].op \in Op \ {"create"}
        /\ call[w].tmp = 0
    <3>1. call[w].op \in Op \ {"create"} /\ call[w].tmp = 0
      BY DEF CallOK
    <3>2. call'[w] = [Idle EXCEPT !.op = call[w].op] /\ call' = [call EXCEPT ![w] = call'[w]]
      BY DEF Typed
    <3> QED
      BY <3>1, <3>2, IdleTyped, SetsOp
  <2>2. \A v \in Writers \ {w} : step'[v] = step[v] /\ call'[v] = call[v]
    BY DEF Typed, Keep
  <2>3. step' = [step EXCEPT ![w] = "resolve"] /\ step'[w] = "resolve"
    BY DEF Typed, Keep
  <2>4. call[w].fd \in Inode
    BY DEF CallOK, Locked
  <2>5. Typed'
    BY <2>1, <2>3, <2>4 DEF Typed, Steps
  <2>6. \A v \in Writers : CallOK(v)'
    <3>1. CallOK(w)'
      BY <2>1, <2>3 DEF CallOK, Locked, Preparing
    <3> QED
      BY <2>2, <3>1, CallFrame
  <2>7. FlockInv'
    <3>1. flocked[call[w].fd] = w
      BY DEF FlockInv, Locked
    <3>2. ASSUME NEW v \in Writers, Locked(v)'
          PROVE  flocked'[call'[v].fd] = v
      <4>1. v # w
        BY <2>3, <3>2 DEF Locked
      <4>2. flocked[call[v].fd] = v /\ call[v].fd \in Inode
        BY <2>2, <3>2, <4>1 DEF FlockInv, Locked, CallOK
      <4> QED
        BY <2>2, <2>4, <3>1, <4>1, <4>2 DEF Typed
    <3>3. ASSUME NEW i \in Inode, flocked'[i] # NoOne
          PROVE  step'[flocked'[i]] # "idle"
      BY <2>2, <2>3, <2>4, <3>3 DEF FlockInv, Typed
    <3> QED
      BY <3>2, <3>3 DEF FlockInv
  <2>8. TmpInv'
    <3>1. \A v \in Writers : call'[v].tmp = call[v].tmp
      BY <2>1, <2>2
    <3>2. \A v \in Writers : Preparing(v)' => Preparing(v)
      BY <2>2, <2>3 DEF Preparing
    <3> QED
      BY <3>1, <3>2 DEF TmpInv
  <2>9. GapInv'
    BY <2>2, <2>3 DEF GapInv
  <2>10. NamedFileIsWhole' /\ NoEditLostOutsideGap'
    BY DEF NamedFileIsWhole, NoEditLostOutsideGap
  <2> QED
    BY <2>5, <2>6, <2>7, <2>8, <2>9, <2>10
<1>4. ASSUME call[w].fd = named, Accepts(w, call[w].op, inodes[named].blurbs),
             call' = [call EXCEPT ![w].read = inodes[named]], Keep(w, "fill"),
             UNCHANGED <<outcome, flocked>>, step[w] = "read"
      PROVE  AgentInv'
  <2> USE <1>1, <1>4
  <2>1. /\ call'[w] \in Call /\ call'[w].op = call[w].op /\ call'[w].read = inodes[named]
        /\ call'[w].fd = call[w].fd /\ call'[w].tmp = 0 /\ call' = [call EXCEPT ![w] = call'[w]]
        /\ call[w].tmp = 0 /\ call[w].op \in Op \ {"create"} /\ call[w].fd \in Inode
    <3>1. call[w].op \in Op \ {"create"} /\ call[w].tmp = 0 /\ call[w].fd \in Inode
      BY DEF CallOK, Locked
    <3>2. /\ call'[w] = [call[w] EXCEPT !.read = inodes[named]]
          /\ call' = [call EXCEPT ![w] = call'[w]]
      BY DEF Typed
    <3>3. call[w] \in Call /\ inodes[named] \in Content
      BY <3>1 DEF Typed
    <3> QED
      BY <3>1, <3>2, <3>3, SetsRead
  <2>2. \A v \in Writers \ {w} : step'[v] = step[v] /\ call'[v] = call[v]
    BY DEF Typed, Keep
  <2>3. step' = [step EXCEPT ![w] = "fill"] /\ step'[w] = "fill"
    BY DEF Typed, Keep
  <2>4. Typed'
    BY <2>1, <2>3 DEF Typed, Steps
  <2>5. \A v \in Writers : CallOK(v)'
    <3>1. CallOK(w)'
      BY <2>1, <2>3 DEF CallOK, Locked, Preparing
    <3> QED
      BY <2>2, <3>1, CallFrame
  <2>6. FlockInv'
    BY <2>1, <2>2, <2>3 DEF FlockInv, Locked, Typed
  <2>7. TmpInv'
    <3>1. \A v \in Writers : call'[v].tmp = call[v].tmp
      BY <2>1, <2>2
    <3>2. \A v \in Writers : Preparing(v)' /\ call'[v].tmp # 0 => Preparing(v)
      BY <2>1, <2>2, <2>3 DEF Preparing
    <3> QED
      BY <3>1, <3>2 DEF TmpInv
  <2>8. GapInv'
    BY <2>2, <2>3 DEF GapInv
  <2>9. NamedFileIsWhole' /\ NoEditLostOutsideGap'
    BY DEF NamedFileIsWhole, NoEditLostOutsideGap
  <2> QED
    BY <2>4, <2>5, <2>6, <2>7, <2>8, <2>9
<1> QED
  BY <1>2, <1>3, <1>4 DEF ReadLocked

\* The replacement is written: nobody else can see it.
LEMMA Writes ==
    ASSUME AgentInv, NEW w \in Writers, WriteReplacement(w)
    PROVE  AgentInv'
<1> USE AgentAssumption DEF AgentInv
<1>0. UNCHANGED <<named, flocked, made, call, outcome, edited, inGap>>
  BY DEF WriteReplacement
<1> USE <1>0
<1>1. /\ step[w] = "fill" /\ call[w].tmp # 0 /\ call[w].tmp \in Inode /\ call[w].tmp # named
      /\ inodes' = [inodes EXCEPT ![call[w].tmp] = Replacement(w)]
      /\ step' = [step EXCEPT ![w] = step'[w]] /\ step'[w] \in {"publish", "verify"}
      /\ (step'[w] = "publish" <=> call[w].op = "create")
      /\ call[w].op \in Op /\ call[w].read \in Content
  <2>1. /\ step[w] = "fill" /\ call[w].tmp # 0
        /\ inodes' = [inodes EXCEPT ![call[w].tmp] = Replacement(w)]
        /\ step' = [step EXCEPT ![w] = IF call[w].op = "create" THEN "publish" ELSE "verify"]
    BY DEF WriteReplacement, Replacement, Keep
  <2>2. call[w] \in Call
    BY DEF Typed
  <2>3. call[w].tmp \in Inode /\ call[w].read \in Content
    BY <2>1, <2>2 DEF Call, Inode
  <2>4. call[w].tmp # named
    BY <2>1 DEF TmpInv, Preparing
  <2>5. call[w].op \in Op
    BY <2>1 DEF CallOK
  <2> QED
    BY <2>1, <2>3, <2>4, <2>5 DEF Typed
<1>2. \A v \in Writers \ {w} : step'[v] = step[v] /\ call'[v] = call[v]
  BY <1>1 DEF Typed
<1>3. Replacement(w) \in Content
  <2>1. /\ call[w].read.blurbs \in Seq(Nat) /\ call[w].read.text \in SUBSET Edits
    BY <1>1 DEF Content
  <2>2. call[w].op # "create" => Accepts(w, call[w].op, call[w].read.blurbs)
    BY <1>1 DEF CallOK, Locked
  <2>3. NewBlurbs(w, call[w].op, call[w].read.blurbs) \in Seq(Nat)
    BY <1>1, <2>1, <2>2, NewBlurbsShort
  <2> QED
    BY <2>1, <2>3 DEF Replacement, Content
<1>4. Typed'
  BY <1>1, <1>3 DEF Typed, Steps
<1>5. \A v \in Writers : CallOK(v)'
  <2>1. CallOK(w)'
    <3>1. Replacement(w)' = Replacement(w)
      BY DEF Replacement
    <3>2. inodes'[call'[w].tmp] = Replacement(w)'
      BY <1>1, <3>1 DEF Typed
    <3> QED
      BY <1>1, <3>2 DEF CallOK, Locked, Preparing
  <2>2. ASSUME NEW v \in Writers \ {w}
        PROVE  inodes'[call[v].tmp] = inodes[call[v].tmp]
    <3>1. call[v].tmp # call[w].tmp
      BY <1>1 DEF TmpInv
    <3> QED
      BY <1>1, <3>1 DEF Typed
  <2> QED
    BY <1>2, <2>1, <2>2, CallFrame
<1>6. FlockInv'
  BY <1>1, <1>2 DEF FlockInv, Locked, Typed
<1>7. TmpInv'
  BY <1>1, <1>2 DEF TmpInv, Preparing
<1>8. named # 0 => inodes'[named] = inodes[named]
  BY <1>1 DEF Typed
<1>9. GapInv'
  <2>1. ASSUME NEW v \in Writers, step'[v] = "rename"
        PROVE  v # w /\ step[v] = "rename" /\ call[v].fd # 0
    BY <1>1, <1>2, <2>1 DEF CallOK, Locked, Inode
  <2> QED
    BY <1>1, <1>8, <2>1 DEF GapInv
<1>10. NamedFileIsWhole' /\ NoEditLostOutsideGap'
  BY <1>8 DEF NamedFileIsWhole, NoEditLostOutsideGap
<1> QED
  BY <1>4, <1>5, <1>6, <1>7, <1>9, <1>10

\* The name still leads to the bytes that were read: from here on only an editor
\* can change that, in the gap.
LEMMA Verifies ==
    ASSUME AgentInv, NEW w \in Writers, step[w] = "verify", Unchanged(call[w]),
           Keep(w, "rename"),
           UNCHANGED <<named, inodes, flocked, made, call, outcome, edited, inGap>>
    PROVE  AgentInv'
<1> USE DEF AgentInv, Keep
<1>1. /\ call[w].fd \in Inode /\ named = call[w].fd /\ inodes[named] = call[w].read
      /\ step'[w] = "rename" /\ \A v \in Writers \ {w} : step'[v] = step[v]
  BY DEF Typed, CallOK, Locked, Unchanged
<1>2. Typed'
  BY DEF Typed, Steps
<1>3. \A v \in Writers : CallOK(v)'
  <2>1. CallOK(w)'
    <3>1. Replacement(w)' = Replacement(w)
      BY DEF Replacement
    <3> QED
      BY <1>1, <3>1 DEF CallOK, Locked, Preparing
  <2> QED
    BY <1>1, <2>1, CallFrame
<1>4. FlockInv' /\ TmpInv'
  BY <1>1 DEF FlockInv, TmpInv, Locked, Preparing, Typed
<1>5. edited \ inGap \subseteq call[w].read.text
  BY <1>1 DEF NoEditLostOutsideGap, Inode
<1>6. GapInv'
  BY <1>1, <1>5 DEF GapInv
<1>7. NamedFileIsWhole' /\ NoEditLostOutsideGap'
  BY DEF NamedFileIsWhole, NoEditLostOutsideGap
<1> QED
  BY <1>2, <1>3, <1>4, <1>6, <1>7

\* The replacement becomes the file, over the verified one or where there was none.
LEMMA Publishes ==
    ASSUME AgentInv, NEW w \in Writers,
           \/ step[w] = "rename"
           \/ step[w] = "publish" /\ named = 0,
           named' = call[w].tmp, Keep(w, "check"),
           UNCHANGED <<inodes, flocked, made, call, outcome, edited, inGap>>
    PROVE  AgentInv'
<1> USE AgentAssumption DEF AgentInv, Keep
<1>1. /\ call[w].tmp \in Inode /\ call[w].tmp # 0 /\ call[w].tmp <= made
      /\ inodes[call[w].tmp] = Replacement(w) /\ call[w] \in Call /\ call[w].op \in Op
      /\ (call[w].op = "create" <=> step[w] = "publish")
      /\ step'[w] = "check" /\ \A v \in Writers \ {w} : step'[v] = step[v]
  <2>1. /\ call[w].tmp # 0 /\ inodes[call[w].tmp] = Replacement(w) /\ call[w].op \in Op
        /\ (call[w].op = "create" <=> step[w] = "publish")
    BY DEF CallOK, Op
  <2>2. call[w] \in Call /\ call[w].tmp <= made
    BY DEF Typed, TmpInv
  <2>3. call[w].tmp \in Inode
    BY <2>1, <2>2 DEF Call, Inode
  <2>4. step'[w] = "check" /\ \A v \in Writers \ {w} : step'[v] = step[v]
    BY DEF Typed
  <2> QED
    BY <2>1, <2>2, <2>3, <2>4
<1>2. Typed'
  BY <1>1 DEF Typed, Steps, Inode
<1>3. \A v \in Writers : CallOK(v)'
  <2>1. CallOK(w)'
    BY <1>1 DEF CallOK, Locked, Preparing
  <2> QED
    BY <1>1, <2>1, CallFrame
<1>4. FlockInv'
  BY <1>1 DEF FlockInv, Locked, Typed
<1>5. TmpInv'
  BY <1>1 DEF TmpInv, Preparing
<1>6. edited \ inGap \subseteq call[w].read.text
  BY <1>1 DEF GapInv
<1>7. ASSUME NEW v \in Writers \ {w}, step[v] = "rename"
      PROVE  edited \ inGap \subseteq call[v].read.text /\ inGap # {}
  <2>1. ASSUME inGap = {}
        PROVE  FALSE
    <3>1. named = call[v].fd /\ named # 0
      BY <1>7, <2>1 DEF GapInv, CallOK, Locked, Inode
    <3>2. step[w] = "rename"
      BY <3>1
    <3>3. named = call[w].fd
      BY <2>1, <3>2 DEF GapInv
    <3> QED
      BY <1>7, <3>1, <3>2, <3>3 DEF FlockInv, Locked
  <2> QED
    BY <1>7, <2>1 DEF GapInv
<1>8. GapInv'
  BY <1>1, <1>7 DEF GapInv
<1>9. inodes[named'].whole /\ Len(inodes[named'].blurbs) <= 1 /\ inodes[named'].text = call[w].read.text
  <2>1. call[w].read.blurbs \in Seq(Nat)
    BY <1>1 DEF Call, Content
  <2>2. call[w].op # "create" => Accepts(w, call[w].op, call[w].read.blurbs)
    BY <1>1 DEF CallOK, Locked
  <2>3. Len(NewBlurbs(w, call[w].op, call[w].read.blurbs)) <= 1
    BY <1>1, <2>1, <2>2, NewBlurbsShort
  <2> QED
    BY <1>1, <2>3 DEF Replacement
<1>10. NamedFileIsWhole' /\ NoEditLostOutsideGap'
  BY <1>6, <1>9 DEF NamedFileIsWhole, NoEditLostOutsideGap
<1> QED
  BY <1>2, <1>3, <1>4, <1>5, <1>8, <1>10

\* The editor saves in place or by renaming: the blurb stays as it is.
LEMMA Saves ==
    ASSUME AgentInv, NEW e \in Edits, EditorSaves(e)
    PROVE  /\ AgentInv'
           /\ named' # 0 /\ inodes'[named'].blurbs = inodes[named].blurbs
<1> USE AgentAssumption DEF AgentInv
<1>0. /\ UNCHANGED <<flocked, step, call, outcome>> /\ named # 0 /\ edited' = edited \cup {e}
      /\ inGap' = IF Gap THEN inGap \cup {e} ELSE inGap
  BY DEF EditorSaves
<1> USE <1>0
<1> DEFINE saved == [inodes[named] EXCEPT !.text = @ \cup {e}]
<1>1. named \in Inode /\ inodes[named] \in Content
  BY DEF Typed, Inode
<1>2. /\ saved \in Content /\ saved.text = inodes[named].text \cup {e}
      /\ saved.blurbs = inodes[named].blurbs /\ saved.whole = inodes[named].whole
  BY <1>1 DEF Content
<1> HIDE DEF saved
<1>3. /\ named' \in Inode /\ made' \in Inode /\ made <= made' /\ named' <= made'
      /\ inodes' = [inodes EXCEPT ![named'] = saved]
      /\ named' = named \/ named' > made
  <2>1. CASE inodes' = [inodes EXCEPT ![named] = saved] /\ UNCHANGED <<named, made>>
    BY <1>1, <2>1 DEF Typed, Inode
  <2>2. CASE /\ made < MaxInodes /\ made' = made + 1 /\ named' = made + 1
             /\ inodes' = [inodes EXCEPT ![made + 1] = saved]
    BY <2>2 DEF Typed, Inode
  <2> QED
    BY <2>1, <2>2 DEF EditorSaves, saved
<1>4. Typed'
  BY <1>2, <1>3 DEF Typed, Inode
<1>5. inodes'[named'] = saved
  BY <1>3 DEF Typed
<1>6. ASSUME NEW w \in Writers, Preparing(w), call[w].tmp # 0
      PROVE  call[w].tmp # named' /\ inodes'[call[w].tmp] = inodes[call[w].tmp]
  <2>1. call[w].tmp \in Inode /\ call[w].tmp <= made /\ call[w].tmp # named
    BY <1>6 DEF Typed, Call, Inode, TmpInv
  <2>2. call[w].tmp # named'
    BY <1>3, <2>1 DEF Inode, Typed
  <2> QED
    BY <1>3, <2>1, <2>2 DEF Typed
<1>7. \A w \in Writers : CallOK(w)'
  <2>1. ASSUME NEW w \in Writers, step[w] \in {"verify", "rename", "publish"}
        PROVE  inodes'[call[w].tmp] = inodes[call[w].tmp]
    BY <1>6, <2>1 DEF CallOK, Preparing
  <2> QED
    BY <2>1, CallFrame
<1>8. FlockInv'
  BY DEF FlockInv, Locked
<1>9. TmpInv'
  <2>1. \A w \in Writers : call[w].tmp <= made'
    BY <1>3 DEF TmpInv, Typed, Call, Inode
  <2> QED
    BY <1>6, <2>1 DEF TmpInv, Preparing
<1>10. GapInv'
  <2>1. ASSUME NEW w \in Writers, step[w] = "rename"
        PROVE  inGap' = inGap \cup {e}
    BY <2>1 DEF Gap
  <2> QED
    BY <1>3, <2>1 DEF GapInv, Inode
<1>11. NamedFileIsWhole' /\ NoEditLostOutsideGap'
  <2>1. inodes[named].whole /\ Len(inodes[named].blurbs) <= 1 /\ edited \ inGap \subseteq inodes[named].text
    BY DEF NamedFileIsWhole, NoEditLostOutsideGap
  <2>2. edited' \ inGap' \subseteq (edited \ inGap) \cup {e}
    OBVIOUS
  <2> QED
    BY <1>2, <1>5, <2>1, <2>2 DEF NamedFileIsWhole, NoEditLostOutsideGap
<1> QED
  BY <1>2, <1>3, <1>4, <1>5, <1>7, <1>8, <1>9, <1>10, <1>11 DEF Inode

\* Every step of a call keeps the invariant, one lemma above for each.
LEMMA AgentStepInv ==
    ASSUME AgentInv, NEW w \in Writers, AgentStep(w)
    PROVE  AgentInv'
<1>1. CASE resolveAgentMutationPath(w)
  BY <1>1, Resolves, Finishing DEF resolveAgentMutationPath
<1>2. CASE OpenForMutation(w)
  BY <1>2, Opens, Finishing DEF OpenForMutation
<1>3. CASE verifyUnchanged(w)
  BY <1>3, Verifies, Finishing DEF verifyUnchanged
<1>4. CASE commitAgentReplacement(w)
  BY <1>4, Publishes DEF commitAgentReplacement
<1>5. CASE publishAgentFileExclusive(w)
  <2>1. CASE named = 0
    BY <1>5, <2>1, Publishes DEF publishAgentFileExclusive
  <2>2. CASE named # 0
    BY <1>5, <2>2, Finishing DEF publishAgentFileExclusive
  <2> QED
    BY <2>1, <2>2
<1>6. CASE LockTimesOut(w) \/ CheckPublished(w) \/ AgentCrash(w)
  BY <1>6, Finishing DEF LockTimesOut, CheckPublished, AgentCrash
<1> QED
  BY <1>1, <1>2, <1>3, <1>4, <1>5, <1>6, Begins, Locks, Reads, Creates, Writes DEF AgentStep

\* So does every step of the system: calls, crashes, the editor's saves.
LEMMA AgentNextInv ==
    ASSUME AgentInv, [AgentNext]_agentVars
    PROVE  AgentInv'
<1>1. CASE UNCHANGED agentVars
  BY <1>1 DEF agentVars, AgentInv, Typed, CallOK, FlockInv, TmpInv, GapInv, Locked, Preparing,
              Replacement, NamedFileIsWhole, NoEditLostOutsideGap
<1> QED
  BY <1>1, AgentStepInv, Saves DEF AgentNext

\* The invariant holds of every behaviour: any number of bv processes of any versions,
\* crashes between any two system calls, and an editor that takes no lock.
THEOREM AgentInvariant == AgentSpec => []AgentInv
BY AgentInitInv, AgentNextInv, PTL DEF AgentSpec

\* The operations of pkg/agents keep their state well formed at any interleaving.
THEOREM AgentTypeCorrect == AgentSpec => []AgentTypeOK
<1>1. AgentInv => AgentTypeOK
  BY AgentAssumption DEF AgentInv, AgentTypeOK, Typed, Inode, Content, CallOK, FlockInv
<1> QED
  BY <1>1, AgentInvariant, PTL

(* However many bv processes and editor saves interleave, and wherever they die:*)
(* AGENTS.md is no file or a whole one with at most one blurb, and what the     *)
(* editor saves outside the gap before a rename stays in it.                    *)
THEOREM AgentsFileSurvivesHolds == AgentSpec => []AgentsFileSurvives
<1>1. AgentInv => AgentsFileSurvives
  BY DEF AgentInv, AgentsFileSurvives
<1> QED
  BY <1>1, AgentInvariant, PTL

-----------------------------------------------------------------------------
(* A step that changes the blurbs is a rename over the file it verified, under *)
(* the lock of that file: what Accepts refused there is refused for the name.  *)
LEMMA KeepsOrRaises ==
    ASSUME AgentInv, [AgentNext]_agentVars, named # 0, named' # 0, inGap = {},
           NEW k \in DOMAIN inodes[named].blurbs
    PROVE  \/ inodes'[named'].blurbs = <<>>
           \/ \E j \in DOMAIN inodes'[named'].blurbs :
                 inodes'[named'].blurbs[j] >= inodes[named].blurbs[k]
<1>1. inodes[named].blurbs \in Seq(Nat)
  BY AgentAssumption DEF AgentInv, Typed, Inode, Content
<1>2. inodes[named].blurbs[k] \in Nat
  BY <1>1
<1>3. CASE inodes'[named'].blurbs = inodes[named].blurbs
  BY <1>2, <1>3
<1>4. ASSUME NEW w \in Writers, AgentStep(w), inodes'[named'].blurbs # inodes[named].blurbs
      PROVE  commitAgentReplacement(w)
  <2>1. CASE WriteReplacement(w)
    <3>1. call[w].tmp # named
      BY <2>1 DEF WriteReplacement, AgentInv, TmpInv, Preparing
    <3> QED
      BY <1>4, <2>1, <3>1 DEF WriteReplacement, AgentInv, Typed, Inode
  <2>2. CASE publishAgentFileExclusive(w)
    BY <1>4, <2>2 DEF publishAgentFileExclusive
  <2> QED
    BY <1>4, <2>1, <2>2 DEF AgentStep, Begin, resolveAgentMutationPath, OpenForMutation, LockExclusive,
       LockTimesOut, ReadLocked, CreateReplacement, verifyUnchanged, CheckPublished, AgentCrash
<1>5. ASSUME NEW w \in Writers, commitAgentReplacement(w)
      PROVE  \/ inodes'[named'].blurbs = <<>>
             \/ \E j \in DOMAIN inodes'[named'].blurbs :
                   inodes'[named'].blurbs[j] >= inodes[named].blurbs[k]
  <2> DEFINE blurbs == inodes[named].blurbs
             op == call[w].op
  <2>1. step[w] = "rename" /\ named' = call[w].tmp /\ inodes' = inodes
    BY <1>5 DEF commitAgentReplacement
  <2>2. inodes[named] = call[w].read
    BY <2>1 DEF AgentInv, GapInv
  <2>3. /\ inodes'[named'].blurbs = NewBlurbs(w, op, blurbs)
        /\ Accepts(w, op, blurbs) /\ op \in {"append", "update", "remove"}
    <3>1. inodes[call[w].tmp] = Replacement(w) /\ op \in Op \ {"create"} /\ Accepts(w, op, call[w].read.blurbs)
      BY <2>1 DEF AgentInv, CallOK, Locked
    <3>2. Replacement(w).blurbs = NewBlurbs(w, op, call[w].read.blurbs)
      BY DEF Replacement
    <3> QED
      BY <2>1, <2>2, <3>1, <3>2 DEF Op
  <2>4. CASE op = "append"
    BY <1>1, <2>3, <2>4 DEF Accepts
  <2>5. CASE op = "update"
    <3>1. Version[w] \in Nat /\ ~(blurbs[k] > Version[w])
      BY <2>3, <2>5, AgentAssumption DEF Accepts, Future
    <3>2. inodes'[named'].blurbs = <<Version[w]>>
      BY <2>3, <2>5 DEF NewBlurbs
    <3>3. 1 \in DOMAIN inodes'[named'].blurbs /\ inodes'[named'].blurbs[1] >= blurbs[k]
      BY <1>2, <3>1, <3>2
    <3> QED
      BY <3>3
  <2>6. CASE op = "remove"
    BY <2>3, <2>6 DEF NewBlurbs
  <2> QED
    BY <2>3, <2>4, <2>5, <2>6
<1>6. CASE UNCHANGED agentVars
  BY <1>3, <1>6 DEF agentVars
<1>7. ASSUME NEW e \in Edits, EditorSaves(e)
      PROVE  inodes'[named'].blurbs = inodes[named].blurbs
  BY <1>7, Saves
<1> QED
  BY <1>3, <1>4, <1>5, <1>6, <1>7 DEF AgentNext

(* As long as no editor hits the gap, no run of an older bv puts its blurb in the*)
(* place of a newer one, whatever it decided before it held the lock.            *)
THEOREM NoDowngradeHolds == AgentSpec => NoDowngrade
<1> DEFINE Keeps ==
       named # 0 /\ named' # 0 /\ inGap = {} =>
          \A k \in DOMAIN inodes[named].blurbs :
              inodes'[named'].blurbs = <<>> \/
              \E j \in DOMAIN inodes'[named'].blurbs :
                  inodes'[named'].blurbs[j] >= inodes[named].blurbs[k]
<1>1. AgentInv /\ [AgentNext]_agentVars => [Keeps]_agentVars
  BY KeepsOrRaises
<1> QED
  BY <1>1, AgentInvariant, PTL DEF AgentSpec, NoDowngrade

-----------------------------------------------------------------------------
(* The instance lock.  IInv adds to the type invariant who may hold the    *)
(* path: before any takeover the processes that created, own or are about  *)
(* to remove the lock are exactly its creator, and at any time the creator *)
(* of the file is in a stage from which a clean exit tries to remove it, or*)
(* has tried in vain.                                                      *)
Claims(p) == isFirst[p] \/ pc[p] \in {"writing", "removing"}

ClaimsAreTheFile == renamed = {} => \A p \in Proc : Claims(p) => file.by = p

Staging ==
    \A p \in Proc : /\ pc[p] = "verify" => p \in renamed
                    /\ pc[p] \in {"start", "writing"} => ~isFirst[p]

CreatorWillRemove ==
    \A p \in Proc : file.by = p =>
        /\ \/ pc[p] \in {"writing", "verify", "running", "removing", "crashed"}
           \/ pc[p] \in {"exited", "failed"} /\ p \in unremoved
        /\ pc[p] = "verify" => file.readable
        /\ pc[p] = "running" => isFirst[p] /\ pid[p] = p /\ file.readable

IInv == TypeOK /\ ClaimsAreTheFile /\ Staging /\ CreatorWillRemove

\* Every reachable state satisfies the type invariant: the lock path holds one
\* well-formed lock file or none, and every Lock field is a pid or "unknown".
THEOREM TypeCorrect == Spec => []TypeOK
<1>1. Init => TypeOK
  BY NoProcAssumption DEF Init, TypeOK, Stages, LockFile, NoFile
<1>2. TypeOK /\ [Next]_vars => TypeOK'
  <2> SUFFICES ASSUME TypeOK, [Next]_vars PROVE TypeOK'
    OBVIOUS
  <2> USE NoProcAssumption DEF TypeOK, Stages, LockFile, NoFile, Goto
  <2>1. ASSUME NEW p \in Proc, CreateExclusive(p) PROVE TypeOK'
    <3>1. CASE /\ file' = [by |-> p, readable |-> FALSE, aged |-> FALSE]
               /\ Goto(p, "writing")
      <4>1. file' \in LockFile
        BY <3>1
      <4> QED
        BY <2>1, <3>1, <4>1 DEF CreateExclusive
    <3>2. CASE Goto(p, "peek") /\ UNCHANGED file
      BY <2>1, <3>2 DEF CreateExclusive
    <3> QED
      BY <2>1, <3>1, <3>2 DEF CreateExclusive
  <2>2. ASSUME NEW p \in Proc, WriteLockInfo(p) PROVE TypeOK'
    <3>1. CASE file.by = p
      <4>1. file \in LockFile /\ file' = [file EXCEPT !.readable = TRUE]
        BY <2>2, <3>1 DEF WriteLockInfo
      <4>2. file' \in LockFile
        BY <4>1
      <4> QED
        BY <2>2, <4>2 DEF WriteLockInfo
    <3>2. CASE file.by # p
      BY <2>2, <3>2 DEF WriteLockInfo
    <3> QED
      BY <3>1, <3>2
  <2>3. ASSUME NEW p \in Proc, ReadExisting(p) PROVE TypeOK'
    BY <2>3 DEF ReadExisting
  <2>4. ASSUME NEW p \in Proc, Reread(p) PROVE TypeOK'
    BY <2>4 DEF Reread
  <2>5. ASSUME NEW p \in Proc, CheckHolder(p) PROVE TypeOK'
    BY <2>5 DEF CheckHolder
  <2>6. ASSUME NEW p \in Proc, StatUnreadable(p) PROVE TypeOK'
    BY <2>6 DEF StatUnreadable
  <2>7. ASSUME NEW p \in Proc, Rename(p) PROVE TypeOK'
    BY <2>7 DEF Rename
  <2>8. ASSUME NEW p \in Proc, Verify(p) PROVE TypeOK'
    BY <2>8 DEF Verify
  <2>9. ASSUME NEW p \in Proc, WriteLockInfoFails(p) PROVE TypeOK'
    BY <2>9 DEF WriteLockInfoFails, RemovePath
  <2>10. ASSUME NEW p \in Proc, TakeOverFails(p) PROVE TypeOK'
    BY <2>10 DEF TakeOverFails
  <2>11. ASSUME NEW p \in Proc, Release(p) PROVE TypeOK'
    BY <2>11 DEF Release
  <2>12. ASSUME NEW p \in Proc, Remove(p) PROVE TypeOK'
    BY <2>12 DEF Remove, RemovePath
  <2>13. ASSUME NEW p \in Proc, Crash(p) PROVE TypeOK'
    BY <2>13 DEF Crash
  <2>14. CASE Age
    BY <2>14 DEF Age
  <2>15. CASE UNCHANGED vars
    BY <2>15 DEF vars
  <2> QED
    BY <2>1, <2>2, <2>3, <2>4, <2>5, <2>6, <2>7, <2>8, <2>9, <2>10, <2>11, <2>12, <2>13, <2>14, <2>15
       DEF Next, NewLock
<1> QED
  BY <1>1, <1>2, PTL DEF Spec

\* The strengthened invariant is inductive.
LEMMA Inductive == Spec => []IInv
<1>1. Init => IInv
  BY NoProcAssumption DEF Init, IInv, TypeOK, Stages, LockFile, NoFile,
     ClaimsAreTheFile, Claims, Staging, CreatorWillRemove
<1>2. IInv /\ [Next]_vars => (ClaimsAreTheFile /\ Staging /\ CreatorWillRemove)'
  <2> SUFFICES ASSUME IInv, [Next]_vars
               PROVE  (ClaimsAreTheFile /\ Staging /\ CreatorWillRemove)'
    OBVIOUS
  <2> USE NoProcAssumption
          DEF IInv, TypeOK, Stages, LockFile, NoFile, Goto,
              ClaimsAreTheFile, Claims, Staging, CreatorWillRemove
  <2>1. ASSUME NEW p \in Proc, NewLock(p)
        PROVE  (ClaimsAreTheFile /\ Staging /\ CreatorWillRemove)'
    <3>1. CASE CreateExclusive(p)
      <4>1. CASE /\ file = NoFile
                 /\ file' = [by |-> p, readable |-> FALSE, aged |-> FALSE]
                 /\ Goto(p, "writing")
        <5>1. \A q \in Proc : file.by # q
          BY <4>1
        <5>2. file'.by = p
          BY <4>1
        <5> QED
          BY <3>1, <4>1, <5>1, <5>2 DEF CreateExclusive
      <4>2. CASE Goto(p, "peek") /\ UNCHANGED file
        BY <3>1, <4>2 DEF CreateExclusive
      <4> QED
        BY <3>1, <4>1, <4>2 DEF CreateExclusive
    <3>2. CASE WriteLockInfo(p)
      <4>1. file'.by = file.by
        BY <3>2 DEF WriteLockInfo
      <4>2. file.by = p => file'.readable
        BY <3>2 DEF WriteLockInfo
      <4> QED
        BY <3>2, <4>1, <4>2 DEF WriteLockInfo
    <3>3. CASE ReadExisting(p)       BY <3>3 DEF ReadExisting
    <3>4. CASE Reread(p)             BY <3>4 DEF Reread
    <3>5. CASE CheckHolder(p)        BY <3>5 DEF CheckHolder
    <3>6. CASE StatUnreadable(p)     BY <3>6 DEF StatUnreadable
    <3>7. CASE Rename(p)             BY <3>7 DEF Rename
    <3>8. CASE Verify(p)             BY <3>8 DEF Verify
    <3> QED  BY <2>1, <3>1, <3>2, <3>3, <3>4, <3>5, <3>6, <3>7, <3>8 DEF NewLock
  <2>2. ASSUME NEW p \in Proc, WriteLockInfoFails(p)
        PROVE  (ClaimsAreTheFile /\ Staging /\ CreatorWillRemove)'
    BY <2>2 DEF WriteLockInfoFails, RemovePath
  <2>3. ASSUME NEW p \in Proc, TakeOverFails(p)
        PROVE  (ClaimsAreTheFile /\ Staging /\ CreatorWillRemove)'
    BY <2>3 DEF TakeOverFails
  <2>4. ASSUME NEW p \in Proc, Release(p)
        PROVE  (ClaimsAreTheFile /\ Staging /\ CreatorWillRemove)'
    BY <2>4 DEF Release, ownsCurrentLockFile
  <2>5. ASSUME NEW p \in Proc, Remove(p)
        PROVE  (ClaimsAreTheFile /\ Staging /\ CreatorWillRemove)'
    BY <2>5 DEF Remove, RemovePath
  <2>6. ASSUME NEW p \in Proc, Crash(p)
        PROVE  (ClaimsAreTheFile /\ Staging /\ CreatorWillRemove)'
    BY <2>6 DEF Crash, isProcessAlive, Gone
  <2>7. CASE Age
    BY <2>7 DEF Age
  <2>8. CASE UNCHANGED vars
    BY <2>8 DEF vars
  <2> QED
    BY <2>1, <2>2, <2>3, <2>4, <2>5, <2>6, <2>7, <2>8 DEF Next
<1> QED
  BY <1>1, <1>2, TypeCorrect, PTL DEF Spec, IInv

\* Before the first takeover at most one process is primary, whatever crashes,
\* failed writes and releases happen and however many processes there are.
THEOREM OnePrimary == Spec => []OnePrimaryUntilTakeover
<1>1. IInv => OnePrimaryUntilTakeover
  BY DEF IInv, ClaimsAreTheFile, Claims, OnePrimaryUntilTakeover, AtMostOnePrimary
<1> QED
  BY <1>1, Inductive, PTL

\* A process that has exited, or whose NewLock has failed, is never the creator
\* of the file at the lock path unless its removal failed: nothing but a crash and
\* that leaves a stale lock.
THEOREM NoLockLeftBehind == Spec => []CleanExitLeavesNoLock
<1>1. IInv => CleanExitLeavesNoLock
  BY DEF IInv, CreatorWillRemove, CleanExitLeavesNoLock
<1> QED
  BY <1>1, Inductive, PTL

-----------------------------------------------------------------------------
(* The updater keeps its word, whatever the number of runs and of file     *)
(* operations that fail.                                                   *)
(* What a run may rely on in each of its phases: the binary it was started *)
(* from or its backup, the download once it is verified, and for a rollback*)
(* the file it set aside.                                                  *)

\* The four copies that stand in for a rename that failed.
BackupCopy == [from |-> "binary", to |-> "backup", then |-> "install", else |-> "failed"]
InstallCopy == [from |-> "download", to |-> "binary", then |-> "updated", else |-> "restore"]
RestoreCopy == [from |-> "backup", to |-> "binary", then |-> "restored", else |-> "unrestored"]
PutBackCopy == [from |-> "backup", to |-> "binary", then |-> "cleanUp", else |-> "undo"]

CopyingOne ==
    IF phase = "copy" THEN copying \in {BackupCopy, InstallCopy, RestoreCopy, PutBackCopy}
    ELSE copying = NotCopying

\* Only a torn copy leaves a backup that is not the old binary.
BackupIsOld ==
    ~torn => \/ files["backup"] \in {"none", "old"}
             \/ phase = "copy" /\ copying = BackupCopy

Updating ==
    /\ phase \in {"fetch", "verify", "backup"} => files["binary"] = "old" /\ ~moved
    /\ phase \in {"backup", "install"} => files["download"] = "new"
    /\ phase = "install" => files["backup"] = "old" /\ (~moved => files["binary"] = "old")
    /\ phase = "restore" => files["backup"] = "old"
    /\ phase = "copy" =>
          /\ copying = BackupCopy => files["binary"] = "old" /\ files["download"] = "new"
          /\ copying = InstallCopy => files["backup"] = "old" /\ files["download"] = "new"
          /\ copying = RestoreCopy => files["backup"] = "old"

RollingBack ==
    /\ phase = "aside" => Works(files["binary"]) /\ ~moved
    /\ phase \in {"aside", "putBack", "undo"} => (~torn => files["backup"] = "old")
    /\ phase = "copy" /\ copying = PutBackCopy => (~torn => files["backup"] = "old")
    /\ phase = "putBack" => IF moved THEN Works(files["bad"]) ELSE Works(files["binary"])
    /\ phase = "cleanUp" => (~torn => Works(files["binary"]))

UpdInv ==
    UpdTypeOK /\ CopyingOne /\ BackupIsOld /\ Updating /\ RollingBack /\ UpdatesKeepTheirWord

\* The four copies the updater makes can be told apart by where they are from and go to.
LEMMA CopiesDiffer ==
    /\ BackupCopy # InstallCopy /\ BackupCopy # RestoreCopy /\ BackupCopy # PutBackCopy
    /\ InstallCopy # RestoreCopy /\ InstallCopy # PutBackCopy /\ RestoreCopy # PutBackCopy
    /\ NotCopying \notin {BackupCopy, InstallCopy, RestoreCopy, PutBackCopy}
<1>1. /\ BackupCopy.then = "install" /\ InstallCopy.then = "updated"
      /\ RestoreCopy.then = "restored" /\ PutBackCopy.then = "cleanUp" /\ NotCopying.then = "none"
  BY DEF BackupCopy, InstallCopy, RestoreCopy, PutBackCopy, NotCopying
<1> QED
  BY <1>1

\* Before the first update there is the old binary and nothing else.
LEMMA UpdInitInv == ASSUME UpdInit PROVE UpdInv
<1> USE DEF UpdInit, Places, Contents
<1>1. UpdTypeOK
  BY DEF UpdTypeOK, Phases
<1>2. CopyingOne /\ BackupIsOld /\ Updating /\ RollingBack
  BY DEF CopyingOne, BackupIsOld, Updating, RollingBack
<1>3. UpdatesKeepTheirWord
  BY DEF UpdatesKeepTheirWord, RecoverableBinary, OutcomeIsTrue, Works
<1> QED
  BY <1>1, <1>2, <1>3 DEF UpdInv

\* copyFile opens its target, which is torn until the copy ends.
CopyBegins(fs, to, copy) ==
    /\ files' = [fs EXCEPT ![to] = "partial"] /\ copying' = copy /\ phase' = "copy"
    /\ UNCHANGED <<result, runs, torn>>

\* What the four copies are.
LEMMA CopyFields ==
    /\ BackupCopy.from = "binary" /\ BackupCopy.to = "backup"
    /\ BackupCopy.then = "install" /\ BackupCopy.else = "failed"
    /\ InstallCopy.from = "download" /\ InstallCopy.to = "binary"
    /\ InstallCopy.then = "updated" /\ InstallCopy.else = "restore"
    /\ RestoreCopy.from = "backup" /\ RestoreCopy.to = "binary"
    /\ RestoreCopy.then = "restored" /\ RestoreCopy.else = "unrestored"
    /\ PutBackCopy.from = "backup" /\ PutBackCopy.to = "binary"
    /\ PutBackCopy.then = "cleanUp" /\ PutBackCopy.else = "undo"
    /\ NotCopying.to = "none"
BY DEF BackupCopy, InstallCopy, RestoreCopy, PutBackCopy, NotCopying

\* Only the copy that makes the backup writes to the backup's path.
LEMMA BackupTarget ==
    ASSUME CopyingOne
    PROVE  copying.to = "backup" <=> phase = "copy" /\ copying = BackupCopy
BY CopyFields, CopiesDiffer DEF CopyingOne

\* The four steps that fall back on a copy, its target truncated.
LEMMA BackUpAs ==
    ASSUME BackUp
    PROVE  /\ phase = "backup"
           /\ \/ files' = Moved(files, "binary", "backup") /\ moved' = TRUE /\ UpdGoto("install")
              \/ CopyBegins(files, "backup", BackupCopy) /\ UNCHANGED moved
BY DEF BackUp, StartCopy, CopyBegins, BackupCopy

\* performUpdate installs the download by a rename or, should that fail, by a copy.
LEMMA InstallAs ==
    ASSUME Install
    PROVE  /\ phase = "install" /\ UNCHANGED moved
           /\ \/ files' = Moved(files, "download", "binary") /\ End("updated")
              \/ moved /\ CopyBegins(files, "binary", InstallCopy)
              \/ ~moved /\ CopyBegins(Removed(files, "binary"), "binary", InstallCopy)
BY DEF Install, StartCopy, CopyBegins, InstallCopy

\* A failed installation brings the backup back by a rename or a copy.
LEMMA RestoreAs ==
    ASSUME Restore
    PROVE  /\ phase = "restore" /\ UNCHANGED moved
           /\ \/ files' = Moved(files, "backup", "binary") /\ End("restored")
              \/ CopyBegins(files, "binary", RestoreCopy)
BY DEF Restore, StartCopy, CopyBegins, RestoreCopy

\* Rollback puts the backup in the binary's place by a rename or a copy.
LEMMA PutBackAs ==
    ASSUME PutBack
    PROVE  /\ phase = "putBack" /\ UNCHANGED moved
           /\ \/ files' = Moved(files, "backup", "binary") /\ UpdGoto("cleanUp")
              \/ moved /\ CopyBegins(files, "binary", PutBackCopy)
              \/ ~moved /\ CopyBegins(Removed(files, "binary"), "binary", PutBackCopy)
BY DEF PutBack, StartCopy, CopyBegins, PutBackCopy

\* How each of the four copies ends.
LEMMA CopyDoneAs ==
    ASSUME UpdInv, CopyDone
    PROVE  /\ phase = "copy" /\ copying' = NotCopying /\ UNCHANGED <<moved, torn>>
           /\ \/ /\ copying = BackupCopy /\ files' = [files EXCEPT !["backup"] = files["binary"]]
                 /\ phase' = "install" /\ UNCHANGED result
              \/ /\ copying = InstallCopy /\ files' = [files EXCEPT !["binary"] = files["download"]]
                 /\ phase' = "idle" /\ result' = "updated"
              \/ /\ copying = RestoreCopy /\ files' = [files EXCEPT !["binary"] = files["backup"]]
                 /\ phase' = "idle" /\ result' = "restored"
              \/ /\ copying = PutBackCopy /\ files' = [files EXCEPT !["binary"] = files["backup"]]
                 /\ phase' = "cleanUp" /\ UNCHANGED result
<1> USE CopyFields DEF CopyDone, Leave, Outcomes
<1>1. CASE copying = BackupCopy
  BY <1>1
<1>2. CASE copying = InstallCopy
  BY <1>2
<1>3. CASE copying = RestoreCopy
  BY <1>3
<1>4. CASE copying = PutBackCopy
  BY <1>4
<1> QED
  BY <1>1, <1>2, <1>3, <1>4 DEF UpdInv, CopyingOne

\* What follows a copy that fails depends on which of the four it was.
LEMMA CopyFailsAs ==
    ASSUME UpdInv, CopyFails
    PROVE  /\ phase = "copy" /\ copying' = NotCopying /\ UNCHANGED <<files, moved>>
           /\ torn' = (torn \/ copying = BackupCopy)
           /\ \/ copying = BackupCopy /\ phase' = "idle" /\ result' = "failed"
              \/ copying = InstallCopy /\ phase' = "restore" /\ UNCHANGED result
              \/ copying = RestoreCopy /\ phase' = "idle" /\ result' = "unrestored"
              \/ copying = PutBackCopy /\ phase' = "undo" /\ UNCHANGED result
<1> USE CopyFields, BackupTarget DEF CopyFails, Leave, Outcomes, UpdInv
<1>1. CASE copying = BackupCopy
  BY <1>1
<1>2. CASE copying = InstallCopy
  BY <1>2
<1>3. CASE copying = RestoreCopy
  BY <1>3
<1>4. CASE copying = PutBackCopy
  BY <1>4
<1> QED
  BY <1>1, <1>2, <1>3, <1>4 DEF UpdInv, CopyingOne

\* The counters, the flags and the outcome have their types.
LEMMA UpdCounts ==
    ASSUME UpdInv, [UpdNext]_updVars
    PROVE  faults' \in Nat /\ runs' \in Nat
<1> USE DEF UpdInv, UpdTypeOK, Fault, Fine, UpdGoto, End, StartCopy
<1>1. CASE BeginUpdate
  BY <1>1 DEF BeginUpdate
<1>2. CASE Fetch
  BY <1>2 DEF Fetch
<1>3. CASE VerifyDownload
  BY <1>3 DEF VerifyDownload, verifyBinaryVersion
<1>4. CASE BackUp
  BY <1>4 DEF BackUp
<1>5. CASE Install
  BY <1>5 DEF Install
<1>6. CASE Restore
  BY <1>6 DEF Restore
<1>7. CASE BeginRollback
  BY <1>7 DEF BeginRollback, BackupExists
<1>8. CASE SetAside
  BY <1>8 DEF SetAside
<1>9. CASE PutBack
  BY <1>9 DEF PutBack
<1>10. CASE Undo
  <2>1. Fine \/ Fault
    BY <1>10 DEF Undo
  <2>2. UNCHANGED runs
    BY <1>10 DEF Undo, End
  <2> QED
    BY <2>1, <2>2 DEF Undo, Fine, Fault
<1>11. CASE CleanUp
  <2>1. Fine \/ Fault
    BY <1>11 DEF CleanUp
  <2>2. UNCHANGED runs
    BY <1>11 DEF CleanUp, End
  <2> QED
    BY <2>1, <2>2 DEF CleanUp, Fine, Fault
<1>12. CASE CopyDone
  BY <1>12 DEF CopyDone
<1>13. CASE CopyFails
  BY <1>13 DEF CopyFails
<1>14. CASE UpdateCrashes
  BY <1>14 DEF UpdateCrashes
<1>15. CASE UNCHANGED updVars
  BY <1>15 DEF updVars
<1> QED
  BY <1>1, <1>2, <1>3, <1>4, <1>5, <1>6, <1>7, <1>8, <1>9, <1>10, <1>11, <1>12, <1>13, <1>14,
     <1>15 DEF UpdNext

\* No step reports an outcome the code does not have.
LEMMA UpdResults ==
    ASSUME UpdInv, [UpdNext]_updVars
    PROVE  /\ moved' \in BOOLEAN /\ torn' \in BOOLEAN
           /\ result' \in Outcomes \cup {"none", "crashed"}
<1> USE DEF UpdInv, UpdTypeOK, Outcomes, UpdGoto, End, StartCopy, Leave
<1>1. CASE BeginUpdate
  BY <1>1 DEF BeginUpdate
<1>2. CASE Fetch
  BY <1>2 DEF Fetch
<1>3. CASE VerifyDownload
  BY <1>3 DEF VerifyDownload, verifyBinaryVersion
<1>4. CASE BackUp
  BY <1>4 DEF BackUp
<1>5. CASE Install
  BY <1>5 DEF Install
<1>6. CASE Restore
  BY <1>6 DEF Restore
<1>7. CASE BeginRollback
  BY <1>7 DEF BeginRollback, BackupExists
<1>8. CASE SetAside
  BY <1>8 DEF SetAside
<1>9. CASE PutBack
  BY <1>9 DEF PutBack
<1>10. CASE Undo
  BY <1>10 DEF Undo
<1>11. CASE CleanUp
  BY <1>11 DEF CleanUp
<1>12. CASE CopyDone
  BY <1>12 DEF CopyDone
<1>13. CASE CopyFails
  BY <1>13 DEF CopyFails
<1>14. CASE UpdateCrashes
  BY <1>14 DEF UpdateCrashes
<1>15. CASE UNCHANGED updVars
  BY <1>15 DEF updVars
<1> QED
  BY <1>1, <1>2, <1>3, <1>4, <1>5, <1>6, <1>7, <1>8, <1>9, <1>10, <1>11, <1>12, <1>13, <1>14,
     <1>15 DEF UpdNext

\* No step puts anything but a binary, or a part of one, at the four paths.
LEMMA UpdFiles ==
    ASSUME UpdInv, [UpdNext]_updVars
    PROVE  files' \in [Places -> Contents]
<1> USE DEF UpdInv, UpdTypeOK, Places, Contents, Moved, Removed
<1>1. CASE BeginUpdate
  BY <1>1 DEF BeginUpdate
<1>2. CASE Fetch
  BY <1>2 DEF Fetch
<1>3. CASE VerifyDownload
  BY <1>3 DEF VerifyDownload, verifyBinaryVersion
<1>4. CASE BackUp
  BY <1>4, BackUpAs, CopiesDiffer DEF CopyBegins
<1>5. CASE Install
  BY <1>5, InstallAs, CopiesDiffer DEF CopyBegins
<1>6. CASE Restore
  BY <1>6, RestoreAs, CopiesDiffer DEF CopyBegins
<1>7. CASE BeginRollback
  BY <1>7 DEF BeginRollback, BackupExists
<1>8. CASE SetAside
  BY <1>8 DEF SetAside
<1>9. CASE PutBack
  BY <1>9, PutBackAs, CopiesDiffer DEF CopyBegins
<1>10. CASE Undo
  BY <1>10 DEF Undo
<1>11. CASE CleanUp
  BY <1>11 DEF CleanUp
<1>12. CASE CopyDone
  BY <1>12, CopyDoneAs, CopiesDiffer
<1>13. CASE CopyFails
  BY <1>13, CopyFailsAs, CopiesDiffer
<1>14. CASE UpdateCrashes
  BY <1>14, BackupTarget DEF UpdateCrashes
<1>15. CASE UNCHANGED updVars
  BY <1>15 DEF updVars
<1> QED
  BY <1>1, <1>2, <1>3, <1>4, <1>5, <1>6, <1>7, <1>8, <1>9, <1>10, <1>11, <1>12, <1>13, <1>14,
     <1>15 DEF UpdNext

\* A copy is under way exactly in the phase for it, and it is one of the four.
LEMMA UpdCopying ==
    ASSUME UpdInv, [UpdNext]_updVars
    PROVE  phase' \in Phases /\ CopyingOne'
<1> USE DEF UpdInv, UpdTypeOK, CopyingOne, Phases, UpdGoto, End
<1>1. CASE BeginUpdate
  BY <1>1 DEF BeginUpdate
<1>2. CASE Fetch
  BY <1>2 DEF Fetch
<1>3. CASE VerifyDownload
  BY <1>3 DEF VerifyDownload, verifyBinaryVersion
<1>4. CASE BackUp
  BY <1>4, BackUpAs, CopiesDiffer DEF CopyBegins
<1>5. CASE Install
  BY <1>5, InstallAs, CopiesDiffer DEF CopyBegins
<1>6. CASE Restore
  BY <1>6, RestoreAs, CopiesDiffer DEF CopyBegins
<1>7. CASE BeginRollback
  BY <1>7 DEF BeginRollback, BackupExists
<1>8. CASE SetAside
  BY <1>8 DEF SetAside
<1>9. CASE PutBack
  BY <1>9, PutBackAs, CopiesDiffer DEF CopyBegins
<1>10. CASE Undo
  BY <1>10 DEF Undo
<1>11. CASE CleanUp
  BY <1>11 DEF CleanUp
<1>12. CASE CopyDone
  BY <1>12, CopyDoneAs, CopiesDiffer
<1>13. CASE CopyFails
  BY <1>13, CopyFailsAs, CopiesDiffer
<1>14. CASE UpdateCrashes
  BY <1>14, BackupTarget DEF UpdateCrashes
<1>15. CASE UNCHANGED updVars
  BY <1>15 DEF updVars
<1> QED
  BY <1>1, <1>2, <1>3, <1>4, <1>5, <1>6, <1>7, <1>8, <1>9, <1>10, <1>11, <1>12, <1>13, <1>14,
     <1>15 DEF UpdNext

\* What each phase relies on, and what the user is told.
LEMMA UpdPhases ==
    ASSUME UpdInv, [UpdNext]_updVars
    PROVE  BackupIsOld' /\ Updating' /\ RollingBack' /\ UpdatesKeepTheirWord'
<1> USE DEF UpdInv, UpdTypeOK, CopyingOne, Places, Contents, Works, UpdGoto, End, Moved, 
            Removed, Outcomes,
            BackupIsOld, Updating, RollingBack, UpdatesKeepTheirWord, RecoverableBinary, OutcomeIsTrue
<1>1. CASE BeginUpdate
  BY <1>1 DEF BeginUpdate
<1>2. CASE Fetch
  BY <1>2 DEF Fetch
<1>3. CASE VerifyDownload
  BY <1>3 DEF VerifyDownload, verifyBinaryVersion
<1>4. CASE BackUp
  BY <1>4, BackUpAs, CopiesDiffer DEF CopyBegins
<1>5. CASE Install
  BY <1>5, InstallAs, CopiesDiffer DEF CopyBegins
<1>6. CASE Restore
  BY <1>6, RestoreAs, CopiesDiffer DEF CopyBegins
<1>7. CASE BeginRollback
  BY <1>7 DEF BeginRollback, BackupExists
<1>8. CASE SetAside
  <2>1. CASE files' = Moved(files, "binary", "bad") /\ moved' = TRUE
    BY <1>8, <2>1 DEF SetAside
  <2>2. CASE UNCHANGED <<files, moved>>
    <3>1. phase' = "putBack" /\ UNCHANGED <<copying, torn>>
      BY <1>8 DEF SetAside
    <3>2. phase = "aside"
      BY <1>8 DEF SetAside
    <3> QED
      BY <2>2, <3>1, <3>2
  <2> QED
    BY <1>8, <2>1, <2>2 DEF SetAside
<1>9. CASE PutBack
  BY <1>9, PutBackAs, CopiesDiffer DEF CopyBegins
<1>10. CASE Undo
  BY <1>10 DEF Undo
<1>11. CASE CleanUp
  BY <1>11 DEF CleanUp
<1>12. CASE CopyDone
  BY <1>12, CopyDoneAs, CopiesDiffer
<1>13. CASE CopyFails
  BY <1>13, CopyFailsAs, CopiesDiffer
<1>14. CASE UpdateCrashes
  BY <1>14, BackupTarget DEF UpdateCrashes
<1>15. CASE UNCHANGED updVars
  BY <1>15 DEF updVars
<1> QED
  BY <1>1, <1>2, <1>3, <1>4, <1>5, <1>6, <1>7, <1>8, <1>9, <1>10, <1>11, <1>12, <1>13, <1>14,
     <1>15 DEF UpdNext

\* Every step of an update, a rollback or a crash keeps the invariant.
LEMMA UpdStep ==
    ASSUME UpdInv, [UpdNext]_updVars
    PROVE  UpdInv'
<1>1. UpdTypeOK'
  <2>1. phase' = "copy" <=> copying' # NotCopying
    BY UpdCopying, CopiesDiffer DEF CopyingOne
  <2> QED
    BY <2>1, UpdCounts, UpdResults, UpdFiles, UpdCopying DEF UpdTypeOK
<1>2. UpdatesKeepTheirWord'
  BY UpdPhases
<1> QED
  BY <1>1, <1>2, UpdCopying, UpdPhases DEF UpdInv

\* The invariant of the updater holds of every behaviour: whichever renames and copies
\* fail or are cut short, and however often updates and rollbacks follow one another.
THEOREM UpdInvariant == UpdSpec => []UpdInv
BY UpdInitInv, UpdStep, PTL DEF UpdSpec

(* Whatever file operation fails and wherever the process dies, PerformUpdate*)
(* and Rollback leave a complete binary under one of the three names unless  *)
(* a copy tore the backup, and what they report is what is installed.        *)
THEOREM UpdatesKeepTheirWordHolds == UpdSpec => []UpdatesKeepTheirWord
<1>1. UpdInv => UpdatesKeepTheirWord
  BY DEF UpdInv
<1> QED
  BY <1>1, UpdInvariant, PTL

-----------------------------------------------------------------------------
(* The history caches.  A file is described by the requests its entries    *)
(* were stored for, a call by what it saw HEAD be so far.                  *)

\* No two entries of a file have the same key.
Unique(entries) ==
    \A j, k \in DOMAIN entries : entries[j].key = entries[k].key => j = k

\* Dropping the entry of a key leaves the other entries, in their order, and none of that key.
LEMMA WithoutDrops ==
    ASSUME NEW S, NEW s \in Seq(S), NEW key, Unique(s)
    PROVE  /\ Without(s, key) \in Seq(S) /\ Len(Without(s, key)) <= Len(s) /\ Unique(Without(s, key))
           /\ \A j \in 1 .. Len(Without(s, key)) : Without(s, key)[j].key # key
<1> DEFINE same == {k \in DOMAIN s : s[k].key = key}
           old == CHOOSE k \in same : TRUE
           lower == SubSeq(s, 1, old - 1)
           upper == SubSeq(s, old + 1, Len(s))
<1>1. CASE same = {}
  <2>1. Without(s, key) = s
    BY <1>1 DEF Without
  <2> QED
    BY <1>1, <2>1
<1>2. CASE same # {}
  <2>1. old \in 1 .. Len(s) /\ s[old].key = key
    BY <1>2
  <2>2. Without(s, key) = lower \o upper
    BY <1>2 DEF Without
  <2> HIDE DEF old, same
  <2>3. /\ lower \in Seq(S) /\ Len(lower) = old - 1
        /\ \A i \in 1 .. old - 1 : lower[i] = s[i]
    <3>1. \A i \in 1 .. old - 1 : s[i] \in S
      BY <2>1
    <3>2. lower \in Seq(S)
      BY <2>1, <3>1, SubSeqProperties
    <3>3. Len(lower) = old - 1
      BY <2>1
    <3> QED
      BY <2>1, <3>2, <3>3
  <2>4. /\ upper \in Seq(S) /\ Len(upper) = Len(s) - old
        /\ \A i \in 1 .. Len(s) - old : upper[i] = s[old + i]
    <3>1. \A i \in old + 1 .. Len(s) : s[i] \in S
      BY <2>1
    <3>2. upper \in Seq(S)
      BY <2>1, <3>1, SubSeqProperties
    <3>3. Len(upper) = Len(s) - old
      BY <2>1
    <3> QED
      BY <2>1, <3>2, <3>3
  <2> HIDE DEF lower, upper
  <2>5. /\ Without(s, key) \in Seq(S) /\ Len(Without(s, key)) = Len(s) - 1
        /\ \A j \in 1 .. Len(s) - 1 : Without(s, key)[j] = IF j < old THEN s[j] ELSE s[j + 1]
    <3>1. Without(s, key) \in Seq(S) /\ Len(Without(s, key)) = Len(s) - 1
      BY <2>1, <2>2, <2>3, <2>4
    <3>2. ASSUME NEW j \in 1 .. Len(s) - 1
          PROVE  Without(s, key)[j] = IF j < old THEN s[j] ELSE s[j + 1]
      <4>1. Without(s, key)[j] = IF j <= Len(lower) THEN lower[j] ELSE upper[j - Len(lower)]
        BY <2>1, <2>2, <2>3, <2>4
      <4>2. CASE j < old
        BY <2>1, <2>3, <4>1, <4>2
      <4>3. CASE j >= old
        <5>1. upper[j - (old - 1)] = s[j + 1]
          BY <2>1, <2>4, <4>3
        <5> QED
          BY <2>1, <2>3, <4>1, <4>3, <5>1
      <4> QED
        BY <2>1, <4>2, <4>3
    <3> QED
      BY <3>1, <3>2
  <2> HIDE DEF Without
  <2>6. \A j \in 1 .. Len(s) - 1 : \E m \in 1 .. Len(s) : m # old /\ Without(s, key)[j] = s[m]
                                                      /\ m = IF j < old THEN j ELSE j + 1
    BY <2>1, <2>5
  <2> QED
    <3>1. Unique(Without(s, key))
      <4>1. DOMAIN Without(s, key) = 1 .. Len(s) - 1 /\ DOMAIN s = 1 .. Len(s)
        BY <2>5
      <4>2. SUFFICES ASSUME NEW j \in 1 .. Len(s) - 1, NEW k \in 1 .. Len(s) - 1,
                            Without(s, key)[j].key = Without(s, key)[k].key
                     PROVE  j = k
        BY <4>1 DEF Unique
      <4>3. PICK m \in 1 .. Len(s) : Without(s, key)[j] = s[m] /\ m = IF j < old THEN j ELSE j + 1
        BY <2>6
      <4>4. PICK n \in 1 .. Len(s) : Without(s, key)[k] = s[n] /\ n = IF k < old THEN k ELSE k + 1
        BY <2>6
      <4>5. m = n
        BY <4>1, <4>2, <4>3, <4>4 DEF Unique
      <4> QED
        BY <2>1, <4>3, <4>4, <4>5
    <3>2. \A j \in 1 .. Len(s) - 1 : Without(s, key)[j].key # key
      BY <2>1, <2>6 DEF Unique
    <3> QED
      BY <2>5, <3>1, <3>2
<1> QED
  BY <1>1, <1>2

\* The entry appended is the last, and alone of its key if there was none.
LEMMA AppendAdds ==
    ASSUME NEW S, NEW s \in Seq(S), NEW e \in S, Unique(s), \A j \in 1 .. Len(s) : s[j].key # e.key
    PROVE  /\ Append(s, e) \in Seq(S) /\ Len(Append(s, e)) = Len(s) + 1 /\ Unique(Append(s, e))
           /\ Append(s, e)[Len(s) + 1] = e
<1>1. /\ Append(s, e) \in Seq(S) /\ Len(Append(s, e)) = Len(s) + 1
      /\ Append(s, e)[Len(s) + 1] = e /\ \A j \in 1 .. Len(s) : Append(s, e)[j] = s[j]
  OBVIOUS
<1>2. DOMAIN Append(s, e) = 1 .. Len(s) + 1 /\ DOMAIN s = 1 .. Len(s)
  BY <1>1
<1>3. Unique(Append(s, e))
  BY <1>1, <1>2 DEF Unique
<1> QED
  BY <1>1, <1>3

\* evictLRU keeps the youngest entry and no more than MaxEntries.
LEMMA EvictKeepsLast ==
    ASSUME NEW S, NEW s \in Seq(S), s # <<>>, Unique(s)
    PROVE  /\ evictLRU(s) \in Seq(S) /\ Len(evictLRU(s)) \in 1 .. MaxEntries /\ Unique(evictLRU(s))
           /\ evictLRU(s)[Len(evictLRU(s))] = s[Len(s)]
<1>0. MaxEntries \in Nat /\ MaxEntries >= 1
  BY HistAssumption
<1>1. CASE Len(s) <= MaxEntries
  BY <1>1 DEF evictLRU
<1>2. CASE Len(s) > MaxEntries
  <2> DEFINE first == Len(s) - MaxEntries + 1
             t == SubSeq(s, first, Len(s))
  <2>1. evictLRU(s) = t
    BY <1>0, <1>2 DEF evictLRU
  <2>2. first \in 2 .. Len(s)
    BY <1>2, HistAssumption
  <2>3. t \in Seq(S) /\ Len(t) = MaxEntries /\ \A i \in 1 .. MaxEntries : t[i] = s[first + i - 1]
    <3>1. \A i \in first .. Len(s) : s[i] \in S
      BY <2>2
    <3>2. t \in Seq(S)
      BY <2>2, <3>1, SubSeqProperties
    <3>3. Len(t) = Len(s) - first + 1
      BY <2>2
    <3>4. \A i \in 1 .. MaxEntries : t[i] = s[first + i - 1]
      BY <2>2, <3>3, HistAssumption
    <3> QED
      BY <3>2, <3>3, <3>4, HistAssumption
  <2>4. Unique(t)
    <3>1. DOMAIN t = 1 .. MaxEntries /\ DOMAIN s = 1 .. Len(s)
      BY <2>3
    <3> HIDE DEF t
    <3> SUFFICES ASSUME NEW j \in 1 .. MaxEntries, NEW k \in 1 .. MaxEntries, t[j].key = t[k].key
                 PROVE  j = k
      BY <3>1 DEF Unique
    <3>2. t[j] = s[first + j - 1] /\ t[k] = s[first + k - 1]
      BY <2>3
    <3>3. first + j - 1 \in 1 .. Len(s) /\ first + k - 1 \in 1 .. Len(s)
      BY <2>2, HistAssumption
    <3>4. first + j - 1 = first + k - 1
      BY <3>1, <3>2, <3>3 DEF Unique
    <3> QED
      BY <2>2, <3>4
  <2>5. t[MaxEntries] = s[Len(s)]
    <3>1. t[MaxEntries] = s[first + MaxEntries - 1]
      BY <1>0, <2>3
    <3>2. first + MaxEntries - 1 = Len(s)
      BY <1>0
    <3> QED
      BY <3>1, <3>2
  <2> HIDE DEF t
  <2> QED
    BY <2>1, <2>3, <2>4, <2>5, HistAssumption
<1> QED
  BY <1>1, <1>2, HistAssumption

\* What a caller asked for and with what history; as long as HEAD does not come back to
\* a commit, only a history of the key itself is put in a file.
Artifact == [events : Nat, walk : Nat]
Asked == [beads : BeadSet, key : Nat, art : Artifact]
IsTrue(r) == HeadReturns \/ (r.art.events = r.key /\ r.art.walk = r.key)
Storable == {r \in Asked : IsTrue(r)}
EntryFor(f, r) == [key |-> Key(f, r), value |-> Value(f, r)]
EntryOf(f) == {EntryFor(f, r) : r \in Storable}

IsFile(f, entries) == entries \in Seq(EntryOf(f)) /\ Len(entries) <= MaxEntries /\ Unique(entries)

\* What EndPut writes is again a file of entries with keys of their own, the new one among them.
LEMMA StoredIsFile ==
    ASSUME NEW f \in Layers, NEW c \in Caller, IsFile(f, req[c].buf), EntryFor(f, req[c]) \in EntryOf(f)
    PROVE  IsFile(f, Stored(c, f)) /\ <<f, Key(f, req[c])>> \in KeysOf(f, Stored(c, f))
<1> DEFINE e == EntryFor(f, req[c])
           w == Without(req[c].buf, e.key)
           a == Append(w, e)
<1>1. e.key = Key(f, req[c]) /\ Stored(c, f) = evictLRU(a)
  BY DEF EntryFor, Stored
<1>2. w \in Seq(EntryOf(f)) /\ Unique(w) /\ \A j \in 1 .. Len(w) : w[j].key # e.key
  <2> HIDE DEF e
  <2> QED
    BY WithoutDrops DEF IsFile
<1> HIDE DEF w
<1>3. a \in Seq(EntryOf(f)) /\ Len(a) = Len(w) + 1 /\ Unique(a) /\ a[Len(w) + 1] = e
  <2>1. e \in EntryOf(f)
    OBVIOUS
  <2> HIDE DEF e
  <2> QED
    BY <1>2, <2>1, AppendAdds
<1> HIDE DEF a, e
<1>4. a # <<>> /\ a[Len(a)] = e
  BY <1>2, <1>3
<1>5. /\ Stored(c, f) \in Seq(EntryOf(f)) /\ Len(Stored(c, f)) \in 1 .. MaxEntries
      /\ Unique(Stored(c, f)) /\ Stored(c, f)[Len(Stored(c, f))] = e
  BY <1>1, <1>3, <1>4, EvictKeepsLast
<1>6. <<f, Key(f, req[c])>> \in KeysOf(f, Stored(c, f))
  <2>1. Len(Stored(c, f)) \in DOMAIN Stored(c, f)
    BY <1>5
  <2> QED
    BY <1>1, <1>5, <2>1 DEF KeysOf
<1> QED
  BY <1>5, <1>6, HistAssumption DEF IsFile

\* The values of the variables; the buffer is what the lock's holder read from its file.
Requests == [beads : BeadSet \cup {{}}, key : Nat, art : Artifact,
             buf : UNION {Seq(EntryOf(f)) : f \in Layers},
             result : {<<>>} \cup {<<r>> : r \in [art : Artifact, beads : BeadSet]}]

HistTypes ==
    /\ head \in 1 .. MaxHead /\ moves \in 0 .. MaxMoves
    /\ at \in [Caller -> Points] /\ req \in [Caller -> Requests]
    /\ holder \in [Layers -> Caller \cup {Nobody}]
    /\ cached \in [Layers -> [entries : UNION {Seq(EntryOf(f)) : f \in Layers}, torn : BOOLEAN]]
    /\ seen \in [Caller -> SUBSET Nat]

\* A file has one writer, at the point of writing it, which holds what it read under the lock.
FilesInv ==
    /\ \A f \in Layers : IsFile(f, cached[f].entries)
    /\ \A f \in Layers, c \in Caller :
          /\ holder[f] = c <=> at[c] = Writing(f)
          /\ at[c] = Writing(f) => IsFile(f, req[c].buf)

\* What is kept is in the file, or in the buffer of the process that is rewriting it.
KeptInv ==
    \A e \in kept :
       /\ e[1] \in Layers
       /\ holder[e[1]] = Nobody => e \in KeysOf(e[1], Entries(e[1]))
       /\ holder[e[1]] # Nobody => e \in KeysOf(e[1], req[holder[e[1]]].buf)

Storing == {"put artifact", "write artifact", "put report", "write report"}

\* What a call in progress has seen HEAD be, and what it may conclude when HEAD still (or
\* again) is its key: at the check, that the history it extracted is of that commit.
CallInv(c) ==
    /\ at[c] # "start" => req[c].beads \in BeadSet /\ req[c].key \in seen[c]
    /\ at[c] \notin {"start", "done", "dead"} => head \in seen[c]
    /\ at[c] \in {"walk", "recheck"} => req[c].art.events \in seen[c]
    /\ at[c] = "recheck" => req[c].art.walk \in seen[c]
    /\ at[c] = "walk" /\ head = req[c].key => HeadReturns \/ req[c].art.events = req[c].key
    /\ at[c] = "recheck" /\ head = req[c].key => IsTrue(req[c])
    /\ at[c] \in Storing => IsTrue(req[c])

\* What a call returns (ReportIsOfTheCall).
ResultInv(c) ==
    /\ (at[c] = "done") <=> (req[c].result # <<>>)
    /\ \A k \in DOMAIN req[c].result :
          LET report == req[c].result[k]
          IN  \/ HeadReturns
              \/ report.beads = req[c].beads /\ report.art.events \in seen[c] /\ report.art.walk \in seen[c]

HistInvariant ==
    HistTypes /\ FilesInv /\ KeptInv /\ \A c \in Caller : CallInv(c) /\ ResultInv(c)

\* No cache file, no call.
LEMMA HistInitHolds == HistInit => HistInvariant
<1> SUFFICES ASSUME HistInit PROVE HistInvariant
  OBVIOUS
<1>1. IsFile("report", <<>>) /\ IsFile("artifact", <<>>)
  BY HistAssumption DEF IsFile, Unique
<1>2. NoReq \in Requests
  <2>1. <<>> \in UNION {Seq(EntryOf(f)) : f \in Layers}
    BY DEF Layers
  <2> QED
    BY <2>1 DEF NoReq, Requests, Nothing, Artifact
<1>3. HistTypes
  <2>1. head \in 1 .. MaxHead /\ moves \in 0 .. MaxMoves
    BY HistAssumption DEF HistInit
  <2>2. at \in [Caller -> Points] /\ req \in [Caller -> Requests]
    BY <1>2 DEF HistInit, Points
  <2>3. cached \in [Layers -> [entries : UNION {Seq(EntryOf(f)) : f \in Layers}, torn : BOOLEAN]]
    <3>1. <<>> \in UNION {Seq(EntryOf(f)) : f \in Layers}
      BY DEF Layers
    <3> QED
      BY <3>1 DEF HistInit
  <2> QED
    BY <2>1, <2>2, <2>3 DEF HistInit, HistTypes
<1>4. FilesInv
  BY <1>1, HistAssumption DEF HistInit, FilesInv, Layers, Writing, Nobody
<1>5. KeptInv
  BY DEF HistInit, KeptInv
<1>6. ASSUME NEW c \in Caller PROVE CallInv(c) /\ ResultInv(c)
  BY DEF HistInit, CallInv, ResultInv, NoReq, Storing
<1> QED
  BY <1>3, <1>4, <1>5, <1>6 DEF HistInvariant

\* A step of c that git and the other calls do not notice.
OthersStay(c) ==
    /\ head' = head /\ moves' = moves
    /\ \A d \in Caller \ {c} : at'[d] = at[d] /\ req'[d] = req[d] /\ seen'[d] = seen[d]

\* Such a step leaves what the other calls rely on.
LEMMA OthersKeep ==
    ASSUME HistInvariant, NEW c \in Caller, OthersStay(c), NEW d \in Caller \ {c}
    PROVE  CallInv(d)' /\ ResultInv(d)'
<1>1. CallInv(d) /\ ResultInv(d)
  BY DEF HistInvariant
<1>2. head' = head /\ at'[d] = at[d] /\ req'[d] = req[d] /\ seen'[d] = seen[d]
  BY DEF OthersStay
<1>3. CallInv(d)'
  BY <1>1, <1>2 DEF CallInv, IsTrue
<1>4. ResultInv(d)'
  BY <1>1, <1>2 DEF ResultInv
<1> QED
  BY <1>3, <1>4

\* Where a process holds the lock of a file.
WritePoints == {"write artifact", "write report"}

\* The points at which a file is locked, one for each file.
LEMMA WritingIs ==
    \A f \in Layers : Writing(f) \in WritePoints /\ Putting(f) \in Storing /\ Putting(f) \notin WritePoints
                      /\ \A g \in Layers : Writing(f) = Writing(g) => f = g
BY DEF Layers, Writing, WritePoints, Putting, Storing

\* A step off the files leaves them, and what is kept in them, as they are.
LEMMA FilesStay ==
    ASSUME HistInvariant, NEW c \in Caller, OthersStay(c), UNCHANGED <<cached, holder, kept>>,
           at[c] \notin WritePoints, at'[c] \notin WritePoints
    PROVE  FilesInv' /\ KeptInv'
<1>1. FilesInv'
  BY WritingIs DEF HistInvariant, FilesInv, OthersStay
<1>2. KeptInv'
  <2> SUFFICES ASSUME NEW e \in kept
               PROVE  /\ e[1] \in Layers
                      /\ holder[e[1]] = Nobody => e \in KeysOf(e[1], Entries(e[1])')
                      /\ holder[e[1]] # Nobody => e \in KeysOf(e[1], req'[holder[e[1]]].buf)
    BY DEF KeptInv, KeysOf
  <2>1. e[1] \in Layers /\ Entries(e[1])' = Entries(e[1])
    BY DEF HistInvariant, KeptInv, Entries
  <2>2. ASSUME holder[e[1]] # Nobody PROVE req'[holder[e[1]]] = req[holder[e[1]]]
    <3>1. holder[e[1]] \in Caller
      BY <2>1, <2>2 DEF HistInvariant, HistTypes
    <3>2. holder[e[1]] # c
      BY <2>1, <3>1, WritingIs DEF HistInvariant, FilesInv
    <3> QED
      BY <3>1, <3>2 DEF OthersStay
  <2> QED
    BY <2>1, <2>2 DEF HistInvariant, KeptInv
<1> QED
  BY <1>1, <1>2

\* What is left to show of such a step.
LEMMA StepKeeps ==
    ASSUME HistInvariant, NEW c \in Caller, OthersStay(c), HistTypes', FilesInv', KeptInv',
           CallInv(c)', ResultInv(c)'
    PROVE  HistInvariant'
BY OthersKeep DEF HistInvariant

\* A call begins: its key is the commit HEAD names (GenerateReportCached).
LEMMA StartKeeps ==
    ASSUME HistInvariant, NEW c \in Caller, GenerateReportCached(c) PROVE HistInvariant'
<1>1. PICK b \in BeadSet : req' = [req EXCEPT ![c].beads = b, ![c].key = head]
  BY DEF GenerateReportCached
<1>2. req[c] \in Requests /\ req \in [Caller -> Requests] /\ head \in Nat
  BY HistAssumption DEF HistInvariant, HistTypes
<1>3. /\ req'[c] \in Requests /\ req'[c].beads = b /\ req'[c].key = head /\ req'[c].result = req[c].result
      /\ \A d \in Caller \ {c} : req'[d] = req[d]
  BY <1>1, <1>2 DEF Requests
<1>4. req' \in [Caller -> Requests]
  BY <1>1, <1>2, <1>3
<1>5. /\ at'[c] = "report" /\ at[c] = "start" /\ seen'[c] = {head} /\ OthersStay(c)
      /\ UNCHANGED <<head, moves, cached, holder, kept>>
  BY <1>3 DEF GenerateReportCached, Go, OthersStay, HistInvariant, HistTypes
<1>6. HistTypes'
  BY <1>2, <1>4, <1>5 DEF GenerateReportCached, Go, HistInvariant, HistTypes, Points
<1>7. FilesInv' /\ KeptInv'
  BY <1>5, FilesStay DEF WritePoints
<1>8. CallInv(c)'
  BY <1>3, <1>5 DEF CallInv, Storing
<1>9. ResultInv(c)'
  <2>1. req[c].result = <<>>
    BY <1>5 DEF HistInvariant, ResultInv
  <2> QED
    BY <1>3, <1>5, <2>1 DEF ResultInv
<1> QED
  BY <1>5, <1>6, <1>7, <1>8, <1>9, StepKeeps

\* An entry that hits was stored for the same HEAD and, of the report file, the same beads.
LEMMA HitIsTrue ==
    ASSUME HistInvariant, NEW c \in Caller, NEW f \in Layers, NEW k \in Hits(f, req[c])
    PROVE  \E r \in Storable :
              /\ Entries(f)[k].value = Value(f, r) /\ r.key = req[c].key
              /\ f = "report" => r.beads = req[c].beads
<1>1. k \in DOMAIN Entries(f) /\ Entries(f)[k].key = Key(f, req[c])
  BY DEF Hits
<1>2. Entries(f) \in Seq(EntryOf(f))
  BY DEF Entries, HistInvariant, FilesInv, IsFile
<1>3. Entries(f)[k] \in EntryOf(f)
  BY <1>1, <1>2
<1>4. PICK r \in Storable : Entries(f)[k] = EntryFor(f, r)
  BY <1>3 DEF EntryOf
<1>5. Key(f, r) = Key(f, req[c]) /\ Entries(f)[k].value = Value(f, r)
  BY <1>1, <1>4 DEF EntryFor
<1>6. r.key = req[c].key /\ (f = "report" => r.beads = req[c].beads)
  BY <1>5 DEF Key, Layers
<1> QED
  BY <1>5, <1>6

\* A sequence of one is not empty and holds it.
LEMMA OneReport ==
    ASSUME NEW x PROVE <<x>> # <<>> /\ \A k \in DOMAIN <<x>> : <<x>>[k] = x
<1>1. <<x>> \in Seq({x}) /\ Len(<<x>>) = 1 /\ <<x>>[1] = x
  OBVIOUS
<1> QED
  BY <1>1

\* A call returns a report of its own beads and of what it saw HEAD be.
LEMMA ReturnKeeps ==
    ASSUME HistInvariant, NEW c \in Caller, at[c] \in {"report", "recheck", "write report"},
           NEW report \in [art : Artifact, beads : BeadSet], Returns(c, report),
           UNCHANGED <<head, moves, seen>>,
           \/ HeadReturns
           \/ report.beads = req[c].beads /\ report.art.events \in seen[c] /\ report.art.walk \in seen[c]
    PROVE  /\ req' \in [Caller -> Requests] /\ at' \in [Caller -> Points] /\ at'[c] = "done"
           /\ OthersStay(c) /\ CallInv(c)' /\ ResultInv(c)'
<1>1. req[c] \in Requests /\ req \in [Caller -> Requests] /\ at \in [Caller -> Points]
  BY DEF HistInvariant, HistTypes
<1>2. req' = [req EXCEPT ![c].result = <<report>>] /\ at' = [at EXCEPT ![c] = "done"]
  BY DEF Returns, Go
<1>3. /\ req'[c] \in Requests /\ req'[c].beads = req[c].beads /\ req'[c].key = req[c].key
      /\ req'[c].art = req[c].art /\ req'[c].result = <<report>>
  BY <1>1, <1>2 DEF Requests
<1>4. req' \in [Caller -> Requests] /\ at' \in [Caller -> Points] /\ at'[c] = "done" /\ OthersStay(c)
  BY <1>1, <1>2, <1>3 DEF OthersStay, Points
<1>5. CallInv(c)'
  <2>1. CallInv(c)
    BY DEF HistInvariant
  <2> QED
    BY <1>3, <1>4, <2>1 DEF CallInv, Storing
<1>6. ResultInv(c)'
  <2>1. <<report>> # <<>> /\ \A k \in DOMAIN <<report>> : <<report>>[k] = report
    BY OneReport
  <2>2. \A k \in DOMAIN req'[c].result : req'[c].result[k] = report
    BY <1>3, <2>1
  <2> QED
    BY <1>3, <1>4, <2>1, <2>2 DEF ResultInv
<1> QED
  BY <1>4, <1>5, <1>6

\* Looking into the report file, with and without a hit.
LEMMA ReportLookupKeeps ==
    ASSUME HistInvariant, NEW c \in Caller, getCorrelationDiskCachedReport(c) PROVE HistInvariant'
<1>1. at[c] = "report" /\ UNCHANGED <<head, moves, cached, holder, kept, seen>>
  BY DEF getCorrelationDiskCachedReport
<1>2. ASSUME NEW k \in Hits("report", req[c]), Returns(c, Entries("report")[k].value)
      PROVE  HistInvariant'
  <2>1. PICK r \in Storable : /\ Entries("report")[k].value = Value("report", r)
                              /\ r.key = req[c].key /\ r.beads = req[c].beads
    BY HitIsTrue DEF Layers
  <2>2. Value("report", r) = Report(r) /\ Report(r) \in [art : Artifact, beads : BeadSet]
        /\ Report(r).beads = r.beads /\ Report(r).art = r.art
    BY DEF Value, Report, Storable, Asked
  <2>3. req[c].key \in seen[c]
    BY <1>1 DEF HistInvariant, CallInv
  <2>4. HeadReturns \/ (r.art.events = r.key /\ r.art.walk = r.key)
    BY DEF Storable, IsTrue
  <2>5. Returns(c, Report(r))
    BY <1>2, <2>1, <2>2
  <2>6. \/ HeadReturns
        \/ /\ Report(r).beads = req[c].beads /\ Report(r).art.events \in seen[c]
           /\ Report(r).art.walk \in seen[c]
    BY <2>1, <2>2, <2>3, <2>4
  <2>7. /\ req' \in [Caller -> Requests] /\ at' \in [Caller -> Points] /\ at'[c] = "done"
        /\ OthersStay(c) /\ CallInv(c)' /\ ResultInv(c)'
    BY <1>1, <2>2, <2>5, <2>6, ReturnKeeps
  <2>8. HistTypes'
    BY <1>1, <2>7 DEF HistInvariant, HistTypes
  <2>9. FilesInv' /\ KeptInv'
    BY <1>1, <2>7, FilesStay DEF WritePoints
  <2> QED
    BY <2>7, <2>8, <2>9, StepKeeps
<1>3. CASE Go(c, "artifact") /\ UNCHANGED req
  <2>1. OthersStay(c) /\ at'[c] = "artifact" /\ HistTypes'
    BY <1>1, <1>3 DEF OthersStay, Go, HistInvariant, HistTypes, Points
  <2>2. FilesInv' /\ KeptInv'
    BY <1>1, <2>1, FilesStay DEF WritePoints
  <2>3. CallInv(c)' /\ ResultInv(c)'
    <3>1. CallInv(c) /\ ResultInv(c)
      BY DEF HistInvariant
    <3> QED
      BY <1>1, <1>3, <2>1, <3>1 DEF CallInv, ResultInv, Storing
  <2> QED
    BY <2>1, <2>2, <2>3, StepKeeps
<1> QED
  BY <1>2, <1>3 DEF getCorrelationDiskCachedReport

\* A step that goes from one point to another and changes no more than req[c].art.
ArtChanges(c, art, p) ==
    /\ req' = [req EXCEPT ![c].art = art] /\ Go(c, p)
    /\ UNCHANGED <<head, moves, cached, holder, kept, seen>>

\* Such a step, given what is known of the history at the point it goes to.
LEMMA ArtKeeps ==
    ASSUME HistInvariant, NEW c \in Caller, NEW art \in Artifact, NEW p \in Points \ {"start", "done"},
           ArtChanges(c, art, p), at[c] \notin WritePoints \cup {"start", "done", "dead"}, p \notin WritePoints,
           p \in {"walk", "recheck"} => art.events \in seen[c],
           p = "recheck" => art.walk \in seen[c],
           p = "walk" /\ head = req[c].key => HeadReturns \/ art.events = req[c].key,
           p = "recheck" /\ head = req[c].key => HeadReturns \/ (art.events = req[c].key /\ art.walk = req[c].key),
           p \in Storing => HeadReturns \/ (art.events = req[c].key /\ art.walk = req[c].key)
    PROVE  HistInvariant'
<1>1. req[c] \in Requests /\ req \in [Caller -> Requests] /\ at \in [Caller -> Points]
  BY DEF HistInvariant, HistTypes
<1>2. /\ req'[c] \in Requests /\ req'[c].beads = req[c].beads /\ req'[c].key = req[c].key
      /\ req'[c].art = art /\ req'[c].result = req[c].result
  BY <1>1 DEF Requests, ArtChanges
<1>3. /\ at'[c] = p /\ at' \in [Caller -> Points] /\ OthersStay(c) /\ req' \in [Caller -> Requests]
      /\ UNCHANGED <<head, moves, cached, holder, kept, seen>>
  BY <1>1, <1>2 DEF ArtChanges, Go, OthersStay
<1>4. HistTypes'
  BY <1>3 DEF HistInvariant, HistTypes
<1>5. FilesInv' /\ KeptInv'
  BY <1>3, FilesStay
<1>6. CallInv(c) /\ ResultInv(c)
  BY DEF HistInvariant
<1>7. CallInv(c)'
  BY <1>2, <1>3, <1>6 DEF CallInv, IsTrue
<1>8. ResultInv(c)'
  <2>1. req[c].result = <<>>
    BY <1>6 DEF ResultInv
  <2> QED
    BY <1>2, <1>3, <2>1 DEF ResultInv
<1> QED
  BY <1>3, <1>4, <1>5, <1>7, <1>8, StepKeeps

\* Looking into the artifact file: a hit is a history of the key.
LEMMA ArtifactLookupKeeps ==
    ASSUME HistInvariant, NEW c \in Caller, getHeadArtifactCached(c) PROVE HistInvariant'
<1>1. at[c] = "artifact" /\ UNCHANGED <<head, moves, cached, holder, kept, seen>>
  BY DEF getHeadArtifactCached
<1>2. ASSUME NEW k \in Hits("artifact", req[c]),
             req' = [req EXCEPT ![c].art = Entries("artifact")[k].value], Go(c, "put report")
      PROVE  HistInvariant'
  <2>1. PICK r \in Storable : Entries("artifact")[k].value = Value("artifact", r) /\ r.key = req[c].key
    BY HitIsTrue DEF Layers
  <2>2. Value("artifact", r) = r.art /\ r.art \in Artifact
    BY DEF Value, Storable, Asked
  <2>3. HeadReturns \/ (r.art.events = req[c].key /\ r.art.walk = req[c].key)
    BY <2>1 DEF Storable, IsTrue
  <2>4. ArtChanges(c, r.art, "put report")
    BY <1>1, <1>2, <2>1, <2>2 DEF ArtChanges
  <2>5. "put report" \in Points \ {"start", "done"} /\ "put report" \notin WritePoints
    BY DEF Points, WritePoints
  <2>6. at[c] \notin WritePoints \cup {"start", "done", "dead"}
    BY <1>1 DEF WritePoints
  <2> QED
    BY <2>2, <2>3, <2>4, <2>5, <2>6, ArtKeeps
<1>3. CASE Go(c, "events") /\ UNCHANGED req
  <2>1. req[c].art \in Artifact /\ req = [req EXCEPT ![c].art = req[c].art]
    BY DEF HistInvariant, HistTypes, Requests
  <2>2. ArtChanges(c, req[c].art, "events")
    BY <1>1, <1>3, <2>1 DEF ArtChanges
  <2>3. "events" \in Points \ {"start", "done"} /\ "events" \notin WritePoints \cup Storing
        /\ at[c] \notin WritePoints \cup {"start", "done", "dead"}
    BY <1>1 DEF Points, WritePoints, Storing
  <2> QED
    BY <2>1, <2>2, <2>3, ArtKeeps
<1> QED
  BY <1>2, <1>3 DEF getHeadArtifactCached

\* The two halves of the extraction, each of what HEAD is then.
LEMMA ExtractionKeeps ==
    ASSUME HistInvariant, NEW c \in Caller, ExtractEvents(c) \/ WalkCommits(c) PROVE HistInvariant'
<1>1. CallInv(c) /\ head \in Nat /\ req[c].art \in Artifact /\ req \in [Caller -> Requests]
  <2>1. HistTypes /\ CallInv(c)
    BY DEF HistInvariant
  <2>2. head \in Nat
    BY <2>1, HistAssumption DEF HistTypes
  <2>3. req[c] \in Requests
    BY <2>1 DEF HistTypes
  <2> QED
    BY <2>1, <2>2, <2>3 DEF HistTypes, Requests
<1>2. CASE ExtractEvents(c)
  <2> DEFINE art == [events |-> head, walk |-> req[c].art.walk]
  <2>1. at[c] = "events" /\ ArtChanges(c, art, "walk") /\ art \in Artifact
    <3>1. req' = [req EXCEPT ![c].art.events = head]
      BY <1>2 DEF ExtractEvents
    <3>2. [req[c].art EXCEPT !.events = head] = art
      BY <1>1 DEF Artifact
    <3>3. req' = [req EXCEPT ![c].art = art]
      BY <1>1, <3>1, <3>2
    <3>4. art \in Artifact
      BY <1>1 DEF Artifact
    <3> QED
      BY <1>2, <3>3, <3>4 DEF ExtractEvents, ArtChanges
  <2>2. head \in seen[c]
    BY <1>1, <2>1 DEF CallInv
  <2>3. "walk" \in Points \ {"start", "done"} /\ "walk" \notin WritePoints \cup Storing
        /\ at[c] \notin WritePoints \cup {"start", "done", "dead"}
    BY <2>1 DEF Points, WritePoints, Storing
  <2>4. art.events = head
    OBVIOUS
  <2> HIDE DEF art
  <2> QED
    BY <2>1, <2>2, <2>3, <2>4, ArtKeeps
<1>3. CASE WalkCommits(c)
  <2> DEFINE art == [events |-> req[c].art.events, walk |-> head]
  <2>1. at[c] = "walk" /\ ArtChanges(c, art, "recheck") /\ art \in Artifact
    <3>1. req' = [req EXCEPT ![c].art.walk = head]
      BY <1>3 DEF WalkCommits
    <3>2. [req[c].art EXCEPT !.walk = head] = art
      BY <1>1 DEF Artifact
    <3>3. req' = [req EXCEPT ![c].art = art]
      BY <1>1, <3>1, <3>2
    <3>4. art \in Artifact
      BY <1>1 DEF Artifact
    <3> QED
      BY <1>3, <3>3, <3>4 DEF WalkCommits, ArtChanges
  <2>2. head \in seen[c] /\ req[c].art.events \in seen[c]
        /\ (head = req[c].key => HeadReturns \/ req[c].art.events = req[c].key)
    BY <1>1, <2>1 DEF CallInv
  <2>3. "recheck" \in Points \ {"start", "done"} /\ "recheck" \notin WritePoints \cup Storing
        /\ at[c] \notin WritePoints \cup {"start", "done", "dead"}
    BY <2>1 DEF Points, WritePoints, Storing
  <2>4. art.walk = head /\ art.events = req[c].art.events
    OBVIOUS
  <2> HIDE DEF art
  <2> QED
    BY <2>1, <2>2, <2>3, <2>4, ArtKeeps
<1> QED
  BY <1>2, <1>3

\* The check before the caches are written (putExtractedHistoryCachesIfHeadUnchanged).
LEMMA RecheckKeeps ==
    ASSUME HistInvariant, NEW c \in Caller, putExtractedHistoryCachesIfHeadUnchanged(c)
    PROVE  HistInvariant'
<1>1. /\ at[c] = "recheck" /\ UNCHANGED <<head, moves, cached, holder, kept, seen>>
      /\ req \in [Caller -> Requests] /\ req[c].art \in Artifact /\ CallInv(c)
  BY DEF putExtractedHistoryCachesIfHeadUnchanged, HistInvariant, HistTypes, Requests
<1>2. CASE head = req[c].key
  <2>1. Go(c, "put artifact") /\ UNCHANGED req
    BY <1>2 DEF putExtractedHistoryCachesIfHeadUnchanged, HeadUnchanged
  <2>2. ArtChanges(c, req[c].art, "put artifact")
    BY <1>1, <2>1 DEF ArtChanges, Requests
  <2>3. HeadReturns \/ (req[c].art.events = req[c].key /\ req[c].art.walk = req[c].key)
    BY <1>1, <1>2 DEF CallInv, IsTrue
  <2>4. "put artifact" \in Points \ {"start", "done"} /\ "put artifact" \notin WritePoints
        /\ at[c] \notin WritePoints \cup {"start", "done", "dead"}
    BY <1>1 DEF Points, WritePoints
  <2> QED
    BY <1>1, <2>2, <2>3, <2>4, ArtKeeps
<1>3. CASE head # req[c].key
  <2>1. Returns(c, Report(req[c]))
    BY <1>3 DEF putExtractedHistoryCachesIfHeadUnchanged, HeadUnchanged
  <2>2. Report(req[c]) \in [art : Artifact, beads : BeadSet]
        /\ Report(req[c]).beads = req[c].beads /\ Report(req[c]).art = req[c].art
    BY <1>1 DEF Report, CallInv
  <2>3. req[c].art.events \in seen[c] /\ req[c].art.walk \in seen[c]
    BY <1>1 DEF CallInv
  <2>4. /\ req' \in [Caller -> Requests] /\ at' \in [Caller -> Points] /\ at'[c] = "done"
        /\ OthersStay(c) /\ CallInv(c)' /\ ResultInv(c)'
    BY <1>1, <2>1, <2>2, <2>3, ReturnKeeps
  <2>5. HistTypes'
    BY <1>1, <2>4 DEF HistInvariant, HistTypes
  <2>6. FilesInv' /\ KeptInv'
    BY <1>1, <2>4, FilesStay DEF WritePoints
  <2> QED
    BY <2>4, <2>5, <2>6, StepKeeps
<1> QED
  BY <1>2, <1>3

\* A file is locked, read and truncated: what was kept in it is in the writer's buffer.
LEMMA BeginPutKeeps ==
    ASSUME HistInvariant, NEW c \in Caller, NEW f \in Layers, BeginPut(c, f) PROVE HistInvariant'
<1>1. /\ at[c] = Putting(f) /\ holder[f] = Nobody /\ UNCHANGED <<head, moves, kept, seen>>
      /\ at' = [at EXCEPT ![c] = Writing(f)] /\ holder' = [holder EXCEPT ![f] = c]
      /\ req' = [req EXCEPT ![c].buf = Entries(f)] /\ cached' = [cached EXCEPT ![f].torn = TRUE]
  BY DEF BeginPut, Go
<1>2. HistTypes /\ FilesInv /\ KeptInv /\ CallInv(c) /\ ResultInv(c)
  BY DEF HistInvariant
<1>3. IsFile(f, Entries(f))
  BY <1>2, HistAssumption DEF FilesInv, Entries, IsFile, Unique
<1>4. /\ req'[c] \in Requests /\ req'[c].beads = req[c].beads /\ req'[c].key = req[c].key
      /\ req'[c].art = req[c].art /\ req'[c].result = req[c].result /\ req'[c].buf = Entries(f)
      /\ \A d \in Caller \ {c} : req'[d] = req[d]
  <2>1. Entries(f) \in UNION {Seq(EntryOf(g)) : g \in Layers}
    BY <1>3 DEF IsFile
  <2> QED
    BY <1>1, <1>2, <2>1 DEF HistTypes, Requests
<1>5. /\ at'[c] = Writing(f) /\ \A d \in Caller \ {c} : at'[d] = at[d]
  BY <1>1, <1>2 DEF HistTypes
<1>6. /\ cached'[f].torn = TRUE /\ cached'[f].entries = cached[f].entries
      /\ \A g \in Layers \ {f} : cached'[g] = cached[g]
      /\ cached' \in [Layers -> [entries : UNION {Seq(EntryOf(g)) : g \in Layers}, torn : BOOLEAN]]
  BY <1>1, <1>2 DEF HistTypes
<1>7. holder'[f] = c /\ \A g \in Layers \ {f} : holder'[g] = holder[g]
  BY <1>1, <1>2 DEF HistTypes
<1>8. OthersStay(c)
  BY <1>1, <1>4, <1>5 DEF OthersStay
<1>9. HistTypes'
  <2>1. at' \in [Caller -> Points] /\ req' \in [Caller -> Requests]
    BY <1>1, <1>2, <1>4 DEF HistTypes, Points, Layers, Writing
  <2> QED
    BY <1>1, <1>2, <1>6, <2>1 DEF HistTypes
<1>10. FilesInv'
  <2>1. ASSUME NEW g \in Layers PROVE IsFile(g, cached'[g].entries)
    BY <1>2, <1>6 DEF FilesInv
  <2>2. ASSUME NEW g \in Layers, NEW d \in Caller
        PROVE  /\ holder'[g] = d <=> at'[d] = Writing(g)
               /\ at'[d] = Writing(g) => IsFile(g, req'[d].buf)
    <3>1. CASE d = c
      BY <1>1, <1>2, <1>3, <1>4, <1>5, <1>7, <3>1, WritingIs DEF FilesInv
    <3>2. CASE d # c
      BY <1>1, <1>2, <1>4, <1>5, <1>7, <3>2, HistAssumption DEF FilesInv, Nobody
    <3> QED
      BY <3>1, <3>2
  <2> QED
    BY <2>1, <2>2 DEF FilesInv, IsFile, EntryOf, EntryFor, Storable, IsTrue
<1>11. KeptInv'
  <2> SUFFICES ASSUME NEW e \in kept
               PROVE  /\ e[1] \in Layers
                      /\ holder'[e[1]] = Nobody => e \in KeysOf(e[1], Entries(e[1])')
                      /\ holder'[e[1]] # Nobody => e \in KeysOf(e[1], req'[holder'[e[1]]].buf)
    BY <1>1 DEF KeptInv, KeysOf
  <2>1. /\ e[1] \in Layers
        /\ holder[e[1]] = Nobody => e \in KeysOf(e[1], Entries(e[1]))
        /\ holder[e[1]] # Nobody => e \in KeysOf(e[1], req[holder[e[1]]].buf)
    BY <1>2 DEF KeptInv
  <2>2. CASE e[1] = f
    BY <1>1, <1>4, <1>7, <2>1, <2>2, HistAssumption DEF Nobody
  <2>3. CASE e[1] # f
    <3>1. holder'[e[1]] = holder[e[1]] /\ Entries(e[1])' = Entries(e[1])
      BY <1>6, <1>7, <2>1, <2>3 DEF Entries
    <3>2. holder[e[1]] # c
      BY <1>1, <1>2, <2>1, WritingIs DEF FilesInv
    <3>3. holder[e[1]] # Nobody => req'[holder[e[1]]] = req[holder[e[1]]]
      BY <1>2, <1>4, <2>1, <3>2 DEF HistTypes
    <3> QED
      BY <2>1, <3>1, <3>3
  <2> QED
    BY <2>2, <2>3
<1>12. CallInv(c)'
  <2>1. at[c] \notin {"start", "done", "dead"} /\ at[c] \in Storing
    BY <1>1 DEF Putting, Storing
  <2>2. at'[c] \in Storing /\ at'[c] \notin {"walk", "recheck"}
    BY <1>5 DEF Writing, Storing
  <2> QED
    BY <1>1, <1>2, <1>4, <2>1, <2>2 DEF CallInv, IsTrue
<1>13. ResultInv(c)'
  <2>1. at[c] # "done" /\ at'[c] # "done"
    <3>1. at[c] # "done"
      BY <1>1 DEF Putting
    <3>2. at'[c] # "done"
      BY <1>5 DEF Writing
    <3> QED
      BY <3>1, <3>2
  <2> QED
    BY <1>1, <1>2, <1>4, <2>1 DEF ResultInv
<1> QED
  BY <1>8, <1>9, <1>10, <1>11, <1>12, <1>13, StepKeeps

\* What a caller is about to store is an entry a file may hold.
LEMMA RequestIsStorable ==
    ASSUME HistInvariant, NEW c \in Caller, at[c] \in Storing, NEW f \in Layers
    PROVE  EntryFor(f, req[c]) \in EntryOf(f)
<1> DEFINE r == [beads |-> req[c].beads, key |-> req[c].key, art |-> req[c].art]
<1>1. req[c] \in Requests /\ req[c].beads \in BeadSet /\ IsTrue(req[c])
  BY DEF HistInvariant, HistTypes, CallInv, Storing
<1>2. r \in Storable
  BY <1>1 DEF Storable, Asked, Requests, IsTrue
<1>3. EntryFor(f, r) = EntryFor(f, req[c])
  BY DEF EntryFor, Key, Value, Report
<1> QED
  BY <1>2, <1>3 DEF EntryOf

\* What the end of a put does to the writer and the lock, once the file is known to hold
\* entries again, whatever became of the write.
LEMMA AfterPutKeeps ==
    ASSUME HistInvariant, NEW c \in Caller, NEW f \in Layers, at[c] = Writing(f), AfterPut(c, f),
           \A g \in Layers : IsFile(g, cached'[g].entries),
           cached' \in [Layers -> [entries : UNION {Seq(EntryOf(g)) : g \in Layers}, torn : BOOLEAN]]
    PROVE  /\ HistTypes' /\ FilesInv' /\ CallInv(c)' /\ ResultInv(c)' /\ OthersStay(c)
           /\ at[c] \in Storing /\ holder[f] = c /\ holder'[f] = Nobody
           /\ \A g \in Layers \ {f} :
                 /\ holder'[g] = holder[g] /\ holder[g] # c
                 /\ holder[g] # Nobody => req'[holder[g]] = req[holder[g]]
<1>1. /\ at[c] = Writing(f) /\ UNCHANGED <<head, moves, seen>>
      /\ holder' = [holder EXCEPT ![f] = Nobody]
      /\ IF f = "artifact" THEN Go(c, "put report") /\ UNCHANGED req ELSE Returns(c, Report(req[c]))
  BY DEF AfterPut, Unlock
<1>2. HistTypes /\ FilesInv /\ KeptInv /\ CallInv(c) /\ ResultInv(c)
  BY DEF HistInvariant
<1>3. at[c] \in Storing /\ at[c] \notin {"start", "done", "dead"}
  <2>1. Writing(f) \in Storing /\ Writing(f) \notin {"start", "done", "dead"}
    BY DEF Writing, Storing
  <2> QED
    BY <1>1, <2>1
<1>5. holder[f] = c
  BY <1>1, <1>2 DEF FilesInv
<1>6. /\ req' \in [Caller -> Requests] /\ at' \in [Caller -> Points] /\ at'[c] \notin WritePoints
      /\ OthersStay(c) /\ CallInv(c)' /\ ResultInv(c)'
  <2>1. CASE f = "artifact"
    <3>1. /\ at'[c] = "put report" /\ at' \in [Caller -> Points] /\ req' = req /\ OthersStay(c)
      BY <1>1, <1>2, <2>1 DEF Go, HistTypes, Points, OthersStay
    <3>2. CallInv(c)'
      BY <1>1, <1>2, <1>3, <3>1 DEF CallInv, IsTrue, Storing
    <3>3. ResultInv(c)'
      BY <1>1, <1>2, <1>3, <3>1 DEF ResultInv
    <3> QED
      BY <1>2, <3>1, <3>2, <3>3 DEF HistTypes, WritePoints
  <2>2. CASE f = "report"
    <3>1. Returns(c, Report(req[c])) /\ at[c] = "write report"
      BY <1>1, <2>2 DEF Writing
    <3>2. req[c] \in Requests /\ req[c].beads \in BeadSet /\ req[c].key \in seen[c] /\ IsTrue(req[c])
      BY <1>2, <3>1 DEF HistTypes, CallInv, Storing
    <3>3. Report(req[c]) \in [art : Artifact, beads : BeadSet]
          /\ Report(req[c]).beads = req[c].beads /\ Report(req[c]).art = req[c].art
      BY <3>2 DEF Report, Requests
    <3>4. \/ HeadReturns
          \/ /\ Report(req[c]).beads = req[c].beads /\ Report(req[c]).art.events \in seen[c]
             /\ Report(req[c]).art.walk \in seen[c]
      BY <3>2, <3>3 DEF IsTrue
    <3>5. /\ req' \in [Caller -> Requests] /\ at' \in [Caller -> Points] /\ at'[c] = "done"
          /\ OthersStay(c) /\ CallInv(c)' /\ ResultInv(c)'
      BY <1>1, <3>1, <3>3, <3>4, ReturnKeeps
    <3> QED
      BY <3>5 DEF WritePoints
  <2> QED
    BY <2>1, <2>2 DEF Layers
<1>8. holder'[f] = Nobody /\ (\A g \in Layers \ {f} : holder'[g] = holder[g])
      /\ holder' \in [Layers -> Caller \cup {Nobody}]
  BY <1>1, <1>2 DEF HistTypes
<1>9. HistTypes'
  BY <1>1, <1>2, <1>6, <1>8 DEF HistTypes
<1>10. FilesInv'
  <2>2. ASSUME NEW g \in Layers, NEW d \in Caller
        PROVE  /\ holder'[g] = d <=> at'[d] = Writing(g)
               /\ at'[d] = Writing(g) => IsFile(g, req'[d].buf)
    <3>1. CASE d = c
      <4>1. at'[d] # Writing(g)
        BY <1>6, <3>1, WritingIs
      <4>2. holder'[g] # d
        <5>1. CASE g = f
          BY <1>8, <3>1, <5>1, HistAssumption DEF Nobody
        <5>2. CASE g # f
          <6>1. at[c] # Writing(g)
            BY <1>1, <5>2, WritingIs
          <6> QED
            BY <1>2, <1>8, <3>1, <5>2, <6>1 DEF FilesInv
        <5> QED
          BY <5>1, <5>2
      <4> QED
        BY <4>1, <4>2
    <3>2. CASE d # c
      <4>1. at'[d] = at[d] /\ req'[d] = req[d]
        BY <1>6, <3>2 DEF OthersStay
      <4>2. holder'[g] = d <=> holder[g] = d
        BY <1>5, <1>8, <3>2, HistAssumption DEF Nobody
      <4> QED
        BY <1>2, <4>1, <4>2 DEF FilesInv
    <3> QED
      BY <3>1, <3>2
  <2> QED
    BY <2>2 DEF FilesInv, IsFile, EntryOf, EntryFor, Storable, IsTrue
<1>11. ASSUME NEW g \in Layers \ {f}
       PROVE  /\ holder'[g] = holder[g] /\ holder[g] # c
              /\ holder[g] # Nobody => req'[holder[g]] = req[holder[g]]
  <2>1. holder[g] # c
    <3>1. at[c] # Writing(g)
      BY <1>1, WritingIs
    <3> QED
      BY <1>2, <3>1 DEF FilesInv
  <2> QED
    BY <1>2, <1>6, <1>8, <2>1 DEF HistTypes, OthersStay
<1> QED
  BY <1>3, <1>5, <1>6, <1>8, <1>9, <1>10, <1>11

\* The file is written and unlocked: nothing the writer read is lost but what it evicted.
LEMMA EndPutKeeps ==
    ASSUME HistInvariant, NEW c \in Caller, NEW f \in Layers, EndPut(c, f) PROVE HistInvariant'
<1> DEFINE new == Stored(c, f)
<1>1. /\ at[c] = Writing(f) /\ AfterPut(c, f)
      /\ cached' = [cached EXCEPT ![f] = [entries |-> new, torn |-> FALSE]]
      /\ kept' = (kept \cup {<<f, Key(f, req[c])>>}) \ (KeysOf(f, req[c].buf) \ KeysOf(f, new))
  BY DEF EndPut
<1>2. HistTypes /\ FilesInv /\ KeptInv
  BY DEF HistInvariant
<1>3. at[c] \in Storing
  BY <1>1 DEF Writing, Storing
<1>4. IsFile(f, new) /\ <<f, Key(f, req[c])>> \in KeysOf(f, new)
  <2>1. IsFile(f, req[c].buf)
    BY <1>1, <1>2 DEF FilesInv
  <2>2. EntryFor(f, req[c]) \in EntryOf(f)
    BY <1>3, RequestIsStorable
  <2> QED
    BY <2>1, <2>2, StoredIsFile
<1> HIDE DEF new
<1>7. /\ cached'[f].entries = new /\ cached'[f].torn = FALSE
      /\ \A g \in Layers \ {f} : cached'[g] = cached[g]
      /\ cached' \in [Layers -> [entries : UNION {Seq(EntryOf(g)) : g \in Layers}, torn : BOOLEAN]]
  <2>1. new \in UNION {Seq(EntryOf(g)) : g \in Layers}
    BY <1>4 DEF IsFile
  <2> QED
    BY <1>1, <1>2, <2>1 DEF HistTypes
<1>8. \A g \in Layers : IsFile(g, cached'[g].entries)
  BY <1>2, <1>4, <1>7 DEF FilesInv
<1>9. /\ HistTypes' /\ FilesInv' /\ CallInv(c)' /\ ResultInv(c)' /\ OthersStay(c)
      /\ holder[f] = c /\ holder'[f] = Nobody
      /\ \A g \in Layers \ {f} :
            /\ holder'[g] = holder[g] /\ holder[g] # c
            /\ holder[g] # Nobody => req'[holder[g]] = req[holder[g]]
  BY <1>1, <1>7, <1>8, AfterPutKeeps
<1>11. KeptInv'
  <2> SUFFICES ASSUME NEW e \in kept'
               PROVE  /\ e[1] \in Layers
                      /\ holder'[e[1]] = Nobody => e \in KeysOf(e[1], Entries(e[1])')
                      /\ holder'[e[1]] # Nobody => e \in KeysOf(e[1], req'[holder'[e[1]]].buf)
    BY DEF KeptInv, KeysOf
  <2>1. CASE e = <<f, Key(f, req[c])>>
    <3>1. e[1] = f /\ Entries(f)' = new
      BY <1>7, <2>1 DEF Entries
    <3> QED
      BY <1>4, <1>9, <2>1, <3>1
  <2>2. CASE e \in kept
    <3>1. /\ e[1] \in Layers
          /\ holder[e[1]] = Nobody => e \in KeysOf(e[1], Entries(e[1]))
          /\ holder[e[1]] # Nobody => e \in KeysOf(e[1], req[holder[e[1]]].buf)
      BY <1>2, <2>2 DEF KeptInv
    <3>2. CASE e[1] = f
      <4>1. e \in KeysOf(f, req[c].buf)
        BY <1>9, <3>1, <3>2, HistAssumption DEF Nobody
      <4>2. e \in KeysOf(f, new)
        BY <1>1, <4>1
      <4>3. Entries(f)' = new
        BY <1>7 DEF Entries
      <4> QED
        BY <1>9, <3>2, <4>2, <4>3
    <3>3. CASE e[1] # f
      <4>1. holder'[e[1]] = holder[e[1]] /\ Entries(e[1])' = Entries(e[1])
        BY <1>7, <1>9, <3>1, <3>3 DEF Entries
      <4>2. holder[e[1]] # Nobody => req'[holder[e[1]]] = req[holder[e[1]]]
        BY <1>9, <3>1, <3>3
      <4> QED
        BY <3>1, <4>1, <4>2
    <3> QED
      BY <3>2, <3>3
  <2> QED
    BY <1>1, <2>1, <2>2
<1> QED
  BY <1>9, <1>11, StepKeeps

\* The write fails and the file is unlocked: the entries of the other file are all kept.
LEMMA PutFailsKeeps ==
    ASSUME HistInvariant, NEW c \in Caller, NEW f \in Layers, PutFails(c, f) PROVE HistInvariant'
<1>1. /\ at[c] = Writing(f) /\ AfterPut(c, f) /\ cached' = cached
      /\ kept' = {e \in kept : e[1] # f}
  BY DEF PutFails
<1>2. HistTypes /\ FilesInv /\ KeptInv
  BY DEF HistInvariant
<1>3. /\ \A g \in Layers : IsFile(g, cached'[g].entries)
      /\ cached' \in [Layers -> [entries : UNION {Seq(EntryOf(g)) : g \in Layers}, torn : BOOLEAN]]
  BY <1>1, <1>2 DEF FilesInv, HistTypes
<1>4. /\ HistTypes' /\ FilesInv' /\ CallInv(c)' /\ ResultInv(c)' /\ OthersStay(c)
      /\ \A g \in Layers \ {f} :
            /\ holder'[g] = holder[g]
            /\ holder[g] # Nobody => req'[holder[g]] = req[holder[g]]
  BY <1>1, <1>3, AfterPutKeeps
<1>5. KeptInv'
  <2> SUFFICES ASSUME NEW e \in kept'
               PROVE  /\ e[1] \in Layers
                      /\ holder'[e[1]] = Nobody => e \in KeysOf(e[1], Entries(e[1])')
                      /\ holder'[e[1]] # Nobody => e \in KeysOf(e[1], req'[holder'[e[1]]].buf)
    BY DEF KeptInv, KeysOf
  <2>1. /\ e[1] \in Layers \ {f}
        /\ holder[e[1]] = Nobody => e \in KeysOf(e[1], Entries(e[1]))
        /\ holder[e[1]] # Nobody => e \in KeysOf(e[1], req[holder[e[1]]].buf)
    BY <1>1, <1>2 DEF KeptInv
  <2>2. Entries(e[1])' = Entries(e[1])
    BY <1>1 DEF Entries
  <2> QED
    BY <1>4, <2>1, <2>2
<1> QED
  BY <1>4, <1>5, StepKeeps

\* A caller dies; the file it was writing stays cut short and is nobody's.
LEMMA DeathKeeps ==
    ASSUME HistInvariant, NEW c \in Caller, CallerDies(c) PROVE HistInvariant'
<1>1. /\ at[c] \notin {"start", "done", "dead"} /\ UNCHANGED <<head, moves, cached, req, seen>>
      /\ at' = [at EXCEPT ![c] = "dead"]
      /\ holder' = [f \in Layers |-> IF holder[f] = c THEN Nobody ELSE holder[f]]
      /\ kept' = {e \in kept : at[c] # Writing(e[1])}
  BY DEF CallerDies, Go
<1>2. HistTypes /\ FilesInv /\ KeptInv /\ CallInv(c) /\ ResultInv(c)
  BY DEF HistInvariant
<1>3. OthersStay(c) /\ at'[c] = "dead" /\ at' \in [Caller -> Points]
  BY <1>1, <1>2 DEF OthersStay, HistTypes, Points
<1>4. holder' \in [Layers -> Caller \cup {Nobody}]
  BY <1>1, <1>2 DEF HistTypes
<1>5. HistTypes'
  BY <1>1, <1>2, <1>3, <1>4 DEF HistTypes
<1>6. FilesInv'
  <2>1. ASSUME NEW g \in Layers, NEW d \in Caller
        PROVE  /\ holder'[g] = d <=> at'[d] = Writing(g)
               /\ at'[d] = Writing(g) => IsFile(g, req'[d].buf)
    <3>1. "dead" # Writing(g)
      BY DEF Writing
    <3>2. CASE d = c
      BY <1>1, <1>3, <3>1, <3>2, HistAssumption DEF Nobody
    <3>3. CASE d # c
      <4>1. at'[d] = at[d] /\ req'[d] = req[d]
        BY <1>3, <3>3 DEF OthersStay
      <4>2. holder'[g] = d <=> holder[g] = d
        BY <1>1, <3>3, HistAssumption DEF Nobody
      <4> QED
        BY <1>2, <4>1, <4>2 DEF FilesInv
    <3> QED
      BY <3>2, <3>3
  <2>2. \A g \in Layers : IsFile(g, cached'[g].entries)
    BY <1>1, <1>2 DEF FilesInv
  <2> QED
    BY <2>1, <2>2 DEF FilesInv, IsFile, EntryOf, EntryFor, Storable, IsTrue
<1>7. KeptInv'
  <2> SUFFICES ASSUME NEW e \in kept'
               PROVE  /\ e[1] \in Layers
                      /\ holder'[e[1]] = Nobody => e \in KeysOf(e[1], Entries(e[1])')
                      /\ holder'[e[1]] # Nobody => e \in KeysOf(e[1], req'[holder'[e[1]]].buf)
    BY DEF KeptInv, KeysOf
  <2>1. /\ e[1] \in Layers /\ at[c] # Writing(e[1])
        /\ holder[e[1]] = Nobody => e \in KeysOf(e[1], Entries(e[1]))
        /\ holder[e[1]] # Nobody => e \in KeysOf(e[1], req[holder[e[1]]].buf)
    BY <1>1, <1>2 DEF KeptInv
  <2>2. holder[e[1]] # c
    BY <1>2, <2>1 DEF FilesInv
  <2>3. holder'[e[1]] = holder[e[1]] /\ Entries(e[1])' = Entries(e[1])
    BY <1>1, <2>1, <2>2 DEF Entries
  <2> QED
    BY <1>1, <2>1, <2>3
<1>8. CallInv(c)' /\ ResultInv(c)'
  <2>1. CallInv(c)'
    BY <1>1, <1>2, <1>3 DEF CallInv, Storing
  <2>2. ResultInv(c)'
    BY <1>1, <1>2, <1>3 DEF ResultInv
  <2> QED
    BY <2>1, <2>2
<1> QED
  BY <1>3, <1>5, <1>6, <1>7, <1>8, StepKeeps

\* A step that touches neither the files nor the calls.
LEMMA SharedStays ==
    ASSUME FilesInv, KeptInv, UNCHANGED <<cached, holder, at, req, kept>>
    PROVE  FilesInv' /\ KeptInv'
<1>1. FilesInv'
  BY DEF FilesInv
<1>2. KeptInv'
  <2>1. \A f : Entries(f)' = Entries(f)
    BY DEF Entries
  <2> QED
    BY <2>1 DEF KeptInv, KeysOf
<1> QED
  BY <1>1, <1>2

\* HEAD moves to a commit that no call has seen, or HeadReturns.
LEMMA MoveKeeps ==
    ASSUME HistInvariant, HeadMoves PROVE HistInvariant'
<1>1. PICK h \in 1 .. MaxHead :
         /\ h # head
         /\ HeadReturns \/ \A c \in Calling : h \notin seen[c]
         /\ head' = h
         /\ seen' = [c \in Caller |-> IF c \in Calling THEN seen[c] \cup {h} ELSE seen[c]]
  BY DEF HeadMoves
<1>2. moves < MaxMoves /\ moves' = moves + 1 /\ UNCHANGED <<cached, holder, at, req, kept>>
  BY DEF HeadMoves
<1>3. HistTypes /\ FilesInv /\ KeptInv
  BY DEF HistInvariant
<1>4. HistTypes'
  <2>1. seen' \in [Caller -> SUBSET Nat]
    BY <1>1, <1>3, HistAssumption DEF HistTypes
  <2>2. head' \in 1 .. MaxHead /\ moves' \in 0 .. MaxMoves
    BY <1>1, <1>2, <1>3, HistAssumption DEF HistTypes
  <2> QED
    BY <1>2, <1>3, <2>1, <2>2 DEF HistTypes
<1>5. FilesInv' /\ KeptInv'
  BY <1>2, <1>3, SharedStays
<1>6. ASSUME NEW c \in Caller PROVE CallInv(c)' /\ ResultInv(c)'
  <2>1. CallInv(c) /\ ResultInv(c)
    BY DEF HistInvariant
  <2>2. at'[c] = at[c] /\ req'[c] = req[c] /\ seen[c] \subseteq seen'[c]
    BY <1>1, <1>2
  <2>3. c \in Calling <=> at[c] \notin {"start", "done", "dead"}
    BY DEF Calling
  <2>4. ResultInv(c)'
    BY <2>1, <2>2 DEF ResultInv
  <2>5. CallInv(c)'
    <3>1. CASE c \notin Calling
      BY <2>1, <2>2, <2>3, <3>1 DEF CallInv, Storing
    <3>2. CASE c \in Calling
      <4>1. head' \in seen'[c]
        BY <1>1, <3>2
      <4>2. req[c].key \in seen[c]
        BY <2>1, <2>3, <3>2 DEF CallInv
      <4>3. HeadReturns \/ head' # req[c].key
        BY <1>1, <3>2, <4>2
      <4> QED
        BY <2>1, <2>2, <4>1, <4>3 DEF CallInv, IsTrue
    <3> QED
      BY <3>1, <3>2
  <2> QED
    BY <2>4, <2>5
<1> QED
  BY <1>4, <1>5, <1>6 DEF HistInvariant

\* Every step of the calls, of git and of the kernel keeps the invariant.
LEMMA HistStep == HistInvariant /\ [HistNext]_histVars => HistInvariant'
<1> SUFFICES ASSUME HistInvariant, [HistNext]_histVars PROVE HistInvariant'
  OBVIOUS
<1>1. CASE HeadMoves
  BY <1>1, MoveKeeps
<1>2. ASSUME NEW c \in Caller, CallStep(c) \/ CallerDies(c) PROVE HistInvariant'
  <2>1. ASSUME NEW f \in Layers, BeginPut(c, f) \/ EndPut(c, f) \/ PutFails(c, f)
        PROVE  HistInvariant'
    BY <2>1, BeginPutKeeps, EndPutKeeps, PutFailsKeeps
  <2> QED
    BY <1>2, <2>1, StartKeeps, ReportLookupKeeps, ArtifactLookupKeeps, ExtractionKeeps, RecheckKeeps,
       DeathKeeps DEF CallStep
<1>3. CASE UNCHANGED histVars
  <2>1. UNCHANGED <<head, moves, cached, holder, at, req, kept, seen>>
    BY <1>3 DEF histVars
  <2>2. HistTypes'
    BY <2>1 DEF HistInvariant, HistTypes
  <2>3. FilesInv' /\ KeptInv'
    BY <2>1, SharedStays DEF HistInvariant
  <2>4. ASSUME NEW c \in Caller PROVE CallInv(c)' /\ ResultInv(c)'
    BY <2>1 DEF HistInvariant, CallInv, ResultInv, IsTrue
  <2> QED
    BY <2>2, <2>3, <2>4 DEF HistInvariant
<1> QED
  BY <1>1, <1>2, <1>3 DEF HistNext

\* The inductive invariant holds in every reachable state, whether or not HEAD may come
\* back to a commit.
THEOREM HistInvariantHolds == HistSpec => []HistInvariant
  BY HistInitHolds, HistStep, PTL DEF HistSpec

\* The type invariant: who holds a file is writing it, a file has at most MaxEntries
\* entries of different keys, and a call is done when it has its report.
THEOREM HistTypeCorrect == HistSpec => []HistTypeOK
<1>1. HistInvariant => HistTypeOK
  <2> SUFFICES ASSUME HistInvariant PROVE HistTypeOK
    OBVIOUS
  <2>1. HistTypes /\ FilesInv /\ \A c \in Caller : ResultInv(c)
    BY DEF HistInvariant
  <2>2. ASSUME NEW f \in Layers
        PROVE  /\ holder[f] # Nobody => at[holder[f]] = Writing(f)
               /\ Len(cached[f].entries) <= MaxEntries
               /\ \A j, k \in DOMAIN cached[f].entries :
                     cached[f].entries[j].key = cached[f].entries[k].key => j = k
    <3>1. holder[f] # Nobody => holder[f] \in Caller
      BY <2>1 DEF HistTypes
    <3> QED
      BY <2>1, <3>1 DEF FilesInv, IsFile, Unique
  <2>3. ASSUME NEW c \in Caller PROVE (at[c] = "done") <=> (Len(req[c].result) = 1)
    <3>1. req[c].result \in {<<>>} \cup {<<r>> : r \in [art : Artifact, beads : BeadSet]}
      BY <2>1 DEF HistTypes, Requests
    <3>2. Len(<<>>) = 0 /\ \A x : Len(<<x>>) = 1
      OBVIOUS
    <3>3. (req[c].result # <<>>) <=> (Len(req[c].result) = 1)
      BY <3>1, <3>2
    <3> QED
      BY <2>1, <3>3 DEF ResultInv
  <2> QED
    BY <2>1, <2>2, <2>3 DEF HistTypeOK, HistTypes
<1> QED
  BY <1>1, HistInvariantHolds, PTL

\* What one process stored is found by the next unless it was evicted, or a process died or
\* failed after it truncated that file, for any number of processes, crashes and failing
\* writes: putCorrelationDiskCachedReport reads the file under the lock it rewrites it under.
THEOREM StoredEntriesAreKeptHolds == HistSpec => []StoredEntriesAreKept
<1>1. HistInvariant => StoredEntriesAreKept
  BY DEF HistInvariant, KeptInv, StoredEntriesAreKept
<1> QED
  BY <1>1, HistInvariantHolds, PTL

\* As long as HEAD does not come back to a commit in the course of a call, a report is of
\* the caller's beads and of what HEAD was during the call, nothing stored is lost but by a
\* rewrite that does not get to its end, and a
\* history in the artifact file is of the commit of its key (GenerateReportCached).
THEOREM HistoryIsCachedTrulyHolds ==
    ASSUME ~HeadReturns
    PROVE  HistSpec => [](HistoryIsCachedTruly /\ CachedHistoryMatchesKey)
<1>1. HistInvariant => HistoryIsCachedTruly
  <2> SUFFICES ASSUME HistInvariant PROVE ReportIsOfTheCall
    BY DEF HistInvariant, KeptInv, StoredEntriesAreKept, HistoryIsCachedTruly
  <2> QED
    BY DEF HistInvariant, ResultInv, ReportIsOfTheCall
<1>2. HistInvariant => CachedHistoryMatchesKey
  <2> SUFFICES ASSUME HistInvariant, NEW k \in DOMAIN cached["artifact"].entries
               PROVE  cached["artifact"].entries[k].value
                         = [events |-> cached["artifact"].entries[k].key[1],
                            walk |-> cached["artifact"].entries[k].key[1]]
    BY DEF CachedHistoryMatchesKey
  <2>1. cached["artifact"].entries \in Seq(EntryOf("artifact"))
    BY DEF HistInvariant, FilesInv, IsFile, Layers
  <2>2. PICK r \in Storable : cached["artifact"].entries[k] = EntryFor("artifact", r)
    BY <2>1 DEF EntryOf
  <2>3. /\ cached["artifact"].entries[k].key = <<r.key>> /\ cached["artifact"].entries[k].value = r.art
        /\ r.art = [events |-> r.key, walk |-> r.key]
    BY <2>2 DEF EntryFor, Key, Value, Storable, Asked, Artifact, IsTrue
  <2> QED
    BY <2>3
<1> QED
  BY <1>1, <1>2, HistInvariantHolds, PTL

-----------------------------------------------------------------------------
(* The five parts.                                                         *)

\* A behaviour of MCFiles is one of each part, of which at most one moves.
LEMMA EachPart == FilesSpec => Spec /\ WatcherSpec /\ AgentSpec /\ UpdSpec /\ HistSpec
<1>1. FilesInit => Init /\ WatcherInit /\ AgentInit /\ UpdInit /\ HistInit
  BY DEF FilesInit
<1>2. [FilesNext]_filesVars =>
         [Next]_vars /\ [WatcherNext]_watcherVars /\ [AgentNext]_agentVars /\ [UpdNext]_updVars /\ [HistNext]_histVars
  <2>1. CASE UNCHANGED filesVars
    BY <2>1 DEF filesVars
  <2>2. CASE FilesNext
    BY <2>2 DEF FilesNext, OnLock, OnWatcher, OnAgents, OnUpdater, OnHistory
  <2> QED
    BY <2>1, <2>2
<1> QED
  BY <1>1, <1>2, PTL DEF FilesSpec, Spec, WatcherSpec, AgentSpec, UpdSpec, HistSpec

\* The type invariants of the five parts, for every value of the constants.
THEOREM FilesTypeCorrect == FilesFairSpec => []FilesTypeOK
<1>1. FilesFairSpec => FilesSpec
  BY PTL DEF FilesFairSpec
<1>2. Spec => []TypeOK
  BY TypeCorrect
<1>3. WatcherSpec => []WatcherTypeOK
  BY WatcherTypeCorrect
<1>4. AgentSpec => []AgentTypeOK
  BY AgentTypeCorrect
<1>5. UpdSpec => []UpdTypeOK
  <2>1. UpdInv => UpdTypeOK
    BY DEF UpdInv
  <2> QED
    BY <2>1, UpdInvariant, PTL
<1>6. HistSpec => []HistTypeOK
  BY HistTypeCorrect
<1>7. TypeOK /\ WatcherTypeOK /\ AgentTypeOK /\ UpdTypeOK /\ HistTypeOK => FilesTypeOK
  BY DEF FilesTypeOK
<1> QED
  BY <1>1, <1>2, <1>3, <1>4, <1>5, <1>6, <1>7, EachPart, PTL
=============================================================================
