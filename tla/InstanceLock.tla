------------------------------ MODULE InstanceLock ------------------------------
(***************************************************************************)
(* The lock file .beads/.bv.lock of pkg/instance/lock.go: which of several *)
(* bv processes on one repository is the primary.                          *)
(*                                                                         *)
(* Every file-system call of NewLock, checkStale, takeOverStaleLock and    *)
(* Release is a step of its own, because other processes run between them. *)
(* A member of Proc is one run of bv; it creates at most one lock file     *)
(* (with O_EXCL or by renaming its temporary file), so the process that    *)
(* created a file also identifies its inode, its pid and its owner id.     *)
(***************************************************************************)
EXTENDS Naturals, FiniteSets

CONSTANTS Proc,      \* the runs of bv, one pid and one owner id each
          NoProc,    \* "pid 0": holder unknown
          IOFaults   \* whether writing, renaming or removing a lock file may fail

ASSUME NoProcAssumption == NoProc \notin Proc

VARIABLES
    file,       \* the file at the lock path, or NoFile
    pc,         \* where each process is in NewLock ... Release
    isFirst,    \* Lock.isFirst
    pid,        \* Lock.pid: what HolderPID reports
    currentPID, \* checkStale's local: the holder it is about to look up
    renamed,    \* history: the processes whose rename replaced the lock file
    ioFailed,   \* history: the processes whose write or rename failed
    unremoved   \* history: the processes whose removal of the lock file failed

vars == <<file, pc, isFirst, pid, currentPID, renamed, ioFailed, unremoved>>

NoFile == [by |-> NoProc, readable |-> FALSE, aged |-> FALSE]

\* A lock file: who created it, whether its JSON has been written, and whether
\* its modification time is unreadableLockTakeoverAge or more in the past.
LockFile == [by : Proc, readable : BOOLEAN, aged : BOOLEAN]

Stages == {"start", "writing", "peek", "recheck", "alive?", "stat", "takeover",
           "verify", "running", "removing", "failed", "exited", "crashed"}

Gone == {"failed", "exited", "crashed"}

isProcessAlive(p) == pc[p] \notin Gone \cup {"start"}

Init ==
    /\ file = NoFile
    /\ pc = [p \in Proc |-> "start"]
    /\ isFirst = [p \in Proc |-> FALSE]
    /\ pid = [p \in Proc |-> NoProc]
    /\ currentPID = [p \in Proc |-> NoProc]
    /\ renamed = {} /\ ioFailed = {} /\ unremoved = {}

Goto(p, stage) == pc' = [pc EXCEPT ![p] = stage]

-----------------------------------------------------------------------------
(* NewLock *)

\* Fault: O_TRUNC in place of O_EXCL.
CreateWithoutExcl(p) ==
    /\ pc[p] = "start"
    /\ file' = [by |-> p, readable |-> FALSE, aged |-> FALSE]
    /\ Goto(p, "writing")
    /\ UNCHANGED <<isFirst, pid, currentPID, renamed, ioFailed, unremoved>>

\* os.OpenFile with O_EXCL, which decides between the two halves of NewLock.
CreateExclusive(p) ==
    /\ pc[p] = "start"
    /\ \/ /\ file = NoFile
          /\ file' = [by |-> p, readable |-> FALSE, aged |-> FALSE]
          /\ Goto(p, "writing")
       \/ /\ file # NoFile
          /\ Goto(p, "peek")
          /\ UNCHANGED file
    /\ UNCHANGED <<isFirst, pid, currentPID, renamed, ioFailed, unremoved>>

\* writeLockInfo goes to the open file, which may no longer be at the path.
WriteLockInfo(p) ==
    /\ pc[p] = "writing"
    /\ file' = IF file.by = p THEN [file EXCEPT !.readable = TRUE] ELSE file
    /\ isFirst' = [isFirst EXCEPT ![p] = TRUE]
    /\ pid' = [pid EXCEPT ![p] = p]
    /\ Goto(p, "running")
    /\ UNCHANGED <<currentPID, renamed, ioFailed, unremoved>>

\* os.Remove acts on the path, whoever's file is there. Only a file that is there
\* can fail to be removed (os.IsNotExist is no error), and nobody tries again.
RemovePath(p) ==
    \/ file' = NoFile /\ UNCHANGED unremoved
    \/ IOFaults /\ file # NoFile /\ UNCHANGED file /\ unremoved' = unremoved \cup {p}

\* An owner id or a write that fails: removeLockFileBestEffort.
WriteLockInfoFails(p) ==
    /\ IOFaults /\ pc[p] = "writing"
    /\ RemovePath(p)
    /\ Goto(p, "failed")
    /\ ioFailed' = ioFailed \cup {p}
    /\ UNCHANGED <<isFirst, pid, currentPID, renamed>>

\* The first readLockFile of the path that exists.
ReadExisting(p) ==
    /\ pc[p] = "peek"
    /\ pid' = [pid EXCEPT ![p] = IF file.readable THEN file.by ELSE NoProc]
    /\ Goto(p, "recheck")
    /\ UNCHANGED <<file, isFirst, currentPID, renamed, ioFailed, unremoved>>

-----------------------------------------------------------------------------
(* checkStale and takeOverStaleLock *)

Reread(p) ==
    /\ pc[p] = "recheck"
    /\ \/ /\ file.readable
          /\ currentPID' = [currentPID EXCEPT ![p] = file.by]
          /\ Goto(p, "alive?")
       \/ /\ ~file.readable
          /\ Goto(p, "stat")
          /\ UNCHANGED currentPID
    /\ UNCHANGED <<file, isFirst, pid, renamed, ioFailed, unremoved>>

CheckHolder(p) ==
    /\ pc[p] = "alive?"
    /\ \/ /\ isProcessAlive(currentPID[p])
          /\ pid' = [pid EXCEPT ![p] = currentPID[p]]
          /\ Goto(p, "running")
       \/ /\ ~isProcessAlive(currentPID[p])
          /\ Goto(p, "takeover")
          /\ UNCHANGED pid
    /\ UNCHANGED <<file, isFirst, currentPID, renamed, ioFailed, unremoved>>

\* Fault: an unreadable lock file is always somebody's.
NeverTakeOverUnreadable == FALSE

shouldTakeOverUnreadableLock == file # NoFile /\ file.aged

StatUnreadable(p) ==
    /\ pc[p] = "stat"
    /\ Goto(p, IF shouldTakeOverUnreadableLock THEN "takeover" ELSE "running")
    /\ UNCHANGED <<file, isFirst, pid, currentPID, renamed, ioFailed, unremoved>>

\* The temporary file is complete; os.Rename puts it at the path.
Rename(p) ==
    /\ pc[p] = "takeover"
    /\ file' = [by |-> p, readable |-> TRUE, aged |-> FALSE]
    /\ renamed' = renamed \cup {p}
    /\ Goto(p, "verify")
    /\ UNCHANGED <<isFirst, pid, currentPID, ioFailed, unremoved>>

\* The owner id, the temporary file or the rename failed.
TakeOverFails(p) ==
    /\ IOFaults /\ pc[p] = "takeover"
    /\ Goto(p, "running")
    /\ ioFailed' = ioFailed \cup {p}
    /\ UNCHANGED <<file, isFirst, pid, currentPID, renamed, unremoved>>

Verify(p) ==
    /\ pc[p] = "verify"
    /\ LET won == file.readable /\ file.by = p
       IN  /\ isFirst' = [isFirst EXCEPT ![p] = won]
           /\ pid' = [pid EXCEPT ![p] = IF won THEN p ELSE @]
    /\ Goto(p, "running")
    /\ UNCHANGED <<file, currentPID, renamed, ioFailed, unremoved>>

-----------------------------------------------------------------------------
(* Release, and what the environment does *)

ownsCurrentLockFile(p) == file.readable /\ file.by = p /\ pid[p] = p

\* Fault: a lock without an open file (every lock taken over) is not removed.
ReleaseOnlyCreated(p) ==
    /\ pc[p] = "running"
    /\ IF isFirst[p] /\ p \notin renamed /\ ownsCurrentLockFile(p)
       THEN Goto(p, "removing") /\ UNCHANGED isFirst
       ELSE Goto(p, "exited") /\ isFirst' = [isFirst EXCEPT ![p] = FALSE]
    /\ UNCHANGED <<file, pid, currentPID, renamed, ioFailed, unremoved>>

Release(p) ==
    /\ pc[p] = "running"
    /\ IF isFirst[p] /\ ownsCurrentLockFile(p)
       THEN Goto(p, "removing") /\ UNCHANGED isFirst
       ELSE Goto(p, "exited") /\ isFirst' = [isFirst EXCEPT ![p] = FALSE]
    /\ UNCHANGED <<file, pid, currentPID, renamed, ioFailed, unremoved>>

\* Not the file that was read is removed but the path; isFirst is FALSE either way.
Remove(p) ==
    /\ pc[p] = "removing"
    /\ RemovePath(p)
    /\ isFirst' = [isFirst EXCEPT ![p] = FALSE]
    /\ Goto(p, "exited")
    /\ UNCHANGED <<pid, currentPID, renamed, ioFailed>>

Crash(p) ==
    /\ isProcessAlive(p)
    /\ isFirst' = [isFirst EXCEPT ![p] = FALSE]
    /\ Goto(p, "crashed")
    /\ UNCHANGED <<file, pid, currentPID, renamed, ioFailed, unremoved>>

\* Two seconds pass over a file whose JSON is not there yet.
Age ==
    /\ file # NoFile /\ ~file.readable /\ ~file.aged
    /\ file' = [file EXCEPT !.aged = TRUE]
    /\ UNCHANGED <<pc, isFirst, pid, currentPID, renamed, ioFailed, unremoved>>

NewLock(p) ==
    \/ CreateExclusive(p) \/ WriteLockInfo(p) \/ ReadExisting(p)
    \/ Reread(p) \/ CheckHolder(p) \/ StatUnreadable(p)
    \/ Rename(p) \/ Verify(p)

Next ==
    \/ \E p \in Proc : \/ NewLock(p)
                       \/ WriteLockInfoFails(p) \/ TakeOverFails(p)
                       \/ Release(p) \/ Remove(p) \/ Crash(p)
    \/ Age

Spec == Init /\ [][Next]_vars

\* A process inside NewLock is not waiting for anybody: it runs to the end.
\* Nothing makes a process start, exit, crash, fail or be slow enough for Age.
FairSpec == Spec /\ \A p \in Proc : WF_vars(pc[p] # "start" /\ NewLock(p))

-----------------------------------------------------------------------------
TypeOK ==
    /\ file \in LockFile \cup {NoFile}
    /\ pc \in [Proc -> Stages]
    /\ isFirst \in [Proc -> BOOLEAN]
    /\ pid \in [Proc -> Proc \cup {NoProc}]
    /\ currentPID \in [Proc -> Proc \cup {NoProc}]
    /\ {renamed, ioFailed, unremoved} \subseteq SUBSET Proc

AtMostOnePrimary == \A p, q \in Proc : isFirst[p] /\ isFirst[q] => p = q

\* "Verify we won the race by re-reading and checking our owner ID. This handles
\* the case where two processes both rename simultaneously" (lock.go:254): of the
\* live processes that took a stale lock over, at most one believes it won.
TakeoverHasOneWinner ==
    \A p, q \in renamed : isFirst[p] /\ isFirst[q] => p = q

\* As long as no process has taken a lock over, O_EXCL alone decides: one
\* primary, and neither a failed write or removal nor the read-then-remove of Release can
\* delete the lock file of another process and let a second primary in.
OnePrimaryUntilTakeover == renamed = {} => AtMostOnePrimary

\* However its run was interleaved with takeovers, failed writes and crashes of
\* others, a process that left without crashing leaves no lock file of its own,
\* so the next bv need not find its pid dead to become primary, unless the one
\* removal it tried (Release, removeLockFileBestEffort) failed.
CleanExitLeavesNoLock ==
    \A p \in Proc : pc[p] \in {"exited", "failed"} /\ file.by = p => p \in unremoved

\* A lock left behind by dead processes, written or half-written, never blocks
\* the next bv: one that finds it, with nobody else alive, ends up primary
\* unless it crashes first or its own takeover fails.
AloneWithStaleLock(p) ==
    /\ pc[p] = "peek"
    /\ \A q \in Proc \ {p} : pc[q] \in Gone
    /\ file # NoFile /\ (file.readable \/ file.aged)

StaleLockRecovered ==
    \A p \in Proc : AloneWithStaleLock(p) ~> (isFirst[p] \/ pc[p] = "crashed" \/ p \in ioFailed)

=============================================================================
