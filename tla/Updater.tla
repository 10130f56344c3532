-------------------------------- MODULE Updater --------------------------------
(***************************************************************************)
(* pkg/updater: PerformUpdate replaces the installed binary with a verified*)
(* download and Rollback puts the backup back, by renames that may fail,   *)
(* copies that may stop half way and a process that may die at every step. *)
(* One run at a time; a run needs a working binary to be started from.     *)
(***************************************************************************)
EXTENDS Naturals

CONSTANTS
    MaxFaults,   \* bound: file operations that fail, and crashes
    MaxRuns      \* bound: updates and rollbacks

VARIABLES
    files,     \* what is at the binary's path, the backup, .bad, the download
    phase,     \* where the run is
    copying,   \* source, target and continuations of the copyFile in progress
    moved,     \* the binary was renamed away (movedForBackup, movedToBad)
    result,    \* how the last run ended
    faults, runs,
    torn       \* history: a copy to the backup path was cut short

updVars == <<files, phase, copying, moved, result, faults, runs, torn>>

Places == {"binary", "backup", "bad", "download"}
Contents == {"none", "partial", "corrupt", "old", "new"}
Works(content) == content \in {"old", "new"}
NotCopying == [from |-> "none", to |-> "none", then |-> "none", else |-> "none"]

UpdInit ==
    /\ files = [p \in Places |-> IF p = "binary" THEN "old" ELSE "none"]
    /\ phase = "idle" /\ copying = NotCopying /\ moved = FALSE
    /\ result = "none" /\ faults = 0 /\ runs = 0 /\ torn = FALSE

Fault == faults < MaxFaults /\ faults' = faults + 1
Fine == UNCHANGED faults

Moved(fs, from, to) == [fs EXCEPT ![to] = fs[from], ![from] = "none"]
Removed(fs, p) == [fs EXCEPT ![p] = "none"]

UpdGoto(next) == phase' = next /\ UNCHANGED <<copying, result, runs, torn>>
End(how) == phase' = "idle" /\ result' = how /\ UNCHANGED <<copying, runs, torn>>

(* copyFile opens the target with O_TRUNC.                                 *)
StartCopy(fs, from, to, then, else) ==
    /\ files' = [fs EXCEPT ![to] = "partial"]
    /\ copying' = [from |-> from, to |-> to, then |-> then, else |-> else]
    /\ phase' = "copy"
    /\ UNCHANGED <<result, runs, torn>>

-----------------------------------------------------------------------------
BeginUpdate ==
    /\ phase = "idle" /\ runs < MaxRuns /\ files["binary"] = "old"
    /\ runs' = runs + 1 /\ phase' = "fetch" /\ moved' = FALSE /\ result' = "none"
    /\ Fine /\ UNCHANGED <<files, copying, torn>>

\* Checksums, the archive, and the binary extracted into a temporary directory.
Fetch ==
    /\ phase = "fetch"
    /\ \E c \in {"new", "corrupt"} : files' = [files EXCEPT !["download"] = c]
    /\ UpdGoto("verify") /\ Fine /\ UNCHANGED moved

\* The digests of manifest and archive, and the version the new binary reports.
verifyBinaryVersion == files["download"] = "new"

VerifyDownload ==
    /\ phase = "verify"
    /\ IF verifyBinaryVersion THEN UpdGoto("backup") /\ UNCHANGED files
       ELSE End("failed") /\ files' = Removed(files, "download")
    /\ Fine /\ UNCHANGED moved

BackUp ==
    /\ phase = "backup"
    /\ \/ Fine /\ files' = Moved(files, "binary", "backup") /\ moved' = TRUE /\ UpdGoto("install")
       \/ Fault /\ StartCopy(files, "binary", "backup", "install", "failed") /\ UNCHANGED moved

Install ==
    /\ phase = "install"
    /\ \/ Fine /\ files' = Moved(files, "download", "binary") /\ End("updated")
       \/ /\ Fault
          /\ StartCopy(IF moved THEN files ELSE Removed(files, "binary"),
                       "download", "binary", "updated", "restore")
    /\ UNCHANGED moved

Restore ==
    /\ phase = "restore"
    /\ \/ Fine /\ files' = Moved(files, "backup", "binary") /\ End("restored")
       \/ Fault /\ StartCopy(files, "backup", "binary", "restored", "unrestored")
    /\ UNCHANGED moved

-----------------------------------------------------------------------------
\* Fault: the backup is not looked for.
BackupNotNeeded == TRUE

BackupExists == files["backup"] # "none"

BeginRollback ==
    /\ phase = "idle" /\ runs < MaxRuns /\ Works(files["binary"])
    /\ BackupExists
    /\ runs' = runs + 1 /\ phase' = "aside" /\ moved' = FALSE /\ result' = "none"
    /\ files' = Removed(files, "bad")
    /\ Fine /\ UNCHANGED <<copying, torn>>

SetAside ==
    /\ phase = "aside"
    /\ \/ Fine /\ files' = Moved(files, "binary", "bad") /\ moved' = TRUE
       \/ Fault /\ UNCHANGED <<files, moved>>
    /\ UpdGoto("putBack")

PutBack ==
    /\ phase = "putBack"
    /\ \/ Fine /\ files' = Moved(files, "backup", "binary") /\ UpdGoto("cleanUp")
       \/ /\ Fault
          /\ StartCopy(IF moved THEN files ELSE Removed(files, "binary"),
                       "backup", "binary", "cleanUp", "undo")
    /\ UNCHANGED moved

Undo ==
    /\ phase = "undo"
    /\ \/ Fine /\ files' = (IF moved THEN Moved(files, "bad", "binary") ELSE files)
       \/ Fault /\ UNCHANGED files
    /\ End("rollback failed") /\ UNCHANGED moved

CleanUp ==
    /\ phase = "cleanUp"
    /\ \/ Fine /\ files' = (IF moved THEN Removed(files, "bad") ELSE files)
       \/ Fault /\ UNCHANGED files
    /\ End("rolled back") /\ UNCHANGED moved

-----------------------------------------------------------------------------
Outcomes == {"failed", "restored", "unrestored", "updated", "rolled back", "rollback failed"}

Leave(next) == IF next \in Outcomes THEN phase' = "idle" /\ result' = next
               ELSE phase' = next /\ UNCHANGED result

CopyDone ==
    /\ phase = "copy"
    /\ files' = [files EXCEPT ![copying.to] = files[copying.from]]
    /\ Leave(copying.then) /\ copying' = NotCopying
    /\ Fine /\ UNCHANGED <<moved, runs, torn>>

\* The disk is full, or the source cannot be read.
CopyFails ==
    /\ phase = "copy"
    /\ Fault /\ Leave(copying.else) /\ copying' = NotCopying
    /\ torn' = (torn \/ copying.to = "backup")
    /\ UNCHANGED <<files, moved, runs>>

UpdateCrashes ==
    /\ phase # "idle" /\ Fault
    /\ torn' = (torn \/ copying.to = "backup")
    /\ phase' = "idle" /\ result' = "crashed" /\ copying' = NotCopying
    /\ files' = Removed(files, "download")
    /\ UNCHANGED <<moved, runs>>

UpdNext ==
    \/ BeginUpdate \/ Fetch \/ VerifyDownload \/ BackUp \/ Install \/ Restore
    \/ BeginRollback \/ SetAside \/ PutBack \/ Undo \/ CleanUp
    \/ CopyDone \/ CopyFails \/ UpdateCrashes

UpdSpec == UpdInit /\ [][UpdNext]_updVars

-----------------------------------------------------------------------------
Phases == {"idle", "fetch", "verify", "backup", "install", "restore", "aside",
           "putBack", "undo", "cleanUp", "copy"}

UpdTypeOK ==
    /\ files \in [Places -> Contents]
    /\ phase \in Phases /\ (phase = "copy" <=> copying # NotCopying)
    /\ result \in Outcomes \cup {"none", "crashed"}
    /\ moved \in BOOLEAN /\ torn \in BOOLEAN /\ faults \in Nat /\ runs \in Nat

(* Whatever fails and wherever the process dies, a complete binary is left *)
(* under one of the three names (PerformUpdate, Rollback); except after a  *)
(* copy that tore the backup, which Rollback does not verify.              *)
RecoverableBinary ==
    ~torn => \E p \in {"binary", "backup", "bad"} : Works(files[p])

(* What the run reported is what is installed: an update that says it      *)
(* failed left the old binary, one that could not be undone left the backup*)
(* its message names, success means the verified version.                  *)
OutcomeIsTrue ==
    phase = "idle" =>
        /\ result \in {"failed", "restored"} => files["binary"] = "old"
        /\ result = "unrestored" => files["backup"] = "old"
        /\ result = "updated" => files["binary"] = "new"
        /\ result = "rolled back" /\ ~torn => Works(files["binary"])

(* PerformUpdate and Rollback keep their word: a complete binary is left   *)
(* wherever they fail or die, and what they report is what is installed.   *)
UpdatesKeepTheirWord == RecoverableBinary /\ OutcomeIsTrue

=============================================================================
