------------------------------- MODULE HumanEdit -------------------------------
(***************************************************************************)
(* pkg/ui/human_edit.go: an issue edited as a markdown file in a terminal  *)
(* editor while other processes go on changing the same issue through br.  *)
(* In the async mode (WezTerm) the program polls the file and applies every*)
(* save; in the synchronous mode the event loop is suspended until the     *)
(* editor exits.  Pickers and the inline title editor run br in goroutines.*)
(* An editor is assumed to work on the file as it is on disk.              *)
(***************************************************************************)
EXTENDS Naturals

CONSTANTS
    Issues,          \* issue ids, of existing issues and of those created here
    Existing,        \* the issues br knows at the start
    Fields,          \* editable fields; "labels" and "repo" are treated apart
    Values,          \* what a field can hold
    Empty,           \* the empty value
    NoIssue, NoFile, NoSession,   \* model values: nothing there
    Garbled,         \* a file that MarkdownToSnapshot refuses
    MaxSaves,        \* bound: saves of the human
    MaxAgentWrites,  \* bound: br updates by other processes
    MaxBrFailures,   \* bound: br commands that fail
    MaxSessions      \* bound: editor sessions opened

ASSUME HumanEditAssumption ==
    /\ Existing \subseteq Issues /\ Empty \in Values
    /\ NoIssue \notin [Fields -> Values] /\ Garbled \notin [Fields -> Values]
    /\ {MaxSaves, MaxAgentWrites, MaxBrFailures, MaxSessions} \subseteq Nat

VARIABLES
    async,         \* $WEZTERM_PANE is set
    br,            \* what br stores of each issue
    shown,         \* the issues as the UI last loaded them
    mdFile,        \* /tmp/bv-edit-ID.md: content and modification time
    failedFile,    \* /tmp/bv-failed-ID.md
    pendingEdit,   \* the polled session
    ticks,         \* pollEditMsg ticks scheduled
    execing,       \* the session the event loop is suspended for
    finished,      \* editorFinishedMsg not handled yet
    created,       \* createAndEditMsg not handled yet
    updates,       \* br updates of pickers and title editor in flight
    saves, agentWrites, brFailures, sessions,   \* counters of the bounds
    touched,       \* history: fields the human set, by editor or picker
    othersValue,   \* history: what others last stored, or the field held at first
    editorOwns,    \* history: fields last written by the polled session
    rejected,      \* history: issues whose full-editor update br refused
    reopened       \* history: issues opened again before their editor's exit was handled

editCounters == <<saves, agentWrites, brFailures, sessions>>
editHistory == <<touched, othersValue, editorOwns, rejected, reopened>>
editVars == <<async, br, shown, mdFile, failedFile, pendingEdit, ticks, execing,
              finished, created, updates, editCounters, editHistory>>

IssueSnapshot == [Fields -> Values]
Stub == [f \in Fields |-> Empty]

-----------------------------------------------------------------------------
(* What changed between two snapshots; of a file that does not parse there *)
(* is nothing to compare.  An edited label list that came out empty is a   *)
(* nil slice, which is how "unchanged" is written.                         *)
DiffSnapshots(original, edited) ==
    IF edited = Garbled THEN {}
    ELSE {f \in Fields : original[f] # edited[f] /\ ~(f = "labels" /\ edited[f] = Empty)}

(* The repository of an issue is compared but has no flag of br update.    *)
BuildUpdateArgv(diff) == diff \ {"repo"}

\* Fault: the whole snapshot is written.
BrUpdateWhole(i, diff, edited) == br' = [br EXCEPT ![i] = edited]

BrUpdate(i, diff, edited) ==
    br' = [br EXCEPT ![i] = [f \in Fields |->
              IF f \in BuildUpdateArgv(diff) THEN edited[f] ELSE @[f]]]

\* br fails on an issue that is gone, or for reasons of its own.
BrFails(i) ==
    \/ br[i] = NoIssue /\ UNCHANGED brFailures
    \/ br[i] # NoIssue /\ brFailures < MaxBrFailures /\ brFailures' = brFailures + 1

BrWorks(i) == br[i] # NoIssue /\ UNCHANGED brFailures

Mtime == saves + sessions   \* grows with every write of a markdown file

EditInit ==
    /\ async \in BOOLEAN
    /\ br = [i \in Issues |-> IF i \in Existing THEN Stub ELSE NoIssue]
    /\ shown = br
    /\ mdFile = [i \in Issues |-> NoFile] /\ failedFile = [i \in Issues |-> NoFile]
    /\ pendingEdit = NoSession /\ ticks = 0
    /\ execing = NoSession /\ finished = {} /\ created = {} /\ updates = {}
    /\ saves = 0 /\ agentWrites = 0 /\ brFailures = 0 /\ sessions = 0
    /\ touched = [i \in Issues |-> {}]
    /\ othersValue = br
    /\ editorOwns = {} /\ rejected = {} /\ reopened = {}

-----------------------------------------------------------------------------
(* Other processes, and the reload that follows a change of the file.      *)
AgentWrites(i, f, v) ==
    /\ agentWrites < MaxAgentWrites
    /\ br[i] # NoIssue /\ br[i][f] # v
    /\ agentWrites' = agentWrites + 1
    /\ br' = [br EXCEPT ![i][f] = v]
    /\ othersValue' = [othersValue EXCEPT ![i][f] = v]
    /\ editorOwns' = editorOwns \ {<<i, f>>}
    /\ UNCHANGED <<async, shown, mdFile, failedFile, pendingEdit, ticks, execing,
                   finished, created, updates, saves, brFailures, sessions,
                   touched, rejected, reopened>>

Reload ==
    /\ execing = NoSession /\ shown # br
    /\ shown' = br
    /\ UNCHANGED <<async, br, mdFile, failedFile, pendingEdit, ticks, execing,
                   finished, created, updates, editCounters, editHistory>>

-----------------------------------------------------------------------------
(* The human: saves one changed field, a file that does not parse, or      *)
(* removes the file.  An editor is open on every markdown file there is.   *)
HumanSaves(i, f, v) ==
    /\ mdFile[i] # NoFile /\ saves < MaxSaves
    /\ mdFile[i].content # Garbled /\ mdFile[i].content[f] # v
    /\ saves' = saves + 1
    /\ mdFile' = [mdFile EXCEPT ![i] = [content |-> [@.content EXCEPT ![f] = v],
                                        mtime |-> Mtime + 1]]
    /\ touched' = [touched EXCEPT ![i] = @ \cup {f}]
    /\ UNCHANGED <<async, br, shown, failedFile, pendingEdit, ticks, execing, finished,
                   created, updates, agentWrites, brFailures, sessions,
                   othersValue, editorOwns, rejected, reopened>>

HumanGarbles(i) ==
    /\ mdFile[i] # NoFile /\ saves < MaxSaves
    /\ saves' = saves + 1
    /\ mdFile' = [mdFile EXCEPT ![i] = [content |-> Garbled, mtime |-> Mtime + 1]]
    /\ UNCHANGED <<async, br, shown, failedFile, pendingEdit, ticks, execing, finished,
                   created, updates, agentWrites, brFailures, sessions, editHistory>>

FileRemoved(i) ==
    /\ mdFile[i] # NoFile
    /\ mdFile' = [mdFile EXCEPT ![i] = NoFile]
    /\ UNCHANGED <<async, br, shown, failedFile, pendingEdit, ticks, execing, finished,
                   created, updates, editCounters, editHistory>>

EditorExits ==
    /\ execing # NoSession
    /\ execing' = NoSession /\ finished' = finished \cup {execing}
    /\ UNCHANGED <<async, br, shown, mdFile, failedFile, pendingEdit, ticks, created,
                   updates, editCounters, editHistory>>

-----------------------------------------------------------------------------
(* A session on the snapshot snap: the markdown file is written, then the  *)
(* editor is spawned and polled, or run with the event loop suspended.  A  *)
(* polled session replaces the one before it.                              *)
StartSession(i, snap, newlyCreated) ==
    /\ sessions < MaxSessions /\ sessions' = sessions + 1
    /\ mdFile' = [mdFile EXCEPT ![i] = [content |-> snap, mtime |-> Mtime + 1]]
    /\ IF async
       THEN /\ pendingEdit' = [issue |-> i, original |-> snap, lastApplied |-> snap,
                               lastMtime |-> Mtime + 1, changed |-> FALSE,
                               newlyCreated |-> newlyCreated]
            /\ ticks' = ticks + 1
            /\ editorOwns' = {}
            /\ UNCHANGED execing
       ELSE /\ execing' = [issue |-> i, original |-> snap, newlyCreated |-> newlyCreated]
            /\ UNCHANGED <<pendingEdit, ticks, editorOwns>>
    /\ reopened' = reopened \cup {s.issue : s \in {t \in finished : t.issue = i}}
    /\ UNCHANGED <<async, br, shown, failedFile, finished, updates, saves, agentWrites,
                   othersValue, touched, rejected>>

\* No key is pressed between the exit of an editor and the handling of its message.
openIssueInEditor(i) ==
    /\ execing = NoSession /\ finished = {} /\ shown[i] # NoIssue
    /\ \/ BrWorks(i) /\ StartSession(i, br[i], FALSE)
       \/ BrFails(i) /\ StartSession(i, shown[i], FALSE)
    /\ UNCHANGED created

createNewIssue(i) ==
    /\ execing = NoSession /\ othersValue[i] = NoIssue   \* an id never used
    /\ br' = [br EXCEPT ![i] = Stub]
    /\ othersValue' = [othersValue EXCEPT ![i] = Stub]
    /\ created' = created \cup {i}
    /\ UNCHANGED <<async, shown, mdFile, failedFile, pendingEdit, ticks, execing,
                   finished, updates, editCounters, touched, editorOwns, rejected, reopened>>

handleCreateAndEdit(i) ==
    /\ execing = NoSession /\ i \in created
    /\ created' = created \ {i}
    /\ \/ BrWorks(i) /\ StartSession(i, br[i], TRUE)
       \/ /\ BrFails(i)
          /\ UNCHANGED <<async, br, shown, mdFile, failedFile, pendingEdit, ticks, execing,
                         finished, updates, saves, agentWrites, sessions, editHistory>>

-----------------------------------------------------------------------------
DeleteIssue(i) ==
    \/ BrWorks(i) /\ br' = [br EXCEPT ![i] = NoIssue]
    \/ BrFails(i) /\ UNCHANGED br

\* Fault: what was applied meanwhile is not looked at.
CreatedHere(session) == session.newlyCreated

CancelledCreate(session) ==
    session.newlyCreated /\ DiffSnapshots(session.original, session.lastApplied) = {}

(* The polled session: one tick of the chain.  Every path but the end of   *)
(* the session schedules the next tick.                                    *)
PollEnds ==
    /\ mdFile[pendingEdit.issue] = NoFile
    /\ IF CancelledCreate(pendingEdit)
       THEN DeleteIssue(pendingEdit.issue)
       ELSE UNCHANGED <<br, brFailures>>
    /\ pendingEdit' = NoSession /\ ticks' = ticks - 1
    /\ UNCHANGED <<editorOwns, rejected>>

\* Fault: a second chain of ticks is started.
PollSeesSaveTwice ==
    LET md == mdFile[pendingEdit.issue]
    IN  /\ md # NoFile /\ md.mtime # pendingEdit.lastMtime
        /\ pendingEdit' = [pendingEdit EXCEPT !.lastMtime = md.mtime, !.changed = TRUE]
        /\ ticks' = ticks + 1
        /\ UNCHANGED <<br, brFailures, editorOwns, rejected>>

PollSeesSave ==
    LET md == mdFile[pendingEdit.issue]
    IN  /\ md # NoFile /\ md.mtime # pendingEdit.lastMtime
        /\ pendingEdit' = [pendingEdit EXCEPT !.lastMtime = md.mtime, !.changed = TRUE]
        /\ UNCHANGED <<br, brFailures, ticks, editorOwns, rejected>>

\* Fault: the diff is taken against the snapshot the session started from.
EditedSinceOpen(session, content) == DiffSnapshots(session.original, content)

EditedSinceApplied(session, content) == DiffSnapshots(session.lastApplied, content)

AfterUpdate(session, content, ok) ==
    [session EXCEPT !.changed = FALSE, !.lastApplied = IF ok THEN content ELSE @]

PollApplies ==
    LET i == pendingEdit.issue
        md == mdFile[i]
        diff == EditedSinceApplied(pendingEdit, md.content)
    IN  /\ md # NoFile /\ md.mtime = pendingEdit.lastMtime /\ pendingEdit.changed
        /\ \/ /\ diff = {}
              /\ pendingEdit' = [pendingEdit EXCEPT !.changed = FALSE]
              /\ UNCHANGED <<br, brFailures, editorOwns, rejected>>
           \/ /\ diff # {} /\ BrWorks(i)
              /\ BrUpdate(i, diff, md.content)
              /\ pendingEdit' = AfterUpdate(pendingEdit, md.content, TRUE)
              /\ editorOwns' = editorOwns \cup {<<i, f>> : f \in BuildUpdateArgv(diff)}
              /\ UNCHANGED rejected
           \/ /\ diff # {} /\ BrFails(i)
              /\ pendingEdit' = AfterUpdate(pendingEdit, md.content, FALSE)
              /\ rejected' = rejected \cup {i}
              /\ UNCHANGED <<br, editorOwns>>
        /\ UNCHANGED ticks

\* A tick that finds no session, or ends one, is the last of its chain.
handleEditPoll ==
    /\ execing = NoSession /\ ticks > 0
    /\ \/ pendingEdit # NoSession /\ (PollEnds \/ PollSeesSave \/ PollApplies)
       \/ /\ pendingEdit = NoSession /\ ticks' = ticks - 1
          /\ UNCHANGED <<br, brFailures, pendingEdit, editorOwns, rejected>>
    /\ UNCHANGED <<async, shown, mdFile, failedFile, execing, finished, created, updates,
                   saves, agentWrites, sessions, touched, othersValue, reopened>>

-----------------------------------------------------------------------------
(* The suspended session: what the callback of tea.ExecProcess does.       *)
SaveFailedBuffer(i, content) == failedFile' = [failedFile EXCEPT ![i] = content]

FinishApplies(s, edited) ==
    LET diff == DiffSnapshots(s.original, edited)
    IN  \/ /\ diff = {} /\ s.newlyCreated /\ DeleteIssue(s.issue)
           /\ UNCHANGED <<failedFile, rejected>>
        \/ /\ diff = {} /\ ~s.newlyCreated
           /\ UNCHANGED <<br, brFailures, failedFile, rejected>>
        \/ /\ diff # {} /\ BrWorks(s.issue) /\ BrUpdate(s.issue, diff, edited)
           /\ UNCHANGED <<failedFile, rejected>>
        \/ /\ diff # {} /\ BrFails(s.issue) /\ SaveFailedBuffer(s.issue, edited)
           /\ rejected' = rejected \cup {s.issue}
           /\ UNCHANGED br

handleEditorFinished(s) ==
    /\ execing = NoSession /\ s \in finished
    /\ finished' = finished \ {s}
    /\ LET md == mdFile[s.issue]
       IN  \/ \* the editor failed, or the file cannot be read
              UNCHANGED <<br, brFailures, failedFile, rejected>>
           \/ /\ md # NoFile /\ md.content = Garbled
              /\ SaveFailedBuffer(s.issue, Garbled)
              /\ UNCHANGED <<br, brFailures, rejected>>
           \/ md # NoFile /\ md.content # Garbled /\ FinishApplies(s, md.content)
    /\ UNCHANGED <<async, shown, mdFile, pendingEdit, ticks, execing, created, updates,
                   saves, agentWrites, sessions, touched, othersValue, editorOwns, reopened>>

-----------------------------------------------------------------------------
(* A picker or the title editor was accepted; the goroutine runs br.       *)
handleEditPickerResult(i, f, v) ==
    /\ execing = NoSession /\ shown[i] # NoIssue /\ f \notin {"labels", "repo"}
    /\ saves < MaxSaves /\ saves' = saves + 1
    /\ updates' = updates \cup {[issue |-> i, field |-> f, value |-> v]}
    /\ touched' = [touched EXCEPT ![i] = @ \cup {f}]
    /\ UNCHANGED <<async, br, shown, mdFile, failedFile, pendingEdit, ticks, execing,
                   finished, created, agentWrites, brFailures, sessions,
                   othersValue, editorOwns, rejected, reopened>>

UpdateRuns(u) ==
    /\ u \in updates /\ updates' = updates \ {u}
    /\ \/ /\ BrWorks(u.issue) /\ br' = [br EXCEPT ![u.issue][u.field] = u.value]
          /\ editorOwns' = editorOwns \ {<<u.issue, u.field>>}
       \/ BrFails(u.issue) /\ UNCHANGED <<br, editorOwns>>
    /\ UNCHANGED <<async, shown, mdFile, failedFile, pendingEdit, ticks, execing, finished,
                   created, saves, agentWrites, sessions, touched, othersValue, rejected, reopened>>

-----------------------------------------------------------------------------
HumanOrAgent ==
    \/ \E i \in Issues, f \in Fields, v \in Values :
           AgentWrites(i, f, v) \/ HumanSaves(i, f, v) \/ handleEditPickerResult(i, f, v)
    \/ \E i \in Issues : HumanGarbles(i) \/ FileRemoved(i)
    \/ \E i \in Issues : openIssueInEditor(i) \/ createNewIssue(i)
    \/ EditorExits

EditNext ==
    \/ HumanOrAgent \/ Reload
    \/ \E i \in Issues : handleCreateAndEdit(i)
    \/ handleEditPoll
    \/ \E s \in finished : handleEditorFinished(s)
    \/ \E u \in updates : UpdateRuns(u)

\* tea.Tick fires and the event loop handles what it is sent; br terminates.
EditSpec == EditInit /\ [][EditNext]_editVars /\ WF_editVars(handleEditPoll)

-----------------------------------------------------------------------------
EditTypeOK ==
    /\ br \in [Issues -> IssueSnapshot \cup {NoIssue}]
    /\ shown \in [Issues -> IssueSnapshot \cup {NoIssue}]
    /\ \A i \in Issues : mdFile[i] # NoFile =>
          mdFile[i].content \in IssueSnapshot \cup {Garbled} /\ mdFile[i].mtime \in Nat
    /\ failedFile \in [Issues -> IssueSnapshot \cup {NoFile, Garbled}]
    /\ pendingEdit # NoSession => pendingEdit.issue \in Issues
    /\ ticks \in 0 .. MaxSessions
    /\ created \subseteq Issues
    /\ touched \in [Issues -> SUBSET Fields]

(* An edit writes no more than the human changed: what another process     *)
(* stored in a field the human never set, while the editor was open or     *)
(* before, is still there (openIssueInEditor, DiffSnapshots,               *)
(* handleEditPoll, handleEditorFinished).  Not so for an issue reopened in *)
(* the synchronous mode: its earlier session reads the file of the later   *)
(* one (see README).                                                       *)
UntouchedFieldsKeepOthersValue ==
    \A i \in Issues \ reopened : br[i] # NoIssue =>
        \A f \in Fields \ touched[i] : br[i][f] = othersValue[i][f]

(* LastApplied is what br holds: as long as nobody else writes a field the *)
(* polled session applied, the next diff is taken against the stored value,*)
(* so that an edit taken back in the editor is taken back in br.  Labels   *)
(* emptied and the repository are not sent (see README).                   *)
LastAppliedIsStored ==
    pendingEdit # NoSession =>
        \A f \in Fields :
            <<pendingEdit.issue, f>> \in editorOwns /\ br[pendingEdit.issue] # NoIssue =>
                \/ br[pendingEdit.issue][f] = pendingEdit.lastApplied[f]
                \/ f = "labels" /\ pendingEdit.lastApplied[f] = Empty

(* No edit stores more than what the human changed, and what counts as     *)
(* applied is what br has.                                                 *)
EditsAreTheHumans == UntouchedFieldsKeepOthersValue /\ LastAppliedIsStored

(* An issue is only ever deleted when it was created here and every field  *)
(* the editor session applied is back at what the session started from,    *)
(* but for labels that the human emptied, which are not sent               *)
(* (handleEditPoll, handleEditorFinished).                                 *)
DeletesOnlyUnchangedStub ==
    [][\A i \in Issues : br[i] # NoIssue /\ br'[i] = NoIssue =>
          /\ i \notin Existing
          /\ \A f \in Fields : <<i, f>> \in editorOwns =>
                \/ br[i][f] = pendingEdit.original[f]
                \/ f = "labels" /\ pendingEdit.lastApplied[f] = Empty]_editVars

(* A save of the polled session reaches br, unless br refuses it, the file *)
(* does not parse, or the session ends or is replaced: as long as a session*)
(* goes on, its saves are all applied again and again.                     *)
SavesAreApplied ==
    []<>(\/ pendingEdit = NoSession \/ rejected # {} \/ execing # NoSession
         \/ LET md == mdFile[pendingEdit.issue]
            IN  \/ md = NoFile
                \/ DiffSnapshots(pendingEdit.lastApplied, md.content) = {})

(* bv-human-edit.md, Error Recovery: on any br update failure during the   *)
(* full-editor flow the markdown buffer is saved to /tmp/bv-failed-ID.md.  *)
FailedBufferIsSaved == \A i \in rejected : failedFile[i] # NoFile
=============================================================================
