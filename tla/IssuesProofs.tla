------------------------------- MODULE IssuesProofs -------------------------------
(***************************************************************************)
(* What holds of issues edited by a human while other processes write them,*)
(* and of the readiness computed from them, for any number of issues,      *)
(* values, sessions and writers.                                           *)
(*                                                                         *)
(* The edit workflow.  LastAppliedIsStored is inductive only with what it  *)
(* takes for granted: no id is given away twice (a created issue could     *)
(* else replace one that is being edited), and a program polls sessions or *)
(* suspends itself, but not both.                                          *)
(* HumanInv adds that the file of a session differs from the snapshot it   *)
(* will be compared with only where the human has written.                 *)
(***************************************************************************)
EXTENDS MCIssues, PlanningProofs

\* The values of the variables: a markdown file, a polled and a suspended session, an
\* accepted picker, and what br stores.
MdFile == [content : IssueSnapshot \cup {Garbled}, mtime : Nat]
Polled == [issue : Issues, original : IssueSnapshot, lastApplied : IssueSnapshot, lastMtime : Nat,
           changed : BOOLEAN, newlyCreated : BOOLEAN]
Suspended == [issue : Issues, original : IssueSnapshot, newlyCreated : BOOLEAN]
Picked == [issue : Issues, field : Fields, value : Values]
Stored == [Issues -> IssueSnapshot \cup {NoIssue}]

EditTypes ==
    /\ async \in BOOLEAN
    /\ br \in Stored /\ shown \in Stored /\ othersValue \in Stored
    /\ mdFile \in [Issues -> MdFile \cup {NoFile}]
    /\ failedFile \in [Issues -> IssueSnapshot \cup {NoFile, Garbled}]
    /\ pendingEdit \in Polled \cup {NoSession} /\ execing \in Suspended \cup {NoSession}
    /\ finished \subseteq Suspended /\ created \subseteq Issues /\ updates \subseteq Picked
    /\ saves \in Nat /\ sessions \in 0 .. MaxSessions /\ ticks \in 0 .. sessions
    /\ touched \in [Issues -> SUBSET Fields] /\ editorOwns \subseteq Issues \X Fields

\* An id that br, the UI or a session knows has been given away: createNewIssue gets another.
KnownIds ==
    /\ \A i \in Issues : br[i] # NoIssue => othersValue[i] # NoIssue
    /\ \A i \in Issues : shown[i] # NoIssue => othersValue[i] # NoIssue
    /\ \A i \in created \cup Existing : othersValue[i] # NoIssue
    /\ pendingEdit # NoSession => othersValue[pendingEdit.issue] # NoIssue

\* Only issues created here are treated as new.
CreatedAreNew ==
    /\ created \cap Existing = {}
    /\ pendingEdit # NoSession /\ pendingEdit.newlyCreated => pendingEdit.issue \notin Existing
    /\ \A s \in finished : s.newlyCreated => s.issue \notin Existing
    /\ execing # NoSession /\ execing.newlyCreated => execing.issue \notin Existing

\* A program polls or suspends, never both, and the editor never owns the repository field.
OneMode ==
    /\ async => execing = NoSession /\ finished = {}
    /\ ~async => pendingEdit = NoSession /\ editorOwns = {}
    /\ \A i \in Issues : <<i, "repo">> \notin editorOwns

EditInvariant == EditTypes /\ KnownIds /\ CreatedAreNew /\ OneMode /\ LastAppliedIsStored

\* A new issue holds the empty value in every field.
LEMMA StubIsSnapshot == Stub \in IssueSnapshot /\ Stub # NoIssue
BY HumanEditAssumption DEF Stub, IssueSnapshot

\* No editor is open, and br holds stubs.
LEMMA EditInitHolds == EditInit => EditInvariant
<1> SUFFICES ASSUME EditInit PROVE EditInvariant
  OBVIOUS
<1>0. br \in Stored
  BY StubIsSnapshot DEF EditInit, Stored
<1>1. EditTypes
  BY <1>0, HumanEditAssumption DEF EditInit, EditTypes, Stored
<1>2. KnownIds /\ CreatedAreNew /\ OneMode
  BY StubIsSnapshot, HumanEditAssumption DEF EditInit, KnownIds, CreatedAreNew, OneMode
<1>3. LastAppliedIsStored
  BY DEF EditInit, LastAppliedIsStored
<1> QED
  BY <1>1, <1>2, <1>3 DEF EditInvariant

\* br update changes one issue, and of it the fields it was given.
LEMMA UpdateStores ==
    ASSUME NEW i \in Issues, br \in Stored, br[i] # NoIssue, NEW diff, NEW edited \in IssueSnapshot,
           BrUpdate(i, diff, edited)
    PROVE  /\ br' \in Stored /\ br'[i] # NoIssue
           /\ \A j \in Issues \ {i} : br'[j] = br[j]
           /\ \A f \in Fields : br'[i][f] = IF f \in BuildUpdateArgv(diff) THEN edited[f] ELSE br[i][f]
<1> DEFINE new == [f \in Fields |-> IF f \in BuildUpdateArgv(diff) THEN edited[f] ELSE br[i][f]]
<1>1. new \in IssueSnapshot
  BY DEF Stored, IssueSnapshot
<1>2. br' = [br EXCEPT ![i] = new]
  BY DEF BrUpdate, Stored
<1>3. new # NoIssue
  BY <1>1, HumanEditAssumption DEF IssueSnapshot
<1>4. \A f \in Fields : new[f] = IF f \in BuildUpdateArgv(diff) THEN edited[f] ELSE br[i][f]
  OBVIOUS
<1> HIDE DEF new
<1> QED
  BY <1>1, <1>2, <1>3, <1>4 DEF Stored

\* br delete removes one issue or fails.
LEMMA DeleteStores ==
    ASSUME NEW i \in Issues, br \in Stored, DeleteIssue(i)
    PROVE  /\ br' \in Stored
           /\ \A j \in Issues : br'[j] = br[j] \/ (j = i /\ br'[j] = NoIssue)
<1>1. CASE br' = br
  BY <1>1
<1>2. CASE br' = [br EXCEPT ![i] = NoIssue]
  BY <1>2 DEF Stored
<1> QED
  BY <1>1, <1>2 DEF DeleteIssue

\* u is t with one field of one issue set.
FieldSet(t, u, i, f, v) == u = [t EXCEPT ![i][f] = v]

\* Setting one field leaves the other fields and issues alone.
LEMMA FieldStores ==
    ASSUME NEW i \in Issues, NEW f \in Fields, NEW v \in Values, NEW t \in Stored, t[i] # NoIssue,
           NEW u, FieldSet(t, u, i, f, v)
    PROVE  /\ u \in Stored /\ u[i] # NoIssue
           /\ \A j \in Issues \ {i} : u[j] = t[j]
           /\ \A g \in Fields \ {f} : u[i][g] = t[i][g]
           /\ u[i][f] = v
<1> DEFINE new == [t[i] EXCEPT ![f] = v]
<1>1. new \in IssueSnapshot
  BY DEF Stored, IssueSnapshot
<1>2. u = [t EXCEPT ![i] = new]
  BY DEF Stored, FieldSet
<1>3. new # NoIssue
  BY <1>1, HumanEditAssumption DEF IssueSnapshot
<1>4. new[f] = v /\ \A g \in Fields \ {f} : new[g] = t[i][g]
  BY DEF Stored, IssueSnapshot
<1> HIDE DEF new
<1> QED
  BY <1>1, <1>2, <1>3, <1>4 DEF Stored

\* Another process writes a field, which the editor then no longer owns.
LEMMA AgentKeeps ==
    ASSUME EditInvariant, NEW i \in Issues, NEW f \in Fields, NEW v \in Values, AgentWrites(i, f, v)
    PROVE  EditInvariant'
<1> USE DEF EditInvariant
<1>1. othersValue[i] # NoIssue
  BY DEF AgentWrites, KnownIds
<1>2. /\ br' \in Stored /\ br'[i] # NoIssue
      /\ \A j \in Issues \ {i} : br'[j] = br[j]
      /\ \A g \in Fields \ {f} : br'[i][g] = br[i][g]
  <2>1. br \in Stored /\ br[i] # NoIssue /\ FieldSet(br, br', i, f, v)
    BY DEF AgentWrites, EditTypes, FieldSet
  <2> QED
    BY <2>1, FieldStores
<1>3. /\ othersValue' \in Stored /\ othersValue'[i] # NoIssue
      /\ \A j \in Issues \ {i} : othersValue'[j] = othersValue[j]
  <2>1. othersValue \in Stored /\ FieldSet(othersValue, othersValue', i, f, v)
    BY DEF AgentWrites, EditTypes, FieldSet
  <2> QED
    BY <1>1, <2>1, FieldStores
<1>4. EditTypes'
  BY <1>2, <1>3 DEF AgentWrites, EditTypes
<1>5. KnownIds'
  <2>1. \A j \in Issues : othersValue[j] # NoIssue => othersValue'[j] # NoIssue
    BY <1>3
  <2>2. \A j \in Issues : br'[j] # NoIssue => othersValue'[j] # NoIssue
    BY <1>2, <1>3 DEF KnownIds
  <2>3. pendingEdit # NoSession => pendingEdit.issue \in Issues
    BY DEF EditTypes, Polled
  <2> QED
    BY <2>1, <2>2, <2>3, HumanEditAssumption DEF AgentWrites, KnownIds, EditTypes
<1>6. CreatedAreNew'
  BY DEF AgentWrites, CreatedAreNew
<1>7. OneMode'
  BY DEF AgentWrites, OneMode
<1>8. LastAppliedIsStored'
  <2> SUFFICES ASSUME pendingEdit # NoSession, NEW g \in Fields, br'[pendingEdit.issue] # NoIssue,
                      <<pendingEdit.issue, g>> \in editorOwns'
               PROVE  \/ br'[pendingEdit.issue][g] = pendingEdit.lastApplied[g]
                      \/ g = "labels" /\ pendingEdit.lastApplied[g] = Empty
    BY DEF AgentWrites, LastAppliedIsStored
  <2>1. pendingEdit.issue \in Issues
    BY DEF EditTypes, Polled
  <2>2. <<pendingEdit.issue, g>> \in editorOwns /\ ~(pendingEdit.issue = i /\ g = f)
    BY DEF AgentWrites
  <2>3. br'[pendingEdit.issue][g] = br[pendingEdit.issue][g] /\ br[pendingEdit.issue] # NoIssue
    BY <1>2, <2>1, <2>2 DEF AgentWrites
  <2> QED
    BY <2>2, <2>3 DEF LastAppliedIsStored
<1> QED
  BY <1>4, <1>5, <1>6, <1>7, <1>8

\* What all but the types and the history of the bounds depends on.
editCore == <<async, br, shown, pendingEdit, ticks, execing, finished, created, sessions, othersValue, editorOwns>>

\* Steps that only touch files, buffers and counters.
LEMMA CoreStays ==
    EditInvariant /\ UNCHANGED editCore => KnownIds' /\ CreatedAreNew' /\ OneMode' /\ LastAppliedIsStored'
BY DEF EditInvariant, editCore, KnownIds, CreatedAreNew, OneMode, LastAppliedIsStored

\* The human saves.
LEMMA SaveKeeps ==
    ASSUME EditInvariant, NEW i \in Issues, NEW f \in Fields, NEW v \in Values, HumanSaves(i, f, v)
    PROVE  EditInvariant'
<1> USE DEF EditInvariant
<1>1. mdFile[i].content \in IssueSnapshot
  BY DEF HumanSaves, EditTypes, MdFile
<1>2. [mdFile[i].content EXCEPT ![f] = v] \in IssueSnapshot
  BY <1>1 DEF IssueSnapshot
<1>3. Mtime + 1 \in Nat
  BY HumanEditAssumption DEF Mtime, EditTypes
<1>4. mdFile' \in [Issues -> MdFile \cup {NoFile}]
  <2> DEFINE new == [content |-> [mdFile[i].content EXCEPT ![f] = v], mtime |-> Mtime + 1]
  <2>1. new \in MdFile
    BY <1>2, <1>3 DEF MdFile
  <2>2. mdFile' = [mdFile EXCEPT ![i] = new]
    BY DEF HumanSaves, EditTypes
  <2> QED
    BY <2>1, <2>2 DEF EditTypes
<1>5. EditTypes'
  BY <1>4, HumanEditAssumption DEF HumanSaves, EditTypes
<1>6. UNCHANGED editCore
  BY DEF HumanSaves, editCore
<1> QED
  BY <1>5, <1>6, CoreStays

\* The human saves a file that does not parse.
LEMMA GarbleKeeps ==
    ASSUME EditInvariant, NEW i \in Issues, HumanGarbles(i)
    PROVE  EditInvariant'
<1> USE DEF EditInvariant
<1>1. Mtime + 1 \in Nat
  BY HumanEditAssumption DEF Mtime, EditTypes
<1>2. mdFile' \in [Issues -> MdFile \cup {NoFile}]
  BY <1>1 DEF HumanGarbles, EditTypes, MdFile
<1>3. EditTypes'
  BY <1>2, HumanEditAssumption DEF HumanGarbles, EditTypes, editHistory
<1>4. UNCHANGED editCore
  BY DEF HumanGarbles, editCore, editHistory
<1> QED
  BY <1>3, <1>4, CoreStays

\* The markdown file is removed.
LEMMA RemovalKeeps ==
    ASSUME EditInvariant, NEW i \in Issues, FileRemoved(i)
    PROVE  EditInvariant'
<1> USE DEF EditInvariant
<1>1. EditTypes'
  BY DEF FileRemoved, EditTypes, editHistory, editCounters
<1>2. UNCHANGED editCore
  BY DEF FileRemoved, editCore, editHistory, editCounters
<1> QED
  BY <1>1, <1>2, CoreStays

\* A picker is accepted.
LEMMA PickerKeeps ==
    ASSUME EditInvariant, NEW i \in Issues, NEW f \in Fields, NEW v \in Values,
           handleEditPickerResult(i, f, v)
    PROVE  EditInvariant'
<1> USE DEF EditInvariant
<1>1. updates' \subseteq Picked
  BY DEF handleEditPickerResult, EditTypes, Picked
<1>2. EditTypes'
  BY <1>1, HumanEditAssumption DEF handleEditPickerResult, EditTypes
<1>3. UNCHANGED editCore
  BY DEF handleEditPickerResult, editCore
<1> QED
  BY <1>2, <1>3, CoreStays

\* The UI loads what br stores.
LEMMA ReloadKeeps ==
    ASSUME EditInvariant, Reload PROVE EditInvariant'
<1> USE DEF EditInvariant
<1>1. EditTypes'
  BY DEF Reload, EditTypes, editHistory, editCounters
<1>2. KnownIds' /\ CreatedAreNew' /\ OneMode' /\ LastAppliedIsStored'
  BY DEF Reload, KnownIds, CreatedAreNew, OneMode, LastAppliedIsStored, editHistory
<1> QED
  BY <1>1, <1>2

\* The editor of a suspended session exits.
LEMMA ExitKeeps ==
    ASSUME EditInvariant, EditorExits PROVE EditInvariant'
<1> USE DEF EditInvariant
<1>1. execing \in Suspended
  BY DEF EditorExits, EditTypes
<1>2. EditTypes'
  BY <1>1 DEF EditorExits, EditTypes, editHistory, editCounters
<1>3. KnownIds' /\ CreatedAreNew' /\ OneMode' /\ LastAppliedIsStored'
  BY DEF EditorExits, KnownIds, CreatedAreNew, OneMode, LastAppliedIsStored, editHistory
<1> QED
  BY <1>2, <1>3

\* A session begins, polled or suspended: it owns nothing yet.
LEMMA SessionKeeps ==
    ASSUME EditInvariant, NEW i \in Issues, NEW snap \in IssueSnapshot, NEW new \in BOOLEAN,
           othersValue[i] # NoIssue, new => i \notin Existing,
           execing = NoSession, created' \subseteq created,
           StartSession(i, snap, new)
    PROVE  EditInvariant'
<1> USE DEF EditInvariant
<1>1. Mtime + 1 \in Nat
  BY HumanEditAssumption DEF Mtime, EditTypes
<1>2. mdFile' \in [Issues -> MdFile \cup {NoFile}]
  BY <1>1 DEF StartSession, EditTypes, MdFile
<1>3. CASE async
  <2>1. /\ pendingEdit'.issue = i /\ pendingEdit' \in Polled /\ pendingEdit'.newlyCreated = new
        /\ ticks' = ticks + 1 /\ editorOwns' = {} /\ execing' = execing
    <3>1. /\ pendingEdit' = [issue |-> i, original |-> snap, lastApplied |-> snap,
                             lastMtime |-> Mtime + 1, changed |-> FALSE, newlyCreated |-> new]
          /\ ticks' = ticks + 1 /\ editorOwns' = {} /\ execing' = execing
      BY <1>3 DEF StartSession
    <3> QED
      BY <1>1, <3>1 DEF Polled
  <2>2. EditTypes'
    BY <1>2, <2>1, HumanEditAssumption DEF StartSession, EditTypes
  <2>3. KnownIds' /\ CreatedAreNew'
    BY <2>1 DEF StartSession, KnownIds, CreatedAreNew, EditTypes
  <2>4. OneMode' /\ LastAppliedIsStored'
    BY <1>3, <2>1 DEF StartSession, OneMode, LastAppliedIsStored
  <2> QED
    BY <2>2, <2>3, <2>4
<1>4. CASE ~async
  <2>1. /\ execing' \in Suspended /\ execing'.issue = i /\ execing'.newlyCreated = new
        /\ pendingEdit' = pendingEdit /\ ticks' = ticks /\ editorOwns' = editorOwns
    BY <1>4 DEF StartSession, Suspended
  <2>2. EditTypes'
    BY <1>2, <2>1, HumanEditAssumption DEF StartSession, EditTypes
  <2>3. KnownIds' /\ CreatedAreNew'
    BY <2>1 DEF StartSession, KnownIds, CreatedAreNew, EditTypes
  <2>4. OneMode' /\ LastAppliedIsStored'
    BY <1>4, <2>1 DEF StartSession, OneMode, LastAppliedIsStored
  <2> QED
    BY <2>2, <2>3, <2>4
<1> QED
  BY <1>3, <1>4 DEF EditTypes

\* The human opens an issue in the editor.
LEMMA OpenKeeps ==
    ASSUME EditInvariant, NEW i \in Issues, openIssueInEditor(i) PROVE EditInvariant'
<1>1. execing = NoSession /\ finished = {} /\ created' = created
  BY DEF openIssueInEditor
<1>2. othersValue[i] # NoIssue
  BY DEF EditInvariant, KnownIds, openIssueInEditor
<1>3. \/ br[i] \in IssueSnapshot /\ StartSession(i, br[i], FALSE)
      \/ shown[i] \in IssueSnapshot /\ StartSession(i, shown[i], FALSE)
  BY DEF openIssueInEditor, BrWorks, EditInvariant, EditTypes, Stored
<1> QED
  BY <1>1, <1>2, <1>3, SessionKeeps

\* An issue is created under an id that no session has.
LEMMA CreateKeeps ==
    ASSUME EditInvariant, NEW i \in Issues, createNewIssue(i) PROVE EditInvariant'
<1> USE DEF EditInvariant
<1>1. br' \in Stored /\ br'[i] = Stub /\ \A j \in Issues \ {i} : br'[j] = br[j]
  BY StubIsSnapshot DEF createNewIssue, EditTypes, Stored
<1>2. othersValue' \in Stored /\ othersValue'[i] # NoIssue
      /\ \A j \in Issues \ {i} : othersValue'[j] = othersValue[j]
  BY StubIsSnapshot DEF createNewIssue, EditTypes, Stored
<1>3. othersValue[i] = NoIssue
  BY DEF createNewIssue
<1>4. i \notin Existing /\ i \notin created /\ (pendingEdit # NoSession => pendingEdit.issue # i)
  BY <1>3 DEF KnownIds
<1>5. EditTypes'
  BY <1>1, <1>2 DEF createNewIssue, EditTypes, editCounters
<1>6. KnownIds'
  <2>1. \A j \in Issues : othersValue[j] # NoIssue => othersValue'[j] # NoIssue
    BY <1>2
  <2>2. \A j \in Issues : br'[j] # NoIssue => othersValue'[j] # NoIssue
    BY <1>1, <1>2 DEF KnownIds
  <2>3. pendingEdit # NoSession => pendingEdit.issue \in Issues
    BY DEF EditTypes, Polled
  <2> QED
    BY <1>2, <2>1, <2>2, <2>3, HumanEditAssumption DEF createNewIssue, KnownIds, EditTypes
<1>7. CreatedAreNew' /\ OneMode'
  BY <1>4 DEF createNewIssue, CreatedAreNew, OneMode
<1>8. LastAppliedIsStored'
  <2>1. pendingEdit # NoSession => pendingEdit.issue \in Issues \ {i}
    BY <1>4 DEF EditTypes, Polled
  <2> QED
    BY <1>1, <2>1 DEF createNewIssue, LastAppliedIsStored
<1> QED
  BY <1>5, <1>6, <1>7, <1>8

\* The editor is opened on an issue created before.
LEMMA CreatedOpenKeeps ==
    ASSUME EditInvariant, NEW i \in Issues, handleCreateAndEdit(i) PROVE EditInvariant'
<1>1. execing = NoSession /\ i \in created /\ created' \subseteq created
  BY DEF handleCreateAndEdit
<1>2. othersValue[i] # NoIssue /\ i \notin Existing
  BY <1>1 DEF EditInvariant, KnownIds, CreatedAreNew
<1>3. CASE BrWorks(i) /\ StartSession(i, br[i], TRUE)
  <2>1. br[i] \in IssueSnapshot
    BY <1>3 DEF BrWorks, EditInvariant, EditTypes, Stored
  <2>2. TRUE => i \notin Existing
    BY <1>2
  <2> QED
    BY <1>1, <1>2, <1>3, <2>1, <2>2, SessionKeeps
<1>4. CASE UNCHANGED <<async, br, shown, mdFile, failedFile, pendingEdit, ticks, execing,
                       finished, updates, saves, agentWrites, sessions, editHistory>>
  <2> USE DEF EditInvariant
  <2>1. EditTypes'
    BY <1>1, <1>4 DEF EditTypes, editHistory
  <2>2. KnownIds' /\ CreatedAreNew' /\ OneMode' /\ LastAppliedIsStored'
    BY <1>1, <1>4 DEF KnownIds, CreatedAreNew, OneMode, LastAppliedIsStored, editHistory
  <2> QED
    BY <2>1, <2>2
<1> QED
  BY <1>3, <1>4 DEF handleCreateAndEdit

\* A tick: the session ends, a save is seen, or it is applied; what br did not get is
\* owned by nobody or was equal before.
LEMMA PollKeeps ==
    ASSUME EditInvariant, handleEditPoll PROVE EditInvariant'
<1> USE DEF EditInvariant
<1>1. UNCHANGED <<async, shown, mdFile, failedFile, execing, finished, created, updates,
                   saves, agentWrites, sessions, touched, othersValue>> /\ ticks > 0
  BY DEF handleEditPoll
<1>2. CASE pendingEdit = NoSession /\ ticks' = ticks - 1
           /\ UNCHANGED <<br, brFailures, pendingEdit, editorOwns, rejected>>
  <2>1. EditTypes'
    BY <1>1, <1>2, HumanEditAssumption DEF EditTypes
  <2>2. KnownIds' /\ CreatedAreNew' /\ OneMode' /\ LastAppliedIsStored'
    BY <1>1, <1>2 DEF KnownIds, CreatedAreNew, OneMode, LastAppliedIsStored
  <2> QED
    BY <2>1, <2>2
<1>3. CASE pendingEdit # NoSession /\ PollEnds
  <2>1. pendingEdit.issue \in Issues
    BY <1>3 DEF EditTypes, Polled
  <2>2. br' \in Stored /\ \A j \in Issues : br'[j] = br[j] \/ br'[j] = NoIssue
    BY <1>3, <2>1, DeleteStores DEF PollEnds, EditTypes
  <2>3. pendingEdit' = NoSession /\ ticks' = ticks - 1 /\ UNCHANGED <<editorOwns, rejected>>
    BY <1>3 DEF PollEnds
  <2>4. EditTypes'
    BY <1>1, <2>2, <2>3, HumanEditAssumption DEF EditTypes
  <2>5. KnownIds' /\ CreatedAreNew' /\ OneMode' /\ LastAppliedIsStored'
    BY <1>1, <2>2, <2>3 DEF KnownIds, CreatedAreNew, OneMode, LastAppliedIsStored
  <2> QED
    BY <2>4, <2>5
<1>4. CASE pendingEdit # NoSession /\ PollSeesSave
  <2>1. pendingEdit \in Polled /\ mdFile[pendingEdit.issue] \in MdFile
    BY <1>4 DEF EditTypes, Polled, PollSeesSave
  <2>2. pendingEdit' \in Polled /\ pendingEdit'.issue = pendingEdit.issue
        /\ pendingEdit'.lastApplied = pendingEdit.lastApplied /\ pendingEdit'.newlyCreated = pendingEdit.newlyCreated
    BY <1>4, <2>1 DEF PollSeesSave, Polled, MdFile
  <2>3. UNCHANGED <<br, brFailures, ticks, editorOwns, rejected>>
    BY <1>4 DEF PollSeesSave
  <2>4. EditTypes'
    BY <1>1, <2>2, <2>3, HumanEditAssumption DEF EditTypes
  <2>5. KnownIds' /\ CreatedAreNew'
    BY <1>1, <1>4, <2>2, <2>3 DEF KnownIds, CreatedAreNew
  <2>6. OneMode' /\ LastAppliedIsStored'
    BY <1>1, <1>4, <2>2, <2>3 DEF OneMode, LastAppliedIsStored
  <2> QED
    BY <2>4, <2>5, <2>6
<1>5. CASE pendingEdit # NoSession /\ PollApplies
  <2> DEFINE i == pendingEdit.issue
             content == mdFile[i].content
             diff == EditedSinceApplied(pendingEdit, content)
  <2>1. pendingEdit \in Polled /\ i \in Issues /\ content \in IssueSnapshot \cup {Garbled}
    BY <1>5 DEF EditTypes, Polled, MdFile, PollApplies
  <2>2. ticks' = ticks
    BY <1>5 DEF PollApplies
  <2>3. CASE UNCHANGED <<br, editorOwns>> /\ pendingEdit' \in Polled /\ pendingEdit'.issue = i
             /\ pendingEdit'.lastApplied = pendingEdit.lastApplied
             /\ pendingEdit'.newlyCreated = pendingEdit.newlyCreated
    <3>4. EditTypes'
      BY <1>1, <2>2, <2>3, HumanEditAssumption DEF EditTypes
    <3>5. KnownIds' /\ CreatedAreNew'
      BY <1>1, <1>5, <2>2, <2>3 DEF KnownIds, CreatedAreNew
    <3>6. OneMode' /\ LastAppliedIsStored'
      BY <1>1, <1>5, <2>2, <2>3 DEF OneMode, LastAppliedIsStored
    <3> QED
      BY <3>4, <3>5, <3>6
  <2>4. CASE /\ diff # {} /\ BrWorks(i) /\ BrUpdate(i, diff, content)
             /\ pendingEdit' = AfterUpdate(pendingEdit, content, TRUE)
             /\ editorOwns' = editorOwns \cup {<<i, f>> : f \in BuildUpdateArgv(diff)}
    <3>1. content \in IssueSnapshot
      BY <2>1, <2>4 DEF EditedSinceApplied, DiffSnapshots
    <3>2. diff = {f \in Fields : pendingEdit.lastApplied[f] # content[f]
                                   /\ ~(f = "labels" /\ content[f] = Empty)}
      BY <3>1, HumanEditAssumption DEF EditedSinceApplied, DiffSnapshots, IssueSnapshot
    <3>3. br \in Stored /\ br[i] # NoIssue
      BY <2>4 DEF EditTypes, BrWorks
    <3>4. /\ br' \in Stored /\ br'[i] # NoIssue
          /\ \A j \in Issues \ {i} : br'[j] = br[j]
          /\ \A f \in Fields : br'[i][f] = IF f \in BuildUpdateArgv(diff) THEN content[f] ELSE br[i][f]
      <4> HIDE DEF i, content, diff
      <4> QED
        BY <2>1, <2>4, <3>1, <3>3, UpdateStores
    <3>5. /\ pendingEdit' \in Polled /\ pendingEdit'.issue = i /\ pendingEdit'.lastApplied = content
          /\ pendingEdit'.newlyCreated = pendingEdit.newlyCreated
      <4> HIDE DEF i, content, diff
      <4>1. pendingEdit.issue = i
        BY DEF i
      <4> QED
        BY <2>1, <2>4, <3>1, <4>1 DEF AfterUpdate, Polled
    <3>6. EditTypes'
      <4>1. BuildUpdateArgv(diff) \subseteq Fields
        BY <3>2 DEF BuildUpdateArgv
      <4> HIDE DEF i, content, diff
      <4>2. editorOwns' \subseteq Issues \X Fields
        BY <2>1, <2>4, <4>1 DEF EditTypes
      <4> QED
        BY <1>1, <2>2, <3>4, <3>5, <4>2, HumanEditAssumption DEF EditTypes
    <3>7. KnownIds' /\ CreatedAreNew'
      <4>1. othersValue[i] # NoIssue
        BY <1>5 DEF KnownIds
      <4>2. pendingEdit.newlyCreated => i \notin Existing
        BY <1>5 DEF CreatedAreNew
      <4> HIDE DEF i, content, diff
      <4>3. \A j \in Issues : br'[j] # NoIssue => othersValue'[j] # NoIssue
        BY <1>1, <3>4, <4>1 DEF KnownIds
      <4> QED
        BY <1>1, <3>5, <4>1, <4>2, <4>3 DEF KnownIds, CreatedAreNew
    <3>8. OneMode'
      <4>1. async
        BY <1>5 DEF OneMode
      <4>2. "repo" \notin BuildUpdateArgv(diff)
        BY DEF BuildUpdateArgv
      <4> HIDE DEF i, content, diff
      <4> QED
        BY <1>1, <2>4, <4>1, <4>2 DEF OneMode
    <3>9. LastAppliedIsStored'
      <4> SUFFICES ASSUME NEW f \in Fields, <<i, f>> \in editorOwns'
                   PROVE  \/ br'[i][f] = content[f]
                          \/ f = "labels" /\ content[f] = Empty
        BY <3>5 DEF LastAppliedIsStored
      <4>1. CASE f \in BuildUpdateArgv(diff)
        BY <3>4, <4>1
      <4>2. CASE f \notin BuildUpdateArgv(diff)
        <5>1. <<i, f>> \in editorOwns
          <6> HIDE DEF i, content, diff
          <6> QED
            BY <2>4, <4>2
        <5>2. f # "repo"
          BY <2>1, <5>1 DEF OneMode
        <5>3. f \notin diff
          BY <4>2, <5>2 DEF BuildUpdateArgv
        <5>4. content[f] = pendingEdit.lastApplied[f] \/ (f = "labels" /\ content[f] = Empty)
          BY <3>2, <5>3
        <5>5. \/ br[i][f] = pendingEdit.lastApplied[f]
              \/ f = "labels" /\ pendingEdit.lastApplied[f] = Empty
          BY <1>5, <3>3, <5>1 DEF LastAppliedIsStored
        <5>6. br'[i][f] = br[i][f]
          BY <3>4, <4>2
        <5> HIDE DEF i, content, diff
        <5> QED
          BY <5>4, <5>5, <5>6
      <4> QED
        BY <4>1, <4>2
    <3> QED
      BY <3>6, <3>7, <3>8, <3>9
  <2>5. \/ UNCHANGED <<br, editorOwns>> /\ pendingEdit' = [pendingEdit EXCEPT !.changed = FALSE]
        \/ UNCHANGED <<br, editorOwns>> /\ pendingEdit' = AfterUpdate(pendingEdit, content, FALSE)
        \/ /\ diff # {} /\ BrWorks(i) /\ BrUpdate(i, diff, content)
           /\ pendingEdit' = AfterUpdate(pendingEdit, content, TRUE)
           /\ editorOwns' = editorOwns \cup {<<i, f>> : f \in BuildUpdateArgv(diff)}
    BY <1>5 DEF PollApplies
  <2>6. ASSUME \/ pendingEdit' = [pendingEdit EXCEPT !.changed = FALSE]
               \/ pendingEdit' = AfterUpdate(pendingEdit, content, FALSE)
        PROVE  /\ pendingEdit' \in Polled /\ pendingEdit'.issue = i
               /\ pendingEdit'.lastApplied = pendingEdit.lastApplied
               /\ pendingEdit'.newlyCreated = pendingEdit.newlyCreated
    BY <2>1, <2>6 DEF AfterUpdate, Polled
  <2> HIDE DEF i, content, diff
  <2> QED
    BY <2>3, <2>4, <2>5, <2>6
<1> QED
  BY <1>2, <1>3, <1>4, <1>5 DEF handleEditPoll

\* A suspended session is applied: no polled session is there to own anything.
LEMMA FinishKeeps ==
    ASSUME EditInvariant, NEW s \in finished, handleEditorFinished(s) PROVE EditInvariant'
<1> USE DEF EditInvariant
<1>1. UNCHANGED <<async, shown, mdFile, pendingEdit, ticks, execing, created, updates,
                   saves, agentWrites, sessions, touched, othersValue, editorOwns>>
      /\ finished' = finished \ {s}
  BY DEF handleEditorFinished
<1>2. pendingEdit = NoSession /\ s \in Suspended /\ s.issue \in Issues
  BY DEF OneMode, EditTypes, Suspended
<1>3. br' \in Stored /\ \A j \in Issues : br'[j] # NoIssue => br[j] # NoIssue
  <2>1. CASE UNCHANGED br
    BY <2>1 DEF EditTypes
  <2>2. CASE DeleteIssue(s.issue)
    BY <1>2, <2>2, DeleteStores DEF EditTypes
  <2>3. CASE /\ mdFile[s.issue] # NoFile /\ mdFile[s.issue].content # Garbled /\ BrWorks(s.issue)
             /\ BrUpdate(s.issue, DiffSnapshots(s.original, mdFile[s.issue].content), mdFile[s.issue].content)
    <3>1. mdFile[s.issue].content \in IssueSnapshot
      BY <1>2, <2>3 DEF EditTypes, MdFile
    <3>2. br \in Stored /\ br[s.issue] # NoIssue
      BY <2>3 DEF BrWorks, EditTypes
    <3> QED
      BY <1>2, <2>3, <3>1, <3>2, UpdateStores
  <2> QED
    BY <2>1, <2>2, <2>3 DEF handleEditorFinished, FinishApplies
<1>4. failedFile' \in [Issues -> IssueSnapshot \cup {NoFile, Garbled}]
  <2>1. failedFile' = failedFile \/ \E c \in IssueSnapshot \cup {Garbled} : SaveFailedBuffer(s.issue, c)
    <3>1. mdFile[s.issue] # NoFile => mdFile[s.issue].content \in IssueSnapshot \cup {Garbled}
      BY <1>2 DEF EditTypes, MdFile
    <3> QED
      BY <3>1 DEF handleEditorFinished, FinishApplies
  <2> QED
    BY <1>2, <2>1 DEF SaveFailedBuffer, EditTypes
<1>5. EditTypes'
  BY <1>1, <1>3, <1>4 DEF EditTypes
<1>6. KnownIds'
  BY <1>1, <1>3 DEF KnownIds
<1>7. CreatedAreNew' /\ OneMode'
  BY <1>1 DEF CreatedAreNew, OneMode
<1>8. LastAppliedIsStored'
  BY <1>1, <1>2 DEF LastAppliedIsStored
<1> QED
  BY <1>5, <1>6, <1>7, <1>8

\* The goroutine of a picker runs br: the editor no longer owns the field.
LEMMA UpdateKeeps ==
    ASSUME EditInvariant, NEW u \in updates, UpdateRuns(u) PROVE EditInvariant'
<1> USE DEF EditInvariant
<1>1. UNCHANGED <<async, shown, mdFile, failedFile, pendingEdit, ticks, execing, finished,
                   created, saves, agentWrites, sessions, touched, othersValue, rejected>>
      /\ updates' \subseteq updates
  BY DEF UpdateRuns
<1>2. u.issue \in Issues /\ u.field \in Fields /\ u.value \in Values
  BY DEF EditTypes, Picked
<1>3. CASE UNCHANGED <<br, editorOwns>>
  <2>1. EditTypes'
    BY <1>1, <1>3 DEF EditTypes
  <2>2. KnownIds' /\ CreatedAreNew' /\ OneMode' /\ LastAppliedIsStored'
    BY <1>1, <1>3 DEF KnownIds, CreatedAreNew, OneMode, LastAppliedIsStored
  <2> QED
    BY <2>1, <2>2
<1>4. CASE /\ BrWorks(u.issue) /\ br' = [br EXCEPT ![u.issue][u.field] = u.value]
           /\ editorOwns' = editorOwns \ {<<u.issue, u.field>>}
  <2> DEFINE i == u.issue
             f == u.field
  <2>1. /\ br' \in Stored /\ br'[i] # NoIssue
        /\ \A j \in Issues \ {i} : br'[j] = br[j]
        /\ \A g \in Fields \ {f} : br'[i][g] = br[i][g]
    <3>1. br \in Stored /\ br[i] # NoIssue /\ FieldSet(br, br', i, f, u.value)
      BY <1>4 DEF BrWorks, EditTypes, FieldSet
    <3> HIDE DEF i, f
    <3>2. i \in Issues /\ f \in Fields
      BY <1>2 DEF i, f
    <3> QED
      BY <1>2, <3>1, <3>2, FieldStores
  <2>2. editorOwns' = editorOwns \ {<<i, f>>} /\ i \in Issues /\ br[i] # NoIssue
    BY <1>2, <1>4 DEF BrWorks
  <2> HIDE DEF i, f
  <2>3. EditTypes'
    BY <1>1, <2>1, <2>2 DEF EditTypes
  <2>4. KnownIds'
    BY <1>1, <2>1, <2>2 DEF KnownIds
  <2>5. CreatedAreNew' /\ OneMode'
    BY <1>1, <2>2 DEF CreatedAreNew, OneMode
  <2>6. LastAppliedIsStored'
    <3> SUFFICES ASSUME pendingEdit # NoSession, NEW g \in Fields, br'[pendingEdit.issue] # NoIssue,
                        <<pendingEdit.issue, g>> \in editorOwns'
                 PROVE  \/ br'[pendingEdit.issue][g] = pendingEdit.lastApplied[g]
                        \/ g = "labels" /\ pendingEdit.lastApplied[g] = Empty
      BY <1>1 DEF LastAppliedIsStored
    <3>1. pendingEdit.issue \in Issues
      BY DEF EditTypes, Polled
    <3>2. <<pendingEdit.issue, g>> \in editorOwns /\ ~(pendingEdit.issue = i /\ g = f)
      BY <2>2
    <3>3. br'[pendingEdit.issue][g] = br[pendingEdit.issue][g] /\ br[pendingEdit.issue] # NoIssue
      BY <2>1, <2>2, <3>1, <3>2
    <3> QED
      BY <3>2, <3>3 DEF LastAppliedIsStored
  <2> QED
    BY <2>3, <2>4, <2>5, <2>6
<1> QED
  BY <1>3, <1>4 DEF UpdateRuns

\* Every step of the human, of br and of the program keeps the invariant.
LEMMA EditStep == EditInvariant /\ [EditNext]_editVars => EditInvariant'
<1> SUFFICES ASSUME EditInvariant, [EditNext]_editVars PROVE EditInvariant'
  OBVIOUS
<1>1. ASSUME NEW i \in Issues, NEW f \in Fields, NEW v \in Values,
             AgentWrites(i, f, v) \/ HumanSaves(i, f, v) \/ handleEditPickerResult(i, f, v)
      PROVE  EditInvariant'
  BY <1>1, AgentKeeps, SaveKeeps, PickerKeeps
<1>2. ASSUME NEW i \in Issues, \/ HumanGarbles(i) \/ FileRemoved(i) \/ openIssueInEditor(i)
                               \/ createNewIssue(i) \/ handleCreateAndEdit(i)
      PROVE  EditInvariant'
  BY <1>2, GarbleKeeps, RemovalKeeps, OpenKeeps, CreateKeeps, CreatedOpenKeeps
<1>3. CASE EditorExits \/ Reload \/ handleEditPoll
  BY <1>3, ExitKeeps, ReloadKeeps, PollKeeps
<1>4. ASSUME NEW s \in finished, handleEditorFinished(s) PROVE EditInvariant'
  BY <1>4, FinishKeeps
<1>5. ASSUME NEW u \in updates, UpdateRuns(u) PROVE EditInvariant'
  BY <1>5, UpdateKeeps
<1>6. CASE UNCHANGED editVars
  <2>1. EditTypes'
    BY <1>6 DEF EditInvariant, EditTypes, editVars, editCounters, editHistory
  <2>2. UNCHANGED editCore
    BY <1>6 DEF editVars, editCore, editCounters, editHistory
  <2> QED
    BY <2>1, <2>2, CoreStays DEF EditInvariant
<1> QED
  BY <1>1, <1>2, <1>3, <1>4, <1>5, <1>6 DEF EditNext, HumanOrAgent

\* The inductive invariant of the edit workflow holds in every reachable state.
THEOREM EditInvariantHolds == EditSpec => []EditInvariant
  BY EditInitHolds, EditStep, PTL DEF EditSpec

\* What the invariant says of the types.
LEMMA InvariantIsTyped == EditInvariant => EditTypeOK
<1> SUFFICES ASSUME EditInvariant PROVE EditTypeOK
  OBVIOUS
<1>1. EditTypes
  BY DEF EditInvariant
<1>2. /\ br \in [Issues -> IssueSnapshot \cup {NoIssue}]
      /\ shown \in [Issues -> IssueSnapshot \cup {NoIssue}]
      /\ failedFile \in [Issues -> IssueSnapshot \cup {NoFile, Garbled}]
      /\ created \subseteq Issues /\ touched \in [Issues -> SUBSET Fields]
  BY <1>1 DEF EditTypes, Stored
<1>3. \A i \in Issues : mdFile[i] # NoFile =>
        mdFile[i].content \in IssueSnapshot \cup {Garbled} /\ mdFile[i].mtime \in Nat
  BY <1>1 DEF EditTypes, MdFile
<1>4. pendingEdit # NoSession => pendingEdit.issue \in Issues
  BY <1>1 DEF EditTypes, Polled
<1>5. ticks \in 0 .. MaxSessions
  BY <1>1, HumanEditAssumption DEF EditTypes
<1> QED
  BY <1>2, <1>3, <1>4, <1>5 DEF EditTypeOK

\* The type invariant: what is stored, shown and in the files are snapshots, and there is
\* at most one tick for each session begun (handleEditPoll).
THEOREM EditTypeCorrect == EditSpec => []EditTypeOK
  BY InvariantIsTyped, EditInvariantHolds, PTL

\* What the polled session applied and nobody overwrote is what br holds, so the next diff
\* is taken against the stored value, for any number of saves, sessions, agents and br
\* failures (handleEditPoll).
THEOREM LastAppliedIsStoredHolds == EditSpec => []LastAppliedIsStored
  BY EditInvariantHolds, PTL DEF EditInvariant

\* The steps that DeletesOnlyUnchangedStub allows.
DeletesUnchangedStub ==
    \A i \in Issues : br[i] # NoIssue /\ br'[i] = NoIssue =>
          /\ i \notin Existing
          /\ \A f \in Fields : <<i, f>> \in editorOwns =>
                \/ br[i][f] = pendingEdit.original[f]
                \/ f = "labels" /\ pendingEdit.lastApplied[f] = Empty

\* Only the end of a polled session and of a suspended one deletes an issue.
LEMMA StepDeletesOnlyStubs == EditInvariant /\ [EditNext]_editVars => DeletesUnchangedStub
<1> SUFFICES ASSUME EditInvariant, [EditNext]_editVars, NEW i \in Issues, br[i] # NoIssue, br'[i] = NoIssue
             PROVE  /\ i \notin Existing
                    /\ \A f \in Fields : <<i, f>> \in editorOwns =>
                          \/ br[i][f] = pendingEdit.original[f]
                          \/ f = "labels" /\ pendingEdit.lastApplied[f] = Empty
  BY DEF DeletesUnchangedStub
<1> USE DEF EditInvariant
<1>a. br \in Stored
  BY DEF EditTypes
<1>1. br' # br
  OBVIOUS
<1>2. ASSUME NEW j \in Issues, NEW f \in Fields, NEW v \in Values, AgentWrites(j, f, v) PROVE FALSE
  <2>1. br[j] # NoIssue /\ FieldSet(br, br', j, f, v)
    BY <1>2 DEF AgentWrites, FieldSet
  <2> QED
    BY <1>a, <2>1, FieldStores
<1>3. ASSUME NEW j \in Issues, createNewIssue(j) PROVE FALSE
  BY <1>a, <1>3, StubIsSnapshot DEF createNewIssue, Stored
<1>4. ASSUME NEW u \in updates, UpdateRuns(u) PROVE FALSE
  <2>1. u.issue \in Issues /\ u.field \in Fields /\ u.value \in Values
    BY DEF EditTypes, Picked
  <2>2. br[u.issue] # NoIssue /\ FieldSet(br, br', u.issue, u.field, u.value)
    BY <1>1, <1>4 DEF UpdateRuns, BrWorks, FieldSet
  <2> QED
    BY <1>a, <2>1, <2>2, FieldStores
<1>5. ASSUME handleEditPoll
      PROVE  /\ pendingEdit # NoSession /\ i = pendingEdit.issue /\ CancelledCreate(pendingEdit)
  <2>1. CASE pendingEdit # NoSession /\ PollEnds
    <3>1. pendingEdit.issue \in Issues
      BY <2>1 DEF EditTypes, Polled
    <3>2. CancelledCreate(pendingEdit) /\ DeleteIssue(pendingEdit.issue)
      BY <1>1, <2>1 DEF PollEnds
    <3> QED
      BY <1>a, <2>1, <3>1, <3>2, DeleteStores
  <2>2. CASE pendingEdit # NoSession /\ PollApplies
    <3> DEFINE k == pendingEdit.issue
               content == mdFile[k].content
               diff == EditedSinceApplied(pendingEdit, content)
    <3>1. diff # {} /\ BrWorks(k) /\ BrUpdate(k, diff, content)
      BY <1>1, <2>2 DEF PollApplies
    <3>2. k \in Issues /\ content \in IssueSnapshot /\ br[k] # NoIssue
      BY <2>2, <3>1 DEF EditTypes, Polled, MdFile, PollApplies, EditedSinceApplied, DiffSnapshots, BrWorks
    <3> HIDE DEF k, content, diff
    <3> QED
      BY <1>a, <3>1, <3>2, UpdateStores
  <2> QED
    BY <1>1, <1>5, <2>1, <2>2 DEF handleEditPoll, PollSeesSave
<1>6. ASSUME NEW s \in finished, handleEditorFinished(s)
      PROVE  i = s.issue /\ s.newlyCreated
  <2>1. s.issue \in Issues
    BY DEF EditTypes, Suspended
  <2>2. CASE s.newlyCreated /\ DeleteIssue(s.issue)
    BY <1>a, <2>1, <2>2, DeleteStores
  <2>3. CASE /\ mdFile[s.issue] # NoFile /\ mdFile[s.issue].content # Garbled /\ BrWorks(s.issue)
             /\ BrUpdate(s.issue, DiffSnapshots(s.original, mdFile[s.issue].content), mdFile[s.issue].content)
    <3>1. mdFile[s.issue].content \in IssueSnapshot /\ br[s.issue] # NoIssue
      BY <2>1, <2>3 DEF EditTypes, MdFile, BrWorks
    <3> QED
      BY <1>a, <2>1, <2>3, <3>1, UpdateStores
  <2> QED
    BY <1>1, <1>6, <2>2, <2>3 DEF handleEditorFinished, FinishApplies
<1>7. CASE handleEditPoll
  <2>1. pendingEdit # NoSession /\ i = pendingEdit.issue /\ CancelledCreate(pendingEdit)
    BY <1>5, <1>7
  <2>2. i \notin Existing
    BY <2>1 DEF CreatedAreNew, CancelledCreate
  <2> SUFFICES ASSUME NEW f \in Fields, <<i, f>> \in editorOwns
               PROVE  \/ br[i][f] = pendingEdit.original[f]
                      \/ f = "labels" /\ pendingEdit.lastApplied[f] = Empty
    BY <2>2
  <2>3. pendingEdit.lastApplied \in IssueSnapshot
    BY <2>1 DEF EditTypes, Polled
  <2>4. \/ pendingEdit.original[f] = pendingEdit.lastApplied[f]
        \/ f = "labels" /\ pendingEdit.lastApplied[f] = Empty
    BY <2>1, <2>3, HumanEditAssumption DEF CancelledCreate, DiffSnapshots, IssueSnapshot
  <2>5. \/ br[i][f] = pendingEdit.lastApplied[f]
        \/ f = "labels" /\ pendingEdit.lastApplied[f] = Empty
    BY <2>1 DEF LastAppliedIsStored
  <2> QED
    BY <2>4, <2>5
<1>8. ASSUME NEW s \in finished, handleEditorFinished(s)
      PROVE  i \notin Existing /\ editorOwns = {}
  BY <1>6, <1>8 DEF CreatedAreNew, OneMode, EditTypes
<1>9. \/ handleEditPoll
      \/ \E s \in finished : handleEditorFinished(s)
      \/ \E u \in updates : UpdateRuns(u)
      \/ \E j \in Issues : createNewIssue(j)
      \/ \E j \in Issues, f \in Fields, v \in Values : AgentWrites(j, f, v)
  <2>1. UNCHANGED editVars => br' = br
    BY DEF editVars
  <2>2. ASSUME NEW j \in Issues
        PROVE  openIssueInEditor(j) \/ handleCreateAndEdit(j) \/ HumanGarbles(j) \/ FileRemoved(j) => br' = br
    BY DEF openIssueInEditor, handleCreateAndEdit, HumanGarbles, FileRemoved, StartSession
  <2>3. ASSUME NEW j \in Issues, NEW f \in Fields, NEW v \in Values
        PROVE  HumanSaves(j, f, v) \/ handleEditPickerResult(j, f, v) => br' = br
    BY DEF HumanSaves, handleEditPickerResult
  <2>4. EditorExits \/ Reload => br' = br
    BY DEF EditorExits, Reload
  <2> QED
    BY <1>1, <2>1, <2>2, <2>3, <2>4 DEF EditNext, HumanOrAgent
<1> QED
  BY <1>2, <1>3, <1>4, <1>7, <1>8, <1>9

\* An issue is only deleted when it was created here and what the session applied of it was
\* taken back, but for emptied labels (handleEditPoll, handleEditorFinished).
THEOREM DeletesOnlyUnchangedStubHolds == EditSpec => DeletesOnlyUnchangedStub
<1>1. EditInvariant /\ [EditNext]_editVars => [DeletesUnchangedStub]_editVars
  BY StepDeletesOnlyStubs
<1> QED
  BY <1>1, EditInvariantHolds, PTL DEF EditSpec, DeletesOnlyUnchangedStub, DeletesUnchangedStub

-----------------------------------------------------------------------------
(* What the human did not write *)

\* The file of an issue differs from the snapshot snap only where the human changed it.
AsOpened(i, snap) ==
    mdFile[i] # NoFile /\ mdFile[i].content # Garbled =>
        \A f \in Fields \ touched[i] : mdFile[i].content[f] = snap[f]

\* What a session will compare its file with, and what a picker will write.
FilesAreHumans ==
    /\ pendingEdit # NoSession => AsOpened(pendingEdit.issue, pendingEdit.lastApplied)
    /\ \A s \in finished : s.issue \notin reopened => AsOpened(s.issue, s.original)
    /\ execing # NoSession /\ execing.issue \notin reopened => AsOpened(execing.issue, execing.original)

PickedIsTouched == \A u \in updates : u.field \in touched[u.issue]

HumanInv == UntouchedFieldsKeepOthersValue /\ FilesAreHumans /\ PickedIsTouched

\* What the files, the sessions and the pickers are about.
editWork == <<mdFile, touched, pendingEdit, finished, execing, updates, reopened>>

\* Steps that touch no file, session or picker.
LEMMA WorkStays ==
    FilesAreHumans /\ PickedIsTouched /\ UNCHANGED editWork => FilesAreHumans' /\ PickedIsTouched'
BY DEF editWork, FilesAreHumans, PickedIsTouched, AsOpened

\* Nothing is edited at first.
LEMMA HumanInitHolds == EditInit => HumanInv
BY DEF EditInit, HumanInv, UntouchedFieldsKeepOthersValue, FilesAreHumans, PickedIsTouched

\* What another process writes is what others last stored.
LEMMA AgentIsOther ==
    ASSUME EditInvariant, HumanInv, NEW i \in Issues, NEW f \in Fields, NEW v \in Values, AgentWrites(i, f, v)
    PROVE  HumanInv'
<1> USE DEF EditInvariant, HumanInv
<1>1. othersValue[i] # NoIssue
  BY DEF AgentWrites, KnownIds
<1>2. /\ \A j \in Issues \ {i} : br'[j] = br[j]
      /\ \A g \in Fields \ {f} : br'[i][g] = br[i][g]
      /\ br'[i][f] = v
  <2>1. br \in Stored /\ br[i] # NoIssue /\ FieldSet(br, br', i, f, v)
    BY DEF AgentWrites, EditTypes, FieldSet
  <2> QED
    BY <2>1, FieldStores
<1>3. /\ \A j \in Issues \ {i} : othersValue'[j] = othersValue[j]
      /\ \A g \in Fields \ {f} : othersValue'[i][g] = othersValue[i][g]
      /\ othersValue'[i][f] = v
  <2>1. othersValue \in Stored /\ FieldSet(othersValue, othersValue', i, f, v)
    BY DEF AgentWrites, EditTypes, FieldSet
  <2> QED
    BY <1>1, <2>1, FieldStores
<1>4. br[i] # NoIssue /\ UNCHANGED editWork
  BY DEF AgentWrites, editWork
<1>5. UntouchedFieldsKeepOthersValue'
  <2> SUFFICES ASSUME NEW j \in Issues \ reopened, br'[j] # NoIssue, NEW g \in Fields \ touched[j]
               PROVE  br'[j][g] = othersValue'[j][g]
    BY <1>4 DEF UntouchedFieldsKeepOthersValue, editWork
  <2>1. CASE j # i
    BY <1>2, <1>3, <2>1 DEF UntouchedFieldsKeepOthersValue
  <2>2. CASE j = i
    BY <1>2, <1>3, <1>4, <2>2 DEF UntouchedFieldsKeepOthersValue
  <2> QED
    BY <2>1, <2>2
<1> QED
  BY <1>4, <1>5, WorkStays

\* A save changes one field of one file, and the human has touched that field.
LEMMA SaveTouches ==
    ASSUME EditInvariant, HumanInv, NEW i \in Issues, NEW f \in Fields, NEW v \in Values, HumanSaves(i, f, v)
    PROVE  HumanInv'
<1> USE DEF EditInvariant, HumanInv
<1>1. /\ mdFile[i] # NoFile /\ mdFile[i].content # Garbled
      /\ UNCHANGED <<br, othersValue, pendingEdit, finished, execing, updates, reopened>>
  BY DEF HumanSaves
<1>2. mdFile[i].content \in IssueSnapshot
  BY <1>1 DEF EditTypes, MdFile
<1>3. /\ \A j \in Issues \ {i} : mdFile'[j] = mdFile[j]
      /\ \A g \in Fields \ {f} : mdFile'[i].content[g] = mdFile[i].content[g]
  BY <1>2 DEF HumanSaves, EditTypes, IssueSnapshot
<1>4. /\ touched'[i] = touched[i] \cup {f}
      /\ \A j \in Issues \ {i} : touched'[j] = touched[j]
  BY DEF HumanSaves, EditTypes
<1>5. \A j \in Issues : touched[j] \subseteq touched'[j]
  BY <1>4
<1>6. ASSUME NEW j \in Issues, NEW snap, AsOpened(j, snap)
      PROVE  mdFile'[j] # NoFile /\ mdFile'[j].content # Garbled =>
                 \A g \in Fields \ touched'[j] : mdFile'[j].content[g] = snap[g]
  <2>1. CASE j = i
    BY <1>1, <1>3, <1>4, <1>6, <2>1 DEF AsOpened
  <2>2. CASE j # i
    BY <1>3, <1>4, <1>6, <2>2 DEF AsOpened
  <2> QED
    BY <2>1, <2>2
<1>7. UntouchedFieldsKeepOthersValue'
  BY <1>1, <1>5 DEF UntouchedFieldsKeepOthersValue
<1>8. FilesAreHumans'
  <2>1. /\ pendingEdit # NoSession => pendingEdit.issue \in Issues
        /\ execing # NoSession => execing.issue \in Issues
        /\ \A s \in finished : s.issue \in Issues
    BY DEF EditTypes, Polled, Suspended
  <2> QED
    BY <1>1, <1>6, <2>1 DEF FilesAreHumans, AsOpened
<1>9. PickedIsTouched'
  BY <1>1, <1>5 DEF PickedIsTouched, EditTypes, Picked
<1> QED
  BY <1>7, <1>8, <1>9

\* A file that does not parse, or is gone, is compared with nothing.
LEMMA FileIsLost ==
    ASSUME EditInvariant, HumanInv, NEW i \in Issues, HumanGarbles(i) \/ FileRemoved(i)
    PROVE  HumanInv'
<1> USE DEF EditInvariant, HumanInv
<1>1. UNCHANGED <<br, othersValue, touched, pendingEdit, finished, execing, updates, reopened>>
  BY DEF HumanGarbles, FileRemoved, editHistory
<1>2. /\ mdFile'[i] = NoFile \/ mdFile'[i].content = Garbled
      /\ \A j \in Issues \ {i} : mdFile'[j] = mdFile[j]
  BY DEF HumanGarbles, FileRemoved, EditTypes
<1>3. UntouchedFieldsKeepOthersValue' /\ PickedIsTouched'
  BY <1>1 DEF UntouchedFieldsKeepOthersValue, PickedIsTouched
<1>4. FilesAreHumans'
  <2>1. /\ pendingEdit # NoSession => pendingEdit.issue \in Issues
        /\ execing # NoSession => execing.issue \in Issues
        /\ \A s \in finished : s.issue \in Issues
    BY DEF EditTypes, Polled, Suspended
  <2> QED
    BY <1>1, <1>2, <2>1 DEF FilesAreHumans, AsOpened
<1> QED
  BY <1>3, <1>4

\* A picker writes the field the human chose.
LEMMA PickerTouches ==
    ASSUME EditInvariant, HumanInv, NEW i \in Issues, NEW f \in Fields, NEW v \in Values,
           handleEditPickerResult(i, f, v)
    PROVE  HumanInv'
<1> USE DEF EditInvariant, HumanInv
<1>1. UNCHANGED <<br, othersValue, mdFile, pendingEdit, finished, execing, reopened>>
  BY DEF handleEditPickerResult
<1>2. \A j \in Issues : touched[j] \subseteq touched'[j]
  BY DEF handleEditPickerResult, EditTypes
<1>3. f \in touched'[i]
  BY DEF handleEditPickerResult, EditTypes
<1>4. UntouchedFieldsKeepOthersValue'
  BY <1>1, <1>2 DEF UntouchedFieldsKeepOthersValue
<1>5. FilesAreHumans'
  <2>1. /\ pendingEdit # NoSession => pendingEdit.issue \in Issues
        /\ execing # NoSession => execing.issue \in Issues
        /\ \A s \in finished : s.issue \in Issues
    BY DEF EditTypes, Polled, Suspended
  <2> QED
    BY <1>1, <1>2, <2>1 DEF FilesAreHumans, AsOpened
<1>6. PickedIsTouched'
  <2>1. updates' = updates \cup {[issue |-> i, field |-> f, value |-> v]}
    BY DEF handleEditPickerResult
  <2> QED
    BY <1>2, <1>3, <2>1 DEF PickedIsTouched, EditTypes, Picked
<1> QED
  BY <1>4, <1>5, <1>6

\* The exit of an editor changes no file.
LEMMA ExitIsHumans ==
    ASSUME HumanInv, EditorExits PROVE HumanInv'
<1>1. UNCHANGED <<br, othersValue, mdFile, touched, pendingEdit, updates, reopened>>
      /\ execing # NoSession /\ execing' = NoSession /\ finished' = finished \cup {execing}
  BY DEF EditorExits, editHistory
<1> QED
  BY <1>1 DEF HumanInv, UntouchedFieldsKeepOthersValue, PickedIsTouched, FilesAreHumans, AsOpened

\* A session starts from a file that is its own snapshot; another session of the same issue
\* that has not been handled makes it a reopened one.
LEMMA SessionIsAsOpened ==
    ASSUME EditInvariant, HumanInv, NEW i \in Issues, NEW snap \in IssueSnapshot, NEW new \in BOOLEAN,
           UNCHANGED br, execing = NoSession, StartSession(i, snap, new)
    PROVE  HumanInv'
<1> USE DEF EditInvariant, HumanInv
<1>1. UNCHANGED <<br, othersValue, touched, updates, finished>>
  BY DEF StartSession
<1>2. /\ mdFile'[i].content = snap
      /\ \A j \in Issues \ {i} : mdFile'[j] = mdFile[j]
  BY DEF StartSession, EditTypes
<1>3. /\ reopened \subseteq reopened'
      /\ \A s \in finished : s.issue = i => i \in reopened'
  BY DEF StartSession
<1>4. UntouchedFieldsKeepOthersValue' /\ PickedIsTouched'
  BY <1>1, <1>3 DEF UntouchedFieldsKeepOthersValue, PickedIsTouched
<1>5. \A s \in finished : s.issue \notin reopened' => AsOpened(s.issue, s.original)'
  <2> SUFFICES ASSUME NEW s \in finished, s.issue \notin reopened'
               PROVE  AsOpened(s.issue, s.original)'
    OBVIOUS
  <2>1. s.issue \in Issues \ {i} /\ s.issue \notin reopened
    BY <1>3 DEF EditTypes, Suspended
  <2>2. AsOpened(s.issue, s.original)
    BY <2>1 DEF FilesAreHumans
  <2> QED
    BY <1>1, <1>2, <2>1, <2>2 DEF AsOpened
<1>6. CASE async
  <2>1. /\ pendingEdit'.issue = i /\ pendingEdit'.lastApplied = snap /\ execing' = NoSession
    BY <1>6 DEF StartSession
  <2> QED
    BY <1>1, <1>2, <1>4, <1>5, <2>1 DEF FilesAreHumans, AsOpened
<1>7. CASE ~async
  <2>1. execing'.issue = i /\ execing'.original = snap /\ pendingEdit' = NoSession
    BY <1>7 DEF StartSession, OneMode
  <2> QED
    BY <1>1, <1>2, <1>4, <1>5, <2>1 DEF FilesAreHumans, AsOpened
<1> QED
  BY <1>6, <1>7 DEF EditTypes

\* Opening an issue, by its key or because it was created here, begins a session or
\* changes nothing.
LEMMA OpenIsHumans ==
    ASSUME EditInvariant, HumanInv, NEW i \in Issues, openIssueInEditor(i) \/ handleCreateAndEdit(i)
    PROVE  HumanInv'
<1>1. execing = NoSession
  BY DEF openIssueInEditor, handleCreateAndEdit
<1>2. CASE \E snap \in IssueSnapshot, new \in BOOLEAN : StartSession(i, snap, new)
  <2>1. UNCHANGED br
    BY <1>2 DEF StartSession
  <2> QED
    BY <1>1, <1>2, <2>1, SessionIsAsOpened
<1>3. CASE UNCHANGED <<br, mdFile, pendingEdit, execing, finished, updates, editHistory>>
  BY <1>3, WorkStays DEF HumanInv, UntouchedFieldsKeepOthersValue, editWork, editHistory
<1>4. \/ br[i] \in IssueSnapshot /\ \E new \in BOOLEAN : StartSession(i, br[i], new)
      \/ shown[i] \in IssueSnapshot /\ \E new \in BOOLEAN : StartSession(i, shown[i], new)
      \/ UNCHANGED <<br, mdFile, pendingEdit, execing, finished, updates, editHistory>>
  BY DEF openIssueInEditor, handleCreateAndEdit, BrWorks, EditInvariant, EditTypes, Stored
<1> QED
  BY <1>2, <1>3, <1>4

\* A created issue holds what its creation stored.
LEMMA CreateIsOther ==
    ASSUME EditInvariant, HumanInv, NEW i \in Issues, createNewIssue(i) PROVE HumanInv'
<1> USE DEF EditInvariant, HumanInv
<1>1. br'[i] = Stub /\ othersValue'[i] = Stub
      /\ \A j \in Issues \ {i} : br'[j] = br[j] /\ othersValue'[j] = othersValue[j]
  BY DEF createNewIssue, EditTypes, Stored
<1>2. UNCHANGED editWork
  BY DEF createNewIssue, editWork
<1>3. UntouchedFieldsKeepOthersValue'
  BY <1>1, <1>2 DEF UntouchedFieldsKeepOthersValue, editWork
<1> QED
  BY <1>2, <1>3, WorkStays

\* br update with what differs between two snapshots that agree where the human did not
\* write leaves the rest as others stored it.
LEMMA UpdateIsHumans ==
    ASSUME EditInvariant, UntouchedFieldsKeepOthersValue, NEW i \in Issues, NEW snap, br[i] # NoIssue,
           mdFile[i] # NoFile, mdFile[i].content # Garbled,
           BrUpdate(i, DiffSnapshots(snap, mdFile[i].content), mdFile[i].content),
           i \notin reopened => AsOpened(i, snap),
           UNCHANGED <<touched, othersValue, reopened>>
    PROVE  UntouchedFieldsKeepOthersValue'
<1> DEFINE diff == DiffSnapshots(snap, mdFile[i].content)
<1>1. mdFile[i].content \in IssueSnapshot /\ br \in Stored
  BY DEF EditInvariant, EditTypes, MdFile
<1>2. \A f \in BuildUpdateArgv(diff) : snap[f] # mdFile[i].content[f]
  BY DEF DiffSnapshots, BuildUpdateArgv
<1>3. i \notin reopened => \A f \in Fields \ touched[i] : f \notin BuildUpdateArgv(diff)
  BY <1>2 DEF AsOpened
<1> HIDE DEF diff
<1>4. /\ \A j \in Issues \ {i} : br'[j] = br[j]
      /\ \A f \in Fields : br'[i][f] = IF f \in BuildUpdateArgv(diff) THEN mdFile[i].content[f] ELSE br[i][f]
  BY <1>1, UpdateStores DEF diff
<1> SUFFICES ASSUME NEW j \in Issues \ reopened, br'[j] # NoIssue, NEW f \in Fields \ touched[j]
             PROVE  br'[j][f] = othersValue[j][f]
  BY DEF UntouchedFieldsKeepOthersValue
<1>5. CASE j = i
  BY <1>3, <1>4, <1>5 DEF UntouchedFieldsKeepOthersValue
<1>6. CASE j # i
  BY <1>4, <1>6 DEF UntouchedFieldsKeepOthersValue
<1> QED
  BY <1>5, <1>6

\* A deletion leaves the other issues alone.
LEMMA DeleteIsHumans ==
    ASSUME EditInvariant, UntouchedFieldsKeepOthersValue, NEW i \in Issues, DeleteIssue(i),
           UNCHANGED <<touched, othersValue, reopened>>
    PROVE  UntouchedFieldsKeepOthersValue'
<1>1. \A j \in Issues : br'[j] = br[j] \/ br'[j] = NoIssue
  BY DeleteStores DEF EditInvariant, EditTypes
<1> QED
  BY <1>1 DEF UntouchedFieldsKeepOthersValue

\* A tick writes what differs from what it applied last.
LEMMA PollIsHumans ==
    ASSUME EditInvariant, HumanInv, handleEditPoll PROVE HumanInv'
<1> USE DEF EditInvariant, HumanInv
<1>1. UNCHANGED <<mdFile, touched, othersValue, finished, execing, updates, reopened>>
  BY DEF handleEditPoll
<1>2. PickedIsTouched'
  BY <1>1 DEF PickedIsTouched
<1>3. pendingEdit # NoSession => pendingEdit \in Polled /\ pendingEdit.issue \in Issues
  BY DEF EditTypes, Polled
<1>4. ASSUME UNCHANGED br PROVE UntouchedFieldsKeepOthersValue'
  BY <1>1, <1>4 DEF UntouchedFieldsKeepOthersValue
<1>5. ASSUME pendingEdit' = NoSession
             \/ (pendingEdit # NoSession /\ pendingEdit'.issue = pendingEdit.issue
                 /\ pendingEdit'.lastApplied = pendingEdit.lastApplied)
      PROVE  FilesAreHumans'
  BY <1>1, <1>5 DEF FilesAreHumans, AsOpened
<1>6. CASE pendingEdit = NoSession /\ UNCHANGED <<br, pendingEdit>>
  BY <1>2, <1>4, <1>5, <1>6
<1>7. CASE pendingEdit # NoSession /\ PollEnds
  <2>1. UntouchedFieldsKeepOthersValue'
    BY <1>1, <1>3, <1>4, <1>7, DeleteIsHumans DEF PollEnds
  <2> QED
    BY <1>2, <1>5, <1>7, <2>1 DEF PollEnds
<1>8. CASE pendingEdit # NoSession /\ PollSeesSave
  <2>1. pendingEdit'.issue = pendingEdit.issue /\ pendingEdit'.lastApplied = pendingEdit.lastApplied
    BY <1>3, <1>8 DEF PollSeesSave, Polled
  <2>2. UNCHANGED br
    BY <1>8 DEF PollSeesSave
  <2> QED
    BY <1>2, <1>4, <1>5, <1>8, <2>1, <2>2
<1>9. CASE pendingEdit # NoSession /\ PollApplies
  <2> DEFINE i == pendingEdit.issue
             content == mdFile[i].content
             diff == EditedSinceApplied(pendingEdit, content)
  <2>1. CASE UNCHANGED br /\ pendingEdit' = [pendingEdit EXCEPT !.changed = FALSE]
    <3>1. pendingEdit'.issue = pendingEdit.issue /\ pendingEdit'.lastApplied = pendingEdit.lastApplied
      BY <1>3, <1>9, <2>1 DEF Polled
    <3> QED
      BY <1>2, <1>4, <1>5, <1>9, <2>1, <3>1
  <2>2. CASE UNCHANGED br /\ pendingEdit' = AfterUpdate(pendingEdit, content, FALSE)
    <3>1. pendingEdit'.issue = pendingEdit.issue /\ pendingEdit'.lastApplied = pendingEdit.lastApplied
      BY <1>3, <1>9, <2>2 DEF Polled, AfterUpdate
    <3> QED
      BY <1>2, <1>4, <1>5, <1>9, <2>2, <3>1
  <2>3. CASE /\ diff # {} /\ BrWorks(i) /\ BrUpdate(i, diff, content)
             /\ pendingEdit' = AfterUpdate(pendingEdit, content, TRUE)
    <3>1. mdFile[i] # NoFile /\ content # Garbled
      BY <1>9, <2>3 DEF PollApplies, EditedSinceApplied, DiffSnapshots
    <3>2. AsOpened(i, pendingEdit.lastApplied)
      BY <1>9 DEF FilesAreHumans
    <3>3. pendingEdit'.issue = i /\ pendingEdit'.lastApplied = content
      BY <1>3, <1>9, <2>3 DEF Polled, AfterUpdate
    <3>4. UntouchedFieldsKeepOthersValue'
      BY <1>1, <1>3, <1>9, <2>3, <3>1, <3>2, UpdateIsHumans DEF EditedSinceApplied, BrWorks
    <3>5. FilesAreHumans'
      BY <1>1, <3>3 DEF FilesAreHumans, AsOpened
    <3> QED
      BY <1>2, <3>4, <3>5
  <2> QED
    BY <1>9, <2>1, <2>2, <2>3 DEF PollApplies
<1> QED
  BY <1>6, <1>7, <1>8, <1>9 DEF handleEditPoll

\* The end of a suspended session writes what differs from what it opened.
LEMMA FinishIsHumans ==
    ASSUME EditInvariant, HumanInv, NEW s \in finished, handleEditorFinished(s) PROVE HumanInv'
<1> USE DEF EditInvariant, HumanInv
<1>1. UNCHANGED <<mdFile, touched, othersValue, pendingEdit, execing, updates, reopened>>
      /\ finished' = finished \ {s}
  BY DEF handleEditorFinished
<1>2. s.issue \in Issues /\ (s.issue \notin reopened => AsOpened(s.issue, s.original))
  BY DEF EditTypes, Suspended, FilesAreHumans
<1>3. FilesAreHumans' /\ PickedIsTouched'
  BY <1>1 DEF FilesAreHumans, PickedIsTouched, AsOpened
<1>4. UntouchedFieldsKeepOthersValue'
  <2>1. CASE UNCHANGED br
    BY <1>1, <2>1 DEF UntouchedFieldsKeepOthersValue
  <2>2. CASE DeleteIssue(s.issue)
    BY <1>1, <1>2, <2>2, DeleteIsHumans
  <2>3. CASE /\ mdFile[s.issue] # NoFile /\ mdFile[s.issue].content # Garbled /\ BrWorks(s.issue)
             /\ BrUpdate(s.issue, DiffSnapshots(s.original, mdFile[s.issue].content), mdFile[s.issue].content)
    BY <1>1, <1>2, <2>3, UpdateIsHumans DEF BrWorks
  <2> QED
    BY <2>1, <2>2, <2>3 DEF handleEditorFinished, FinishApplies
<1> QED
  BY <1>3, <1>4

\* The goroutine of a picker writes the field the human chose.
LEMMA UpdateRunsIsHumans ==
    ASSUME EditInvariant, HumanInv, NEW u \in updates, UpdateRuns(u) PROVE HumanInv'
<1> USE DEF EditInvariant, HumanInv
<1>1. UNCHANGED <<mdFile, touched, othersValue, pendingEdit, finished, execing, reopened>>
      /\ updates' \subseteq updates
  BY DEF UpdateRuns
<1>2. u.issue \in Issues /\ u.field \in Fields /\ u.value \in Values /\ u.field \in touched[u.issue]
  BY DEF EditTypes, Picked, PickedIsTouched
<1>3. FilesAreHumans' /\ PickedIsTouched'
  BY <1>1 DEF FilesAreHumans, PickedIsTouched, AsOpened
<1>4. CASE UNCHANGED br
  BY <1>1, <1>3, <1>4 DEF UntouchedFieldsKeepOthersValue
<1>5. CASE br[u.issue] # NoIssue /\ br' = [br EXCEPT ![u.issue][u.field] = u.value]
  <2>1. /\ \A j \in Issues \ {u.issue} : br'[j] = br[j]
        /\ \A g \in Fields \ {u.field} : br'[u.issue][g] = br[u.issue][g]
    BY <1>2, <1>5, FieldStores DEF EditTypes, FieldSet
  <2>2. UntouchedFieldsKeepOthersValue'
    <3> SUFFICES ASSUME NEW j \in Issues \ reopened, br'[j] # NoIssue, NEW g \in Fields \ touched[j]
                 PROVE  br'[j][g] = othersValue[j][g]
      BY <1>1 DEF UntouchedFieldsKeepOthersValue
    <3>1. CASE j = u.issue
      BY <1>2, <1>5, <2>1, <3>1 DEF UntouchedFieldsKeepOthersValue
    <3>2. CASE j # u.issue
      BY <2>1, <3>2 DEF UntouchedFieldsKeepOthersValue
    <3> QED
      BY <3>1, <3>2
  <2> QED
    BY <1>3, <2>2
<1> QED
  BY <1>4, <1>5 DEF UpdateRuns, BrWorks

\* Every step leaves what the human did not write as others stored it.
LEMMA HumanStep == EditInvariant /\ HumanInv /\ [EditNext]_editVars => HumanInv'
<1> SUFFICES ASSUME EditInvariant, HumanInv, [EditNext]_editVars PROVE HumanInv'
  OBVIOUS
<1>1. ASSUME NEW i \in Issues, NEW f \in Fields, NEW v \in Values,
             AgentWrites(i, f, v) \/ HumanSaves(i, f, v) \/ handleEditPickerResult(i, f, v)
      PROVE  HumanInv'
  BY <1>1, AgentIsOther, SaveTouches, PickerTouches
<1>2. ASSUME NEW i \in Issues, \/ HumanGarbles(i) \/ FileRemoved(i) \/ openIssueInEditor(i)
                               \/ createNewIssue(i) \/ handleCreateAndEdit(i)
      PROVE  HumanInv'
  BY <1>2, FileIsLost, OpenIsHumans, CreateIsOther
<1>3. CASE EditorExits \/ handleEditPoll
  BY <1>3, ExitIsHumans, PollIsHumans
<1>4. ASSUME NEW s \in finished, handleEditorFinished(s) PROVE HumanInv'
  BY <1>4, FinishIsHumans
<1>5. ASSUME NEW u \in updates, UpdateRuns(u) PROVE HumanInv'
  BY <1>5, UpdateRunsIsHumans
<1>6. CASE Reload \/ UNCHANGED editVars
  <2>1. UNCHANGED <<br, othersValue, editWork>>
    BY <1>6 DEF Reload, editVars, editWork, editHistory
  <2>2. UntouchedFieldsKeepOthersValue'
    BY <2>1 DEF HumanInv, UntouchedFieldsKeepOthersValue, editWork
  <2> QED
    BY <2>1, <2>2, WorkStays DEF HumanInv
<1> QED
  BY <1>1, <1>2, <1>3, <1>4, <1>5, <1>6 DEF EditNext, HumanOrAgent

\* An edit writes no more than the human changed, and what counts as applied is stored, for
\* any number of issues, sessions, agents and failures of br, but for issues reopened before
\* the exit of their editor is handled (openIssueInEditor, DiffSnapshots, handleEditPoll,
\* handleEditorFinished).
THEOREM EditsAreTheHumansHolds == EditSpec => []EditsAreTheHumans
<1>1. EditSpec => []HumanInv
  BY HumanInitHolds, HumanStep, EditInvariantHolds, PTL DEF EditSpec
<1>2. HumanInv /\ EditInvariant => EditsAreTheHumans
  BY DEF HumanInv, EditInvariant, EditsAreTheHumans
<1> QED
  BY <1>1, <1>2, EditInvariantHolds, PTL

ReopenedWasCreated == reopened \cap Existing = {} /\ (async => reopened = {})

\* Only an issue created here is ever reopened, and only in the synchronous mode: for all
\* others EditsAreTheHumans has no exception (openIssueInEditor, handleCreateAndEdit).
THEOREM OnlyCreatedAreReopened == EditSpec => []ReopenedWasCreated
<1>1. EditInit => ReopenedWasCreated
  BY DEF EditInit, ReopenedWasCreated
<1>2. EditInvariant /\ ReopenedWasCreated /\ [EditNext]_editVars => ReopenedWasCreated'
  <2> SUFFICES ASSUME EditInvariant, ReopenedWasCreated, [EditNext]_editVars PROVE ReopenedWasCreated'
    OBVIOUS
  <2>1. CASE UNCHANGED <<async, reopened>>
    BY <2>1 DEF ReopenedWasCreated
  <2>2. ASSUME NEW i \in Issues, openIssueInEditor(i) PROVE UNCHANGED <<async, reopened>>
    BY <2>2 DEF openIssueInEditor, StartSession
  <2>3. ASSUME NEW i \in Issues, handleCreateAndEdit(i) PROVE ReopenedWasCreated'
    <3>1. i \notin Existing
      BY <2>3 DEF handleCreateAndEdit, EditInvariant, CreatedAreNew
    <3>2. async => finished = {}
      BY DEF EditInvariant, OneMode
    <3> QED
      BY <2>1, <2>3, <3>1, <3>2 DEF handleCreateAndEdit, StartSession, ReopenedWasCreated, editHistory
  <2>4. ASSUME NEW i \in Issues, HumanGarbles(i) \/ FileRemoved(i) \/ createNewIssue(i)
        PROVE  UNCHANGED <<async, reopened>>
    BY <2>4 DEF HumanGarbles, FileRemoved, createNewIssue, editHistory
  <2>5. ASSUME NEW i \in Issues, NEW f \in Fields, NEW v \in Values,
               AgentWrites(i, f, v) \/ HumanSaves(i, f, v) \/ handleEditPickerResult(i, f, v)
        PROVE  UNCHANGED <<async, reopened>>
    BY <2>5 DEF AgentWrites, HumanSaves, handleEditPickerResult
  <2>6. CASE EditorExits \/ Reload \/ handleEditPoll \/ UNCHANGED editVars
    BY <2>1, <2>6 DEF EditorExits, Reload, handleEditPoll, editVars, editHistory
  <2>7. ASSUME NEW s \in finished, handleEditorFinished(s) PROVE UNCHANGED <<async, reopened>>
    BY <2>7 DEF handleEditorFinished
  <2>8. ASSUME NEW u \in updates, UpdateRuns(u) PROVE UNCHANGED <<async, reopened>>
    BY <2>8 DEF UpdateRuns
  <2> QED
    BY <2>1, <2>2, <2>3, <2>4, <2>5, <2>6, <2>7, <2>8 DEF EditNext, HumanOrAgent
<1> QED
  BY <1>1, <1>2, EditInvariantHolds, PTL DEF EditSpec

-----------------------------------------------------------------------------
(* The parts together *)

\* A behaviour of the parts together is one of the edits, and one of the tree.
LEMMA EditAndTree ==
    IssuesSpec => EditInit /\ [][EditNext]_editVars /\ TreeInit /\ [][TreeNext]_treeVars
<1>1. IssuesInit => EditInit /\ TreeInit
  BY DEF IssuesInit
<1>2. [IssuesNext]_issuesVars => [EditNext]_editVars /\ [TreeNext]_treeVars
  <2> SUFFICES ASSUME [IssuesNext]_issuesVars PROVE [EditNext]_editVars /\ [TreeNext]_treeVars
    OBVIOUS
  <2>1. CASE OnEdit /\ EditNext
    BY <2>1 DEF OnEdit
  <2>2. CASE OnReadiness
    BY <2>2 DEF OnReadiness
  <2>3. CASE OnGraph
    BY <2>3 DEF OnGraph
  <2>4. CASE OnTheTree /\ TreeNext
    BY <2>4 DEF OnTheTree
  <2>5. CASE UNCHANGED issuesVars
    BY <2>5 DEF issuesVars
  <2> QED
    BY <2>1, <2>2, <2>3, <2>4, <2>5 DEF IssuesNext
<1> QED
  BY <1>1, <1>2, PTL DEF IssuesSpec

(* What the human edits and what the tree shows keep their types when both *)
(* are parts of one behaviour (IssuesTypeOK).                              *)
THEOREM IssuesTypeCorrect == IssuesSpec => []IssuesTypeOK
<1>1. EditInit => EditInvariant
  BY EditInitHolds
<1>2. EditInvariant /\ [EditNext]_editVars => EditInvariant'
  BY EditStep
<1>3. TreeInit => TreeInv
  BY InitHolds
<1>4. TreeInv /\ [TreeNext]_treeVars => TreeInv'
  BY TreeStep
<1>5. EditInvariant /\ TreeInv => IssuesTypeOK
  BY InvariantIsTyped DEF IssuesTypeOK, TreeInv
<1> QED
  BY <1>1, <1>2, <1>3, <1>4, <1>5, EditAndTree, PTL

\* A behaviour of the parts together is one of the analysis.
LEMMA AnalysisOfIssues == IssuesSpec => ReadinessInit /\ [][ReadinessNext]_readyVars
<1>1. IssuesInit => ReadinessInit
  BY DEF IssuesInit
<1>2. [IssuesNext]_issuesVars => [ReadinessNext]_readyVars
  <2> SUFFICES ASSUME [IssuesNext]_issuesVars PROVE [ReadinessNext]_readyVars
    OBVIOUS
  <2>1. CASE OnEdit
    BY <2>1 DEF OnEdit
  <2>2. CASE OnReadiness /\ ReadinessNext
    BY <2>2 DEF OnReadiness
  <2>3. CASE OnGraph
    BY <2>3 DEF OnGraph
  <2>4. CASE OnTheTree
    BY <2>4 DEF OnTheTree
  <2>5. CASE UNCHANGED issuesVars
    BY <2>5 DEF issuesVars
  <2> QED
    BY <2>1, <2>2, <2>3, <2>4, <2>5 DEF IssuesNext
<1> QED
  BY <1>1, <1>2, PTL DEF IssuesSpec

(* Which issues are ready, or would be once others are done, is what the   *)
(* definition over the whole table says, and what is planned from it is    *)
(* true: the tracks, what a completion unblocks, chains and their depths,  *)
(* the greedy picks and the gain (PlansAreTrue), for any table of issues.  *)
THEOREM PlansAreTrueHolds == IssuesSpec => []PlansAreTrue
<1>1. ReadinessInit => ComputeInv
  BY ComputeInit
<1>2. ComputeInv /\ [ReadinessNext]_readyVars => ComputeInv'
  BY ComputeStep
<1>3. ComputeInv => PlansAreTrue
  BY InvariantIsExact, InvariantIsSound DEF PlansAreTrue
<1> QED
  BY <1>1, <1>2, <1>3, AnalysisOfIssues, PTL
=============================================================================
