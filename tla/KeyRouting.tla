------------------------------- MODULE KeyRouting -------------------------------
(***************************************************************************)
(* pkg/ui/model.go, Update and renderMainView: who gets a key and what is  *)
(* on the screen.  Views, overlays and text inputs are opened by keys, a   *)
(* click, the size of the terminal and messages of background commands,    *)
(* each with a boolean of its own beside the one field that says where the *)
(* focus is.  Keys that change nothing of this, or the same as one that is *)
(* there, are left out; whether there is an issue, a label or an alert to  *)
(* act on is left open.  V asks for the session lookup of SessionLookup;   *)
(* here is only its answer.                                                *)
(***************************************************************************)
EXTENDS Naturals, Sequences, FiniteSets, SequencesExt

CONSTANTS
    MaxOn,    \* bound: booleans true at once, not counting showQuitConfirm and isSplitView
    MaxEscs   \* presses of esc that count

ASSUME RoutingAssumption == MaxOn \in Nat \ {0} /\ MaxEscs \in Nat \ {0}

VARIABLES
    focused,        \* Model.focused
    on,             \* the booleans of Model and of its views that are true
    back,           \* focusBeforeHelp and cassReturnFocus, while they count
    pendingCombo,   \* pendingComboFocus, "none" if there is no pending g
    escs            \* history: presses of esc since the last other input, up to MaxEscs

routingVars == <<focused, on, back, pendingCombo, escs>>

Pages == {"isGraphView", "isBoardView", "isActionableView", "isHistoryView"}

Overlays ==
    {"showQuitConfirm", "showAgentPrompt", "showCassModal", "showEditPicker", "showUpdateModal",
     "showLabelHealthDetail", "showLabelGraphAnalysis", "showLabelDrilldown", "showAlertsPanel",
     "showTimeTravelPrompt", "showRecipePicker", "showRepoPicker", "showLabelPicker", "showHelp",
     "showTutorial"}

\* The title editor, the inputs of the views, and the filter of the list.
Modes ==
    {"titleEdit", "boardSearch", "historySearch", "fileTreeFocus", "fileFilter", "flowDrilldown",
     "flowDetail", "updateRunning", "updateDone", "filtering", "filterApplied", "currentFilter"}

Others ==
    {"isSprintView", "isSplitView", "showDetails", "recipeGraphOwned", "historyReportIsCurrent",
     "quit"}

Focus ==
    {"list", "detail", "board", "graph", "tree", "labelDashboard", "insights", "actionable",
     "recipePicker", "repoPicker", "help", "quitConfirm", "timeTravelInput", "history",
     "attention", "labelPicker", "sprint", "agentPrompt", "flowMatrix", "tutorial", "cassModal",
     "updateModal"}

Key ==
    {"esc", "q", "enter", "ctrl+c", "tab", "?", "backtick", "/", " ", "a", "b", "d", "f", "g", "h", "i",
     "l", "n", "o", "t", "w", "y", "E", "P", "S", "U", "[", "]", "!", "quote", "1", "ctrl+p",
     "ctrl+t"}

RoutingInit ==
    /\ focused = "list" /\ on \in {{}, {"isSplitView"}}
    /\ back = [help |-> "none", cass |-> "none"] /\ pendingCombo = "none" /\ escs = 0

On(flag) == flag \in on
Open == on \cap Overlays

-----------------------------------------------------------------------------
(* The order in which Update offers a key, and what each layer takes.      *)
\* Fault: the pickers of recipes and repositories are asked after help and tutorial.
LayersPickersLate ==
    <<"agentPrompt", "cassModal", "updateModal", "healthDetail", "drilldown", "labelGraph",
      "attention", "alerts", "quitConfirm", "helpKey", "tutorialKey", "help", "tutorial",
      "repoPicker", "recipePicker", "timeTravel", "title", "editPicker", "boardSearch",
      "historyInput", "labelPicker", "flowDetail", "views", "filterInput">>

Layers ==
    <<"agentPrompt", "cassModal", "updateModal", "healthDetail", "drilldown", "labelGraph",
      "attention", "alerts", "repoPicker", "recipePicker", "quitConfirm", "helpKey",
      "tutorialKey", "help", "tutorial", "timeTravel", "title", "editPicker", "boardSearch",
      "historyInput", "labelPicker", "flowDetail", "views", "filterInput">>

Takes(layer, k) ==
    CASE layer = "agentPrompt"  -> On("showAgentPrompt")
      [] layer = "cassModal"    -> On("showCassModal")
      [] layer = "updateModal"  -> On("showUpdateModal")
      [] layer = "healthDetail" -> On("showLabelHealthDetail") /\ k \in {"esc", "q", "enter", "h", "d"}
      [] layer = "drilldown"    -> On("showLabelDrilldown") /\ k \in {"enter", "g", "esc", "q", "d"}
      [] layer = "labelGraph"   -> On("showLabelGraphAnalysis") /\ k \in {"esc", "q", "g"}
      [] layer = "attention"    -> focused = "attention"
                                   /\ k \in {"]", "esc", "q", "1", "g", "enter"}
      [] layer = "alerts"       -> On("showAlertsPanel")
      [] layer = "repoPicker"   -> On("showRepoPicker")
      [] layer = "recipePicker" -> On("showRecipePicker")
      [] layer = "quitConfirm"  -> On("showQuitConfirm")
      [] layer = "helpKey"      -> k = "?" /\ ~On("filtering")
      [] layer = "tutorialKey"  -> k = "backtick" /\ ~On("filtering")
      [] layer = "help"         -> focused = "help"
      [] layer = "tutorial"     -> focused = "tutorial" /\ On("showTutorial")
      [] layer = "timeTravel"   -> focused = "timeTravelInput"
      [] layer = "title"        -> On("titleEdit")
      [] layer = "editPicker"   -> On("showEditPicker")
      [] layer = "boardSearch"  -> focused = "board" /\ On("boardSearch")
      [] layer = "historyInput" -> focused = "history" /\ On("historyReportIsCurrent")
                                   /\ (On("historySearch") \/ On("fileTreeFocus"))
      [] layer = "labelPicker"  -> focused = "labelPicker" /\ On("showLabelPicker")
      [] layer = "flowDetail"   -> focused = "flowMatrix" /\ On("flowDetail")
      [] layer = "views"        -> ~On("filtering")
      [] layer = "filterInput"  -> focused = "list"

Receiver(k) ==
    LET i == SelectInSeq(Layers, LAMBDA layer : Takes(layer, k))
    IN  IF i = 0 THEN "nobody" ELSE Layers[i]

(* What renderMainView draws: the first of these that is on or in focus.   *)
Drawn ==
    <<"showQuitConfirm", "showAgentPrompt", "showCassModal", "showEditPicker", "showUpdateModal",
      "showLabelHealthDetail", "showLabelGraphAnalysis", "showLabelDrilldown", "showAlertsPanel",
      "showTimeTravelPrompt", "showRecipePicker", "showRepoPicker", "showLabelPicker", "showHelp",
      "showTutorial", "attention", "insights", "flowMatrix", "tree", "isGraphView", "isBoardView",
      "isActionableView", "isHistoryView", "isSprintView", "isSplitView", "labelDashboard",
      "showDetails">>

OnScreen ==
    LET i == SelectInSeq(Drawn, LAMBDA d : d \in on \cup {focused})
    IN  IF i = 0 THEN "list" ELSE Drawn[i]

-----------------------------------------------------------------------------
(* What the keys do.  Becomes is all a handler says: the focus, what is    *)
(* opened or set, and what is closed or cleared.                           *)
Becomes(focus, set, cleared) == focused' = focus /\ on' = (on \ cleared) \cup set

Nothing == UNCHANGED <<focused, on>>

\* A key that acts on the selection, which may be empty.
IfSelected(effect) == effect \/ Nothing

\* Enter on an issue of a view: the list, with the detail panel.
OpenIssue(page) ==
    Becomes("detail", IF On("isSplitView") THEN {} ELSE {"showDetails"}, page)

Filter == {"currentFilter"}
Filters == {"currentFilter", "filterApplied", "filtering"}

\* What is on with a recipe, or without: a graph it opened goes with the last one.
setActiveRecipe(showGraph) ==
    LET left == on \ IF On("recipeGraphOwned") THEN {"isGraphView", "recipeGraphOwned"} ELSE {}
    IN  IF showGraph THEN (left \ Pages) \cup {"isGraphView", "recipeGraphOwned"} ELSE left

\* The focus leaves a graph that is closed.
Without(after) ==
    focused' = IF focused = "graph" /\ On("isGraphView") /\ "isGraphView" \notin after
               THEN "list" ELSE focused

clearAllFilters ==
    LET left == setActiveRecipe(FALSE) IN Without(left) /\ on' = left \ Filters

applyTriage ==
    LET left == setActiveRecipe(FALSE) IN Without(left) /\ on' = left \cup Filter

AgentPromptKey(k) ==
    IF k \in {"enter", " ", "y", "n", "d", "esc", "q"}
    THEN Becomes("list", {}, {"showAgentPrompt"})
    ELSE Nothing

CassModalKey(k) ==
    IF k \in {"esc", "enter", "q"}
    THEN Becomes(back.cass, {}, {"showCassModal"})
    ELSE Nothing

\* Fault: esc and q are not for the window of an update that has ended.
UpdateModalKeyWhileAsking(k) ==
    LET close == Becomes("list", {}, {"showUpdateModal", "updateDone"})
        start == Becomes(focused, {"updateRunning"}, {})
        confirming == ~On("updateRunning") /\ ~On("updateDone")
    IN  CASE k \in {"esc", "q", "n"} /\ confirming -> close
          [] k = "enter" /\ ~On("updateRunning") -> close \/ (confirming /\ start)
          [] k = "y" /\ confirming -> start
          [] OTHER -> Nothing

UpdateModalKey(k) ==
    LET close == Becomes("list", {}, {"showUpdateModal", "updateDone"})
        start == Becomes(focused, {"updateRunning"}, {})
        confirming == ~On("updateRunning") /\ ~On("updateDone")
    IN  CASE k \in {"esc", "q"} /\ ~On("updateRunning") -> close
          [] k = "enter" /\ On("updateDone") -> close
          [] k = "enter" /\ confirming -> start \/ close
          [] k = "n" /\ confirming -> close
          [] k = "y" /\ confirming -> start
          [] OTHER -> Nothing

HealthDetailKey(k) ==
    Becomes(focused, IF k = "d" THEN {"showLabelDrilldown"} ELSE {}, {"showLabelHealthDetail"})

DrilldownKey(k) ==
    CASE k = "enter" -> Becomes("list", Filter, {"showLabelDrilldown"})
      [] k = "g"     -> Becomes(focused, {"showLabelGraphAnalysis"}, {})
      [] OTHER       -> Becomes(focused, {}, {"showLabelDrilldown"})

AttentionKey(k) ==
    CASE k \in {"]", "esc", "q"} -> Becomes("list", {}, {})
      [] k = "1"     -> IfSelected(Becomes(focused, Filter, {}))
      [] k = "enter" -> IfSelected(Becomes(focused, {"showLabelDrilldown"}, {}))
      [] OTHER       -> Nothing

AlertsKey(k) ==
    CASE k \in {"esc", "q", "!", "enter"} -> Becomes(focused, {}, {"showAlertsPanel"})
      [] k = "d" -> IfSelected(Becomes(focused, {}, {"showAlertsPanel"}))
      [] OTHER   -> Nothing

RepoPickerKey(k) ==
    CASE k = "ctrl+c" -> Becomes(focused, {"quit"}, {})
      [] k \in {"esc", "q", "enter"} -> Becomes("list", {}, {"showRepoPicker"})
      [] OTHER -> Nothing

RecipePickerKey(k) ==
    LET close(after) ==
            /\ on' = after \ {"showRecipePicker"}
            /\ focused' = IF k = "enter" /\ "isGraphView" \in after THEN "graph" ELSE "list"
    IN  CASE k = "ctrl+c" -> Becomes(focused, {"quit"}, {})
          [] k = "esc"    -> close(on)
          [] k = "enter"  -> \/ close(on)
                             \/ \E showGraph \in BOOLEAN : close(setActiveRecipe(showGraph) \cup Filter)
          [] OTHER -> Nothing

QuitConfirmKey(k) ==
    IF k \in {"esc", "y"}
    THEN Becomes(focused, {"quit"}, {})
    ELSE Becomes("list", {}, {"showQuitConfirm"})

HelpToggle ==
    IF On("showHelp")
    THEN Becomes(back.help, {}, {"showHelp"})
    ELSE Becomes("help", {"showHelp"}, {})

TutorialToggle ==
    IF On("showTutorial")
    THEN Becomes("list", {}, {"showTutorial"})
    ELSE Becomes("tutorial", {"showTutorial"}, {"showHelp"})

HelpKey(k) ==
    CASE k = "g" -> Nothing
      [] k = " " -> Becomes("tutorial", {"showTutorial"}, {"showHelp"})
      [] OTHER   -> Becomes(back.help, {}, {"showHelp"})

TutorialKey(k) ==
    IF k \in {"esc", "q"} THEN Becomes("list", {}, {"showTutorial"}) ELSE Nothing

TimeTravelKey(k) ==
    CASE k = "ctrl+c" -> Becomes(focused, {"quit"}, {})
      [] k \in {"enter", "esc"} -> Becomes("list", {}, {"showTimeTravelPrompt"})
      [] OTHER -> Nothing

\* Keys of the title editor, of the picker of an edit and of the search of the board.
InputKey(k, flag) ==
    CASE k = "ctrl+c" -> Becomes(focused, {"quit"}, {})
      [] k \in {"enter", "esc"} -> Becomes(focused, {}, {flag})
      [] OTHER -> Nothing

LabelPickerKey(k) ==
    CASE k = "ctrl+c" -> Becomes(focused, {"quit"}, {})
      [] k = "esc"    -> Becomes("list", {}, {"showLabelPicker"})
      [] k = "enter"  -> Becomes("list", {}, {"showLabelPicker"}) \/ Becomes("list", Filter, {"showLabelPicker"})
      [] OTHER -> Nothing

FlowDetailKey(k) ==
    CASE k = "ctrl+c" -> Becomes(focused, {"quit"}, {})
      [] k \in {"esc", "q", "f"} -> Becomes(focused, {}, {"flowDetail"})
      [] OTHER -> Nothing

\* The list's own handling while the filter is typed.
FilterInputKey(k) ==
    LET unfiltered == Becomes(focused, {}, {"filtering"})
    IN  CASE k = "esc" -> unfiltered
          [] k \in {"enter", "tab"} ->
                 Nothing \/ unfiltered \/ Becomes(focused, {"filterApplied"}, {"filtering"})
          [] OTHER -> Nothing

-----------------------------------------------------------------------------
(* Keys in the history, and in its file tree, which takes some first.      *)
handleHistoryKeys(k) ==
    CASE k = "/"     -> Becomes(focused, {"historySearch"}, {})
      [] k = "tab"   -> IfSelected(Becomes(focused, {"fileTreeFocus"}, {}))
      [] k = "enter" -> IfSelected(OpenIssue({"isHistoryView"}))
      [] k = "g"     -> IfSelected(Becomes("graph", {}, {"isHistoryView"}))
      [] k \in {"h", "esc"} -> Becomes("list", {}, {"isHistoryView"})
      [] OTHER -> Nothing

FileTreeKey(k) ==
    CASE k \in {"enter", "l"} ->
             Nothing \/ Becomes(focused, {"fileFilter"}, {}) \/ Becomes(focused, {}, {"fileFilter"})
      [] k = "esc" -> Becomes(focused, {}, IF On("fileFilter") THEN {"fileFilter"} ELSE {"fileTreeFocus"})
      [] k = "tab" -> Becomes(focused, {}, {"fileTreeFocus"})
      [] k = "h"   -> Nothing
      [] OTHER     -> handleHistoryKeys(k)

HistoryInputKey(k) ==
    IF k = "ctrl+c" THEN Becomes(focused, {"quit"}, {})
    ELSE IF ~On("historySearch") THEN FileTreeKey(k)
    ELSE IF k \in {"esc", "enter"} THEN Becomes(focused, {}, {"historySearch"})
    ELSE Nothing

-----------------------------------------------------------------------------
(* Keys of the views that are not a text input: first q and esc, then the  *)
(* edits, then the view in focus, and what it does not claim changes view. *)
QuitOrClose(k) ==
    IF On("showDetails") /\ ~On("isSplitView") THEN Becomes("list", {}, {"showDetails"})
    ELSE IF focused = "flowMatrix" /\ On("flowDrilldown") THEN Becomes(focused, {}, {"flowDrilldown"})
    ELSE IF focused \in {"insights", "flowMatrix"} THEN Becomes("list", {}, {})
    ELSE IF on \cap Pages # {} THEN Becomes("list", {}, Pages)
    ELSE IF On("showLabelPicker") THEN Becomes("list", {}, {"showLabelPicker"})
    ELSE IF focused = "labelDashboard" \/ (focused = "tree" /\ k = "q") THEN Becomes("list", {}, {})
    ELSE IF focused = "sprint" THEN Becomes("list", {}, {"isSprintView"})
    ELSE IF k = "q" THEN Becomes(focused, {"quit"}, {})
    ELSE IF on \cap Filters # {} THEN clearAllFilters
    ELSE Becomes("quitConfirm", {"showQuitConfirm"}, {})

Tab ==
    IF On("isSplitView") /\ ~On("isBoardView") /\ focused \in {"list", "detail"}
    THEN Becomes(IF focused = "list" THEN "detail" ELSE "list", {}, {})
    ELSE Nothing

\* tryEditKeyHandler: the keys of edits, where they are on.
Edits(k) ==
    /\ k \in {"ctrl+p", "ctrl+t"} /\ Open = {} /\ ~On("titleEdit")
    /\ focused \in {"list", "board", "detail"}

EditKey(k) ==
    IfSelected(Becomes(focused, IF k = "ctrl+p" THEN {"showEditPicker"} ELSE {"titleEdit"}, {}))

\* What the view in focus keeps for itself.
Claims(k) ==
    CASE focused = "insights" -> k \in {"h", "l", "tab", "enter"}
      [] focused = "board" -> k \in {"g", "h", "l", "1", "/", "n", "y", "o", "d", "tab", "enter"}
      [] focused = "graph" -> k \in {"h", "l", " ", "enter"}
      [] focused = "tree" -> k \in {"g", "h", "l", "o", "E", "enter", " ", "tab"}
      [] focused = "actionable" -> k = "enter"
      [] focused = "history" ->
             IF On("historyReportIsCurrent")
             THEN k \in {"h", "f", "g", "t", "tab", "enter", "y", "o", "/"}
             ELSE k # "h"
      [] focused = "sprint" -> k = "P"
      [] focused = "flowMatrix" -> k \in {"f", "g", "tab", "enter"}
      [] focused \in {"labelDashboard", "detail"} -> TRUE
      [] OTHER -> FALSE

BoardKey(k) ==
    CASE k = "/" -> Becomes(focused, {"boardSearch"}, {})
      [] k = "o" -> Becomes(focused, Filter, {})
      [] k = "enter" -> IfSelected(OpenIssue({"isBoardView"}))
      [] OTHER -> Nothing

LabelDashboardKey(k) ==
    CASE k = "enter" -> IfSelected(Becomes("list", Filter, {}))
      [] k = "h" -> IfSelected(Becomes(focused, {"showLabelHealthDetail"}, {}))
      [] k = "d" -> IfSelected(Becomes(focused, {"showLabelDrilldown"}, {}))
      [] OTHER -> Nothing

TreeKey(k) ==
    CASE k = "E" -> Becomes("list", {}, {})
      [] k = "tab" -> IfSelected(OpenIssue({}))
      [] OTHER -> Nothing

FlowMatrixKey(k) ==
    CASE k = "f" -> IF On("flowDrilldown")
                    THEN Becomes(focused, {}, {"flowDrilldown"})
                    ELSE Becomes("list", {}, {})
      [] k = "enter" -> IfSelected(Becomes(focused, IF On("flowDrilldown") THEN {"flowDetail"}
                                                     ELSE {"flowDrilldown"}, {}))
      [] OTHER -> Nothing

ViewKey(k) ==
    CASE focused = "board" -> BoardKey(k)
      [] focused = "labelDashboard" -> LabelDashboardKey(k)
      [] focused = "tree" -> TreeKey(k)
      [] focused = "flowMatrix" -> FlowMatrixKey(k)
      [] focused = "insights" /\ k = "enter" -> IfSelected(OpenIssue({}))
      [] focused = "graph" /\ k = "enter" -> IfSelected(OpenIssue({"isGraphView"}))
      [] focused = "actionable" -> IfSelected(OpenIssue({"isActionableView"}))
      [] focused = "sprint" -> Becomes("list", {}, {"isSprintView"})
      [] focused = "history" /\ On("historyReportIsCurrent") -> handleHistoryKeys(k)
      [] OTHER -> Nothing

-----------------------------------------------------------------------------
(* Keys that change view from any view, and those of the list, which other *)
(* views leave to it.                                                      *)
Toggles == {"b", "g", "a", "i", "E", "f", "P", "h", "t", "l"}

\* Some of them end the ownership of the graph by the recipe that opened it.
Toggle(k, focus, set, cleared) ==
    Becomes(focus, set, IF k \in Toggles THEN cleared \cup {"recipeGraphOwned"} ELSE cleared)

TogglePage(k, page, focus) ==
    IF On(page) THEN Toggle(k, "list", {}, Pages) ELSE Toggle(k, focus, {page}, Pages)

openSprintView ==
    Toggle("P", "sprint", {"isSprintView"},
           Pages \cup IF On("isSplitView") THEN {} ELSE {"showDetails"})

ToggleKey(k) ==
    CASE k = "b" -> TogglePage(k, "isBoardView", "board")
      [] k = "g" -> TogglePage(k, "isGraphView", "graph")
      [] k = "a" -> TogglePage(k, "isActionableView", "actionable")
      [] k = "h" -> \/ TogglePage(k, "isHistoryView", "history")
                    \* A load that failed is tried again.
                    \/ On("isHistoryView") /\ Toggle(k, "history", {}, {})
      [] k = "E" -> Toggle(k, "tree", {}, Pages)
      [] k = "i" -> IF focused = "insights"
                    THEN Toggle(k, "list", {}, {})
                    ELSE Toggle(k, "insights", {}, Pages)
      [] k = "[" -> Toggle(k, "labelDashboard", {}, Pages)
      [] k = "]" -> Toggle(k, "attention", {}, Pages)
      [] k = "f" -> Toggle(k, "flowMatrix", {}, Pages \cup {"flowDrilldown", "flowDetail"})
      [] k = "P" -> Toggle(k, focused, {}, {}) \/ (focused = "list" /\ openSprintView)
      [] k = "!" -> IfSelected(Toggle(k, focused, {"showAlertsPanel"}, {}))
      [] k = "quote" -> Toggle(k, "recipePicker", {"showRecipePicker"}, {})
      [] k = "w" -> IfSelected(Toggle(k, "repoPicker", {"showRepoPicker"}, {}))
      [] k = "l" -> Toggle(k, focused, {}, {}) \/ Toggle(k, "labelPicker", {"showLabelPicker"}, {})
      \* handleListKeys and the list itself
      [] k = "enter" -> IF On("isSplitView") THEN Nothing
                        ELSE IfSelected(Toggle(k, "detail", {"showDetails"}, {}))
      [] k = "o" -> Toggle(k, focused, Filter, {})
      [] k = "t" -> \/ Toggle(k, focused, {}, {})
                    \/ Toggle(k, "timeTravelInput", {"showTimeTravelPrompt"}, {})
      [] k = "S" -> applyTriage
      [] k = "U" -> IfSelected(Toggle(k, "updateModal", {"showUpdateModal"}, {}))
      [] k = "/" -> IF focused = "list"
                    THEN IfSelected(Toggle(k, focused, {"filtering"}, {"filterApplied"}))
                    ELSE Nothing
      [] OTHER -> Nothing

ViewsKey(k) ==
    IF k = "ctrl+c" THEN Becomes(focused, {"quit"}, {})
    ELSE IF k \in {"q", "esc"} THEN QuitOrClose(k)
    ELSE IF k = "tab" /\ focused \in {"list", "detail"} THEN Tab
    ELSE IF Edits(k) THEN EditKey(k)
    ELSE IF Claims(k) THEN ViewKey(k)
    ELSE ToggleKey(k)

-----------------------------------------------------------------------------
Handle(layer, k) ==
    CASE layer = "agentPrompt"  -> AgentPromptKey(k)
      [] layer = "cassModal"    -> CassModalKey(k)
      [] layer = "updateModal"  -> UpdateModalKey(k)
      [] layer = "healthDetail" -> HealthDetailKey(k)
      [] layer = "drilldown"    -> DrilldownKey(k)
      [] layer = "labelGraph"   -> Becomes(focused, {}, {"showLabelGraphAnalysis"})
      [] layer = "attention"    -> AttentionKey(k)
      [] layer = "alerts"       -> AlertsKey(k)
      [] layer = "repoPicker"   -> RepoPickerKey(k)
      [] layer = "recipePicker" -> RecipePickerKey(k)
      [] layer = "quitConfirm"  -> QuitConfirmKey(k)
      [] layer = "helpKey"      -> HelpToggle
      [] layer = "tutorialKey"  -> TutorialToggle
      [] layer = "help"         -> HelpKey(k)
      [] layer = "tutorial"     -> TutorialKey(k)
      [] layer = "timeTravel"   -> TimeTravelKey(k)
      [] layer = "title"        -> InputKey(k, "titleEdit")
      [] layer = "editPicker"   -> InputKey(k, "showEditPicker")
      [] layer = "boardSearch"  -> InputKey(k, "boardSearch")
      [] layer = "historyInput" -> HistoryInputKey(k)
      [] layer = "labelPicker"  -> LabelPickerKey(k)
      [] layer = "flowDetail"   -> FlowDetailKey(k)
      [] layer = "views"        -> ViewsKey(k)
      [] layer = "filterInput"  -> FilterInputKey(k)
      [] layer = "nobody"       -> Nothing

\* focusBeforeHelp and cassReturnFocus.
Remember(layer) ==
    back' = [help |-> IF "showHelp" \notin on' THEN "none"
                      ELSE IF layer = "helpKey" THEN focused ELSE back.help,
             cass |-> IF "showCassModal" \notin on' THEN "none"
                      ELSE IF layer = "message" THEN focused ELSE back.cass]

\* g in the board and the tree waits for a second g; what they claim ends the wait.
Combo(layer, k) ==
    pendingCombo' =
        IF layer # "views" \/ focused \notin {"board", "tree"} \/ ~Claims(k) THEN pendingCombo
        ELSE IF k = "g" /\ pendingCombo # focused THEN focused
        ELSE "none"

KeyMsg(k) ==
    LET layer == Receiver(k)
    IN  /\ Handle(layer, k) /\ Remember(layer) /\ Combo(layer, k)
        /\ escs' = IF k # "esc" THEN 0 ELSE IF escs < MaxEscs THEN escs + 1 ELSE escs

-----------------------------------------------------------------------------
(* What is not a key: a click on the list or on the detail panel, the size *)
(* of the terminal, and messages of commands that ran meanwhile.           *)
handleLeftClick ==
    /\ Open \subseteq {"showEditPicker"} /\ on \cap (Pages \cup {"isSprintView"}) = {}
    /\ focused \notin {"insights", "flowMatrix", "tree", "labelDashboard"}
    /\ IF On("isSplitView") THEN focused' \in {"list", "detail"}
       ELSE ~On("showDetails") /\ focused' = "list"
    /\ escs' = 0 /\ UNCHANGED <<on, back, pendingCombo>>

WindowSizeMsg ==
    /\ escs' = 0
    /\ IF On("isSplitView") THEN on' = on \ {"isSplitView"} ELSE on' = on \cup {"isSplitView"}
    /\ UNCHANGED <<focused, back, pendingCombo>>

\* Bound: while esc is not being pressed (escs = 0), but more than once.
AgentFileCheckMsg ==
    /\ escs = 0 /\ Becomes("agentPrompt", {"showAgentPrompt"}, {})
    /\ UNCHANGED <<back, pendingCombo, escs>>

UpdateCompleteMsg ==
    /\ On("updateRunning")
    /\ Becomes(focused, {"updateDone"}, {"updateRunning"})
    /\ escs' = 0 /\ UNCHANGED <<back, pendingCombo>>

cassLookupIsCurrent ==
    /\ focused \in {"list", "detail", "board", "tree", "history"}
    /\ Open \subseteq {"showEditPicker", "showCassModal"}
    /\ focused = "list" => ~On("filtering")
    /\ focused = "board" => ~On("boardSearch")
    /\ focused = "history" => ~On("historySearch") /\ ~On("fileTreeFocus")

\* The lookup and what cancels it are in SessionLookup.  Bound: escs = 0, as above.
cassSessionsLoadedMsg ==
    /\ escs = 0 /\ ~On("showCassModal") /\ cassLookupIsCurrent
    /\ Becomes("cassModal", {"showCassModal"}, {})
    /\ Remember("message") /\ UNCHANGED <<pendingCombo, escs>>

comboTickMsg ==
    /\ pendingCombo # "none" /\ pendingCombo' = "none"
    /\ IF focused = pendingCombo /\ ~On("isGraphView")
       THEN Becomes("graph", {"isGraphView"}, Pages)
       ELSE Nothing
    /\ UNCHANGED <<back, escs>>

SnapshotReadyMsg ==
    /\ \E gone \in SUBSET {"flowDetail"} :
           Becomes(focused, {}, {"showAlertsPanel", "historyReportIsCurrent"} \cup gone)
    /\ UNCHANGED <<back, pendingCombo, escs>>

HistoryLoadedMsg ==
    /\ ~On("historyReportIsCurrent")
    /\ Becomes(focused, {"historyReportIsCurrent"}, {})
    /\ UNCHANGED <<back, pendingCombo, escs>>

RoutingStep ==
    \/ \E k \in Key : KeyMsg(k)
    \/ handleLeftClick \/ WindowSizeMsg
    \/ AgentFileCheckMsg \/ UpdateCompleteMsg \/ cassSessionsLoadedMsg
    \/ comboTickMsg \/ SnapshotReadyMsg \/ HistoryLoadedMsg

RoutingNext ==
    /\ ~On("quit") /\ RoutingStep
    /\ on' \subseteq on \/ Cardinality(on' \ {"showQuitConfirm", "isSplitView"}) <= MaxOn

RoutingSpec == RoutingInit /\ [][RoutingNext]_routingVars

-----------------------------------------------------------------------------
RoutingTypeOK ==
    /\ focused \in Focus
    /\ on \subseteq Pages \cup Overlays \cup Modes \cup Others
    /\ back \in [{"help", "cass"} -> Focus \cup {"none"}]
    /\ pendingCombo \in {"none", "board", "tree"} /\ escs \in 0 .. MaxEscs

(* The overlays that get keys for their boolean, whatever has the focus,   *)
(* with the layer of each.  The others are in line behind the keys of the  *)
(* help and the tutorial, which take the keyboard from them.               *)
LayerOf ==
    [showQuitConfirm |-> "quitConfirm", showAgentPrompt |-> "agentPrompt", showCassModal |-> "cassModal",
     showUpdateModal |-> "updateModal", showLabelHealthDetail |-> "healthDetail",
     showLabelGraphAnalysis |-> "labelGraph", showLabelDrilldown |-> "drilldown",
     showAlertsPanel |-> "alerts", showRecipePicker |-> "recipePicker", showRepoPicker |-> "repoPicker"]

(* The window the user sees is the one that esc closes, although Update    *)
(* asks them in one order and renderMainView draws them in another.  Three *)
(* times it is not: the graph of a label is over its drilldown, the        *)
(* attention view keeps its keys under the alerts, and the prompt about    *)
(* AGENTS.md may come while the question whether to quit is shown.         *)
DrawnOverlayGetsEsc ==
    OnScreen \in DOMAIN LayerOf =>
        \/ Receiver("esc") = LayerOf[OnScreen]
        \/ OnScreen = "showLabelGraphAnalysis" /\ On("showLabelDrilldown")
        \/ OnScreen = "showAlertsPanel" /\ focused = "attention"
        \/ OnScreen = "showQuitConfirm" /\ On("showAgentPrompt")

(* Every key and message leaves a focus and flags the code knows, and the  *)
(* window on the screen is the one the keys go to (Update, renderMainView).*)
KeysAreRouted == RoutingTypeOK /\ DrawnOverlayGetsEsc

(* keybindings.go line 232 says that esc goes back, everywhere: whatever   *)
(* views, windows and inputs are open, and whatever messages come in       *)
(* between, esc leads out of bv in one press for each of them and three    *)
(* for the view in focus and for the question whether to quit.  Only the   *)
(* window of an update that is running holds it back.                      *)
EscAlwaysLeadsOut == escs = MaxEscs => On("quit") \/ On("updateRunning")

\* A click on the detail panel took the focus from the list whose filter was being typed.
Deaf == On("filtering") /\ focused # "list" /\ Receiver("esc") = "nobody"

(* It does, except when no key reaches anything (handleLeftClick).         *)
EscLeadsOut == Deaf \/ EscAlwaysLeadsOut

=============================================================================
