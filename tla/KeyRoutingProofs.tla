--------------------------- MODULE KeyRoutingProofs ---------------------------
(***************************************************************************)
(* Every key finds a focus and flags that Update and renderMainView know,  *)
(* and the window that is drawn gets esc, with any number of windows open  *)
(* at once.  The order of the layers alone does not say so: renderMainView *)
(* draws the question whether to quit first, and Update asks it after ten  *)
(* other layers.  It is the invariant Exclusive that makes the two orders  *)
(* agree.                                                                  *)
(*                                                                         *)
(* Esc leads out of all of it.  Each press that nobody holds back closes   *)
(* something, leaves a view for the list, asks whether to quit, or quits:  *)
(* a rank of what is open falls with each, and no message raises it while  *)
(* the presses are counted.                                                *)
(***************************************************************************)
EXTENDS KeyRouting, FiniteSetTheorems, WellFoundedInduction, TLAPS

-----------------------------------------------------------------------------
(* The first that takes a key, or is drawn *)

\* The least of a set of naturals is one of them.
LEMMA LeastIsIn ==
    ASSUME NEW I \in SUBSET Nat, I # {}
    PROVE  Min(I) \in I /\ \A i \in I : Min(I) <= i
<1> DEFINE R == {p \in Nat \X Nat : p[1] < p[2]}
<1>1. IsWellFoundedOn(R, Nat)
  BY NatLessThanWellFounded DEF OpToRel
<1>2. \A x, y \in Nat : x < y => <<x, y>> \in R
  OBVIOUS
<1> HIDE DEF R
<1>3. PICK x \in I : \A y \in I : ~(<<y, x>> \in R)
  BY <1>1, WFMin
<1>4. \A y \in I : x <= y
  <2> SUFFICES ASSUME NEW y \in I PROVE x <= y
    OBVIOUS
  <2>1. x \in Nat /\ y \in Nat /\ ~(y < x)
    BY <1>2, <1>3
  <2> QED
    BY <2>1
<1> QED
  BY <1>4 DEF Min

\* The layers by name.
LEMMA LayerNames ==
    /\ Len(Layers) = 24
    /\ Layers[1] = "agentPrompt" /\ Layers[2] = "cassModal" /\ Layers[3] = "updateModal"
    /\ Layers[4] = "healthDetail" /\ Layers[5] = "drilldown" /\ Layers[6] = "labelGraph"
    /\ Layers[7] = "attention" /\ Layers[8] = "alerts" /\ Layers[9] = "repoPicker"
    /\ Layers[10] = "recipePicker" /\ Layers[11] = "quitConfirm" /\ Layers[12] = "helpKey"
    /\ Layers[13] = "tutorialKey" /\ Layers[14] = "help" /\ Layers[15] = "tutorial"
    /\ Layers[16] = "timeTravel" /\ Layers[17] = "title" /\ Layers[18] = "editPicker"
    /\ Layers[19] = "boardSearch" /\ Layers[20] = "historyInput" /\ Layers[21] = "labelPicker"
    /\ Layers[22] = "flowDetail" /\ Layers[23] = "views" /\ Layers[24] = "filterInput"
BY DEF Layers

\* A key goes to the first layer that takes it.
LEMMA FirstTaker ==
    ASSUME NEW k
    PROVE  \/ Receiver(k) = "nobody" /\ \A i \in 1 .. 24 : ~Takes(Layers[i], k)
           \/ \E i \in 1 .. 24 : /\ Receiver(k) = Layers[i] /\ Takes(Layers[i], k)
                                 /\ \A j \in 1 .. 24 : j < i => ~Takes(Layers[j], k)
<1> DEFINE I == {i \in 1 .. Len(Layers) : Takes(Layers[i], k)}
           i == SelectInSeq(Layers, LAMBDA layer : Takes(layer, k))
<1>1. I \in SUBSET Nat /\ 1 .. Len(Layers) = 1 .. 24
  BY LayerNames
<1>2. i = IF I # {} THEN Min(I) ELSE 0
  BY DEF SelectInSeq
<1>3. Receiver(k) = IF i = 0 THEN "nobody" ELSE Layers[i]
  BY DEF Receiver
<1> HIDE DEF i
<1>4. CASE I = {}
  BY <1>1, <1>2, <1>3, <1>4
<1>5. CASE I # {}
  <2>1. i \in I /\ \A j \in I : i <= j
    BY <1>1, <1>2, <1>5, LeastIsIn
  <2>2. i \in 1 .. 24 /\ i # 0 /\ Takes(Layers[i], k)
    BY <1>1, <2>1, LayerNames
  <2>3. \A j \in 1 .. 24 : j < i => ~Takes(Layers[j], k)
    BY <1>1, <2>1, <2>2
  <2> QED
    BY <1>3, <2>2, <2>3
<1> QED
  BY <1>4, <1>5

\* The layers are told apart by their names, and a key comes to the one that
\* Receiver names past all before it.
LEMMA Reached ==
    ASSUME NEW k, NEW i \in 1 .. 24, Receiver(k) = Layers[i]
    PROVE  Takes(Layers[i], k) /\ \A j \in 1 .. 24 : j < i => ~Takes(Layers[j], k)
<1>1. \A a, b \in 1 .. 24 : Layers[a] = Layers[b] => a = b
  BY LayerNames
<1>2. \A a \in 1 .. 24 : Layers[a] # "nobody"
  BY LayerNames
<1> QED
  BY <1>1, <1>2, FirstTaker

\* The first layer that takes a key is its receiver.
LEMMA Receives ==
    ASSUME NEW k, NEW i \in 1 .. 24, Takes(Layers[i], k),
           \A j \in 1 .. 24 : j < i => ~Takes(Layers[j], k)
    PROVE  Receiver(k) = Layers[i]
<1>1. PICK a \in 1 .. 24 : /\ Receiver(k) = Layers[a] /\ Takes(Layers[a], k)
                           /\ \A j \in 1 .. 24 : j < a => ~Takes(Layers[j], k)
  BY FirstTaker
<1>2. a = i
  BY <1>1
<1> QED
  BY <1>1, <1>2

\* The windows that take every key while they are on.
Windows == {"showAgentPrompt", "showCassModal", "showUpdateModal", "showAlertsPanel",
            "showRepoPicker", "showRecipePicker", "showQuitConfirm"}

\* The layers below the windows.
Below == {"helpKey", "tutorialKey", "help", "tutorial", "timeTravel", "title", "editPicker",
          "boardSearch", "historyInput", "labelPicker", "flowDetail", "views", "filterInput"}

\* What a key that reaches a layer has passed.
LEMMA Passed ==
    ASSUME NEW k
    PROVE  /\ Receiver(k) \in {"nobody", "agentPrompt", "cassModal", "updateModal", "healthDetail",
                               "drilldown", "labelGraph", "attention", "alerts", "repoPicker",
                               "recipePicker", "quitConfirm"} \cup Below
           /\ Receiver(k) # "nobody" => Takes(Receiver(k), k)
           /\ Receiver(k) \in Below =>
                /\ on \cap Windows = {}
                /\ \A l \in {"healthDetail", "drilldown", "labelGraph", "attention"} : ~Takes(l, k)
                /\ Receiver(k) # "helpKey" => ~Takes("helpKey", k)
           /\ Receiver(k) = "nobody" => on \cap Windows = {}
           /\ Receiver(k) \in {"cassModal", "updateModal", "healthDetail", "drilldown", "labelGraph",
                               "attention", "alerts", "repoPicker", "recipePicker", "quitConfirm"}
                => ~On("showAgentPrompt")
<1> DEFINE first == Receiver(k)
<1>1. /\ Takes("agentPrompt", k) <=> On("showAgentPrompt")
      /\ Takes("cassModal", k) <=> On("showCassModal")
      /\ Takes("updateModal", k) <=> On("showUpdateModal")
      /\ Takes("alerts", k) <=> On("showAlertsPanel")
      /\ Takes("repoPicker", k) <=> On("showRepoPicker")
      /\ Takes("recipePicker", k) <=> On("showRecipePicker")
      /\ Takes("quitConfirm", k) <=> On("showQuitConfirm")
  BY DEF Takes
<1>2. ASSUME \A j \in 1 .. 11 : ~Takes(Layers[j], k)
      PROVE  /\ on \cap Windows = {}
             /\ \A l \in {"healthDetail", "drilldown", "labelGraph", "attention"} : ~Takes(l, k)
  <2>1. /\ ~Takes(Layers[1], k) /\ ~Takes(Layers[2], k) /\ ~Takes(Layers[3], k) /\ ~Takes(Layers[4], k)
        /\ ~Takes(Layers[5], k) /\ ~Takes(Layers[6], k) /\ ~Takes(Layers[7], k) /\ ~Takes(Layers[8], k)
        /\ ~Takes(Layers[9], k) /\ ~Takes(Layers[10], k) /\ ~Takes(Layers[11], k)
    BY <1>2
  <2>2. /\ ~Takes("agentPrompt", k) /\ ~Takes("cassModal", k) /\ ~Takes("updateModal", k)
        /\ ~Takes("healthDetail", k) /\ ~Takes("drilldown", k) /\ ~Takes("labelGraph", k)
        /\ ~Takes("attention", k) /\ ~Takes("alerts", k) /\ ~Takes("repoPicker", k)
        /\ ~Takes("recipePicker", k) /\ ~Takes("quitConfirm", k)
    BY <2>1, LayerNames
  <2> QED
    BY <1>1, <2>2 DEF Windows, On
<1>3. CASE first = "nobody" /\ \A i \in 1 .. 24 : ~Takes(Layers[i], k)
  BY <1>2, <1>3 DEF Below
<1>4. CASE \E i \in 1 .. 24 : /\ first = Layers[i] /\ Takes(Layers[i], k)
                              /\ \A j \in 1 .. 24 : j < i => ~Takes(Layers[j], k)
  <2>1. PICK i \in 1 .. 24 : /\ first = Layers[i] /\ Takes(Layers[i], k)
                             /\ \A j \in 1 .. 24 : j < i => ~Takes(Layers[j], k)
    BY <1>4
  <2>2. first # "nobody" /\ Takes(first, k)
    BY <2>1, LayerNames
  <2>3. first \in {"agentPrompt", "cassModal", "updateModal", "healthDetail",
                  "drilldown", "labelGraph", "attention", "alerts", "repoPicker",
                  "recipePicker", "quitConfirm"} \cup Below
    BY <2>1, LayerNames DEF Below
  <2>4. first \in Below => i > 11
    BY <2>1, LayerNames DEF Below
  <2>5. first \in Below /\ first # "helpKey" => i > 12
    BY <2>1, LayerNames DEF Below
  <2>6. first # "agentPrompt" => i > 1
    BY <2>1, LayerNames
  <2>7. Layers[12] = "helpKey" /\ Layers[1] = "agentPrompt"
    BY LayerNames
  <2> HIDE DEF first
  <2>8. first \in Below => /\ on \cap Windows = {}
                          /\ \A l \in {"healthDetail", "drilldown", "labelGraph", "attention"} : ~Takes(l, k)
    <3>1. i > 11 => \A j \in 1 .. 11 : ~Takes(Layers[j], k)
      BY <2>1
    <3> QED
      BY <1>2, <2>4, <3>1
  <2>9. first \in Below /\ first # "helpKey" => ~Takes("helpKey", k)
    BY <2>1, <2>5, <2>7
  <2>10. first # "agentPrompt" => ~On("showAgentPrompt")
    BY <1>1, <2>1, <2>6, <2>7
  <2> QED
    BY <2>2, <2>3, <2>8, <2>9, <2>10 DEF first
<1> QED
  BY <1>3, <1>4, FirstTaker

-----------------------------------------------------------------------------
(* What the handlers may change *)

Flags == Pages \cup Overlays \cup Modes \cup Others

\* Where a window came from is known while it is on.
Remembered ==
    /\ On("showCassModal") => back.cass \in {"list", "detail", "board", "tree", "history"}
    /\ On("showHelp") => back.help \in Focus \ {"help"}
    /\ focused = "help" => On("showHelp")

\* The question whether to quit stands alone, and the two pickers are neither
\* both on nor over the attention view.
Exclusive ==
    /\ On("showQuitConfirm") =>
         /\ on \cap {"showCassModal", "showUpdateModal", "showLabelHealthDetail", "showLabelDrilldown",
                    "showLabelGraphAnalysis", "showAlertsPanel", "showRecipePicker",
                    "showRepoPicker"} = {}
         /\ focused # "attention"
    /\ On("showRecipePicker") \/ On("showRepoPicker") => focused # "attention"
    /\ ~(On("showRecipePicker") /\ On("showRepoPicker"))

RInv == RoutingTypeOK /\ Remembered /\ Exclusive

\* The windows that only one handler opens.
Guarded == {"showQuitConfirm", "showRecipePicker", "showRepoPicker", "showHelp", "showCassModal"}

\* What every other handler does: it opens none of those and does not give the
\* focus to the help.
Plain ==
    /\ on' \subseteq Flags /\ focused' \in Focus
    /\ on' \cap Guarded \subseteq on
    /\ focused' = "help" => focused = "help" /\ ("showHelp" \in on => "showHelp" \in on')

\* What becomes of a step that sets harmless flags.
LEMMA BecomesPlain ==
    ASSUME RoutingTypeOK, NEW focus \in Focus, NEW set, NEW cleared, Becomes(focus, set, cleared),
           set \subseteq Flags, set \cap Guarded = {},
           focus = "help" => focused = "help" /\ "showHelp" \notin cleared
    PROVE  Plain
BY DEF Becomes, Plain, RoutingTypeOK, Flags

\* A handler that changes nothing is harmless.
LEMMA NothingPlain == ASSUME RoutingTypeOK, Nothing PROVE Plain
BY DEF Nothing, Plain, RoutingTypeOK, Flags

\* The names the handlers set are flags.
LEMMA FlagNames ==
    /\ {"showAgentPrompt", "showCassModal", "showEditPicker", "showUpdateModal",
        "showLabelHealthDetail", "showLabelGraphAnalysis", "showLabelDrilldown", "showAlertsPanel",
        "showTimeTravelPrompt", "showLabelPicker", "showTutorial", "titleEdit", "boardSearch",
        "historySearch", "fileTreeFocus", "fileFilter", "flowDrilldown", "flowDetail",
        "updateRunning", "updateDone", "filtering", "filterApplied", "currentFilter",
        "isSprintView", "isSplitView", "showDetails", "recipeGraphOwned", "historyReportIsCurrent",
        "quit", "isGraphView", "isBoardView", "isActionableView", "isHistoryView"} \subseteq Flags
    /\ Guarded \subseteq Flags
BY DEF Flags, Guarded, Pages, Overlays, Modes, Others

\* The windows: agent prompt, sessions, update, labels, attention, alerts.
LEMMA WindowKeysPlain ==
    ASSUME RInv, NEW k,
           \/ AgentPromptKey(k) \/ UpdateModalKey(k) \/ HealthDetailKey(k) \/ DrilldownKey(k)
           \/ Becomes(focused, {}, {"showLabelGraphAnalysis"}) \/ AttentionKey(k) \/ AlertsKey(k)
           \/ RepoPickerKey(k) \/ RecipePickerKey(k)
           \/ On("showCassModal") /\ CassModalKey(k)
    PROVE  /\ Plain
           /\ focused' = "attention" => focused = "attention"
<1> USE DEF Plain, Guarded, Becomes, Nothing, RInv, RoutingTypeOK, Focus
<1>0. on \subseteq Flags
  BY DEF Flags
<1>1. CASE AgentPromptKey(k)
  BY <1>0, <1>1 DEF AgentPromptKey
<1>2. CASE UpdateModalKey(k)
  BY <1>0, <1>2, FlagNames DEF UpdateModalKey
<1>3. CASE HealthDetailKey(k)
  BY <1>0, <1>3, FlagNames DEF HealthDetailKey
<1>4. CASE DrilldownKey(k)
  BY <1>0, <1>4, FlagNames DEF DrilldownKey, Filter
<1>5. CASE Becomes(focused, {}, {"showLabelGraphAnalysis"})
  BY <1>0, <1>5
<1>6. CASE AttentionKey(k)
  BY <1>0, <1>6, FlagNames DEF AttentionKey, Filter, IfSelected
<1>7. CASE AlertsKey(k)
  BY <1>0, <1>7 DEF AlertsKey, IfSelected
<1>8. CASE RepoPickerKey(k)
  BY <1>0, <1>8, FlagNames DEF RepoPickerKey
<1>9. CASE RecipePickerKey(k)
  BY <1>0, <1>9, FlagNames DEF RecipePickerKey, setActiveRecipe, Filter, Pages
<1>10. CASE On("showCassModal") /\ CassModalKey(k)
  BY <1>0, <1>10 DEF CassModalKey, Remembered, On
<1> QED
  BY <1>1, <1>2, <1>3, <1>4, <1>5, <1>6, <1>7, <1>8, <1>9, <1>10

\* The help, the tutorial and the text inputs.
LEMMA InputKeysPlain ==
    ASSUME RInv, NEW k,
           \/ QuitConfirmKey(k) \/ TutorialToggle \/ (focused = "help" /\ HelpKey(k)) \/ TutorialKey(k)
           \/ TimeTravelKey(k) \/ InputKey(k, "titleEdit") \/ InputKey(k, "showEditPicker")
           \/ InputKey(k, "boardSearch") \/ LabelPickerKey(k) \/ FlowDetailKey(k) \/ FilterInputKey(k)
    PROVE  Plain
<1> USE DEF Plain, Guarded, Becomes, Nothing, RInv, RoutingTypeOK, Focus
<1>0. on \subseteq Flags
  BY DEF Flags
<1>1. CASE QuitConfirmKey(k)
  BY <1>0, <1>1, FlagNames DEF QuitConfirmKey
<1>2. CASE TutorialToggle
  BY <1>0, <1>2, FlagNames DEF TutorialToggle
<1>3. CASE focused = "help" /\ HelpKey(k)
  BY <1>0, <1>3, FlagNames DEF HelpKey, Remembered, On
<1>4. CASE TutorialKey(k)
  BY <1>0, <1>4 DEF TutorialKey
<1>5. CASE TimeTravelKey(k)
  BY <1>0, <1>5, FlagNames DEF TimeTravelKey
<1>6. CASE InputKey(k, "titleEdit") \/ InputKey(k, "showEditPicker") \/ InputKey(k, "boardSearch")
  BY <1>0, <1>6, FlagNames DEF InputKey
<1>7. CASE LabelPickerKey(k)
  BY <1>0, <1>7, FlagNames DEF LabelPickerKey, Filter
<1>8. CASE FlowDetailKey(k)
  BY <1>0, <1>8, FlagNames DEF FlowDetailKey
<1>9. CASE FilterInputKey(k)
  BY <1>0, <1>9, FlagNames DEF FilterInputKey
<1> QED
  BY <1>1, <1>2, <1>3, <1>4, <1>5, <1>6, <1>7, <1>8, <1>9

\* The history and its file tree.
LEMMA HistoryKeysPlain ==
    ASSUME RInv, NEW k, handleHistoryKeys(k) \/ HistoryInputKey(k)
    PROVE  Plain
<1> USE DEF Plain, Guarded, Becomes, Nothing, RInv, RoutingTypeOK, Focus
<1>0. on \subseteq Flags
  BY DEF Flags
<1>1. ASSUME handleHistoryKeys(k) PROVE Plain
  BY <1>0, <1>1, FlagNames DEF handleHistoryKeys, IfSelected, OpenIssue
<1>2. ASSUME FileTreeKey(k) PROVE Plain
  <2> USE <1>2
  <2>1. CASE k \in {"enter", "l"}
    BY <1>0, <2>1, FlagNames DEF FileTreeKey
  <2>2. CASE k = "esc"
    BY <1>0, <2>2, FlagNames DEF FileTreeKey
  <2>3. CASE k = "tab"
    BY <1>0, <2>3, FlagNames DEF FileTreeKey
  <2>4. CASE k = "h"
    BY <1>0, <2>4 DEF FileTreeKey
  <2>5. CASE k \notin {"enter", "l", "esc", "tab", "h"}
    <3>1. handleHistoryKeys(k)
      BY <2>5 DEF FileTreeKey
    <3> QED
      BY <1>1, <3>1
  <2> QED
    BY <2>1, <2>2, <2>3, <2>4, <2>5
<1>3. ASSUME HistoryInputKey(k), ~FileTreeKey(k) PROVE Plain
  BY <1>0, <1>3, FlagNames DEF HistoryInputKey
<1> QED
  BY <1>1, <1>2, <1>3

\* Leaving the filters and applying the triage.
LEMMA FiltersPlain ==
    ASSUME RInv, clearAllFilters \/ applyTriage
    PROVE  Plain
<1> USE DEF Plain, Guarded, RInv, RoutingTypeOK, Focus
<1>0. on \subseteq Flags
  BY DEF Flags
<1>1. CASE clearAllFilters
  BY <1>0, <1>1 DEF clearAllFilters, setActiveRecipe, Without, Filters
<1>2. CASE applyTriage
  BY <1>0, <1>2, FlagNames DEF applyTriage, setActiveRecipe, Without, Filter
<1> QED
  BY <1>1, <1>2

\* q and esc in the views: only the last way out asks.
LEMMA QuitOrClosePlain ==
    ASSUME RInv, NEW k, QuitOrClose(k)
    PROVE  Plain \/ (k # "q" /\ Becomes("quitConfirm", {"showQuitConfirm"}, {}))
<1> USE DEF Plain, Guarded, Becomes, RInv, RoutingTypeOK, Focus
<1>0. on \subseteq Flags
  BY DEF Flags
<1>1. CASE clearAllFilters
  BY <1>1, FiltersPlain
<1>2. CASE ~clearAllFilters
  BY <1>0, <1>2, FlagNames DEF QuitOrClose, Pages
<1> QED
  BY <1>1, <1>2

\* The edits, and what the view in focus keeps for itself.
LEMMA ViewKeyPlain ==
    ASSUME RInv, NEW k, EditKey(k) \/ Tab \/ ViewKey(k)
    PROVE  Plain
<1> USE DEF Plain, Guarded, Becomes, Nothing, RInv, RoutingTypeOK, Focus
<1>0. on \subseteq Flags
  BY DEF Flags
<1>1. CASE EditKey(k)
  BY <1>0, <1>1, FlagNames DEF EditKey, IfSelected
<1>2. CASE Tab
  BY <1>0, <1>2, FlagNames DEF Tab
<1>3. CASE ViewKey(k)
  <2>1. CASE BoardKey(k)
    BY <1>0, <2>1, FlagNames DEF BoardKey, IfSelected, OpenIssue, Filter
  <2>2. CASE LabelDashboardKey(k)
    BY <1>0, <2>2, FlagNames DEF LabelDashboardKey, IfSelected, Filter
  <2>3. CASE TreeKey(k)
    BY <1>0, <2>3, FlagNames DEF TreeKey, IfSelected, OpenIssue
  <2>4. CASE FlowMatrixKey(k)
    BY <1>0, <2>4, FlagNames DEF FlowMatrixKey, IfSelected
  <2>5. CASE IfSelected(OpenIssue({})) \/ IfSelected(OpenIssue({"isGraphView"}))
             \/ IfSelected(OpenIssue({"isActionableView"}))
    BY <1>0, <2>5, FlagNames DEF IfSelected, OpenIssue
  <2>6. CASE Becomes("list", {}, {"isSprintView"}) \/ Nothing
    BY <1>0, <2>6
  <2>7. CASE handleHistoryKeys(k)
    BY <2>7, HistoryKeysPlain
  <2> HIDE DEF Plain, Guarded, Becomes, Nothing, RInv, RoutingTypeOK, Focus
  <2> QED
    BY <1>3, <2>1, <2>2, <2>3, <2>4, <2>5, <2>6, <2>7 DEF ViewKey
<1> QED
  BY <1>1, <1>2, <1>3

\* A change of view that sets harmless flags.
LEMMA TogglePlain ==
    ASSUME RInv, NEW k, NEW focus \in Focus, NEW set, NEW cleared, Toggle(k, focus, set, cleared),
           set \subseteq Flags, set \cap Guarded = {},
           focus = "help" => focused = "help" /\ "showHelp" \notin cleared
    PROVE  Plain
<1>1. RoutingTypeOK
  BY DEF RInv
<1>2. PICK c \in {cleared, cleared \cup {"recipeGraphOwned"}} : Becomes(focus, set, c)
  BY DEF Toggle
<1>3. focus = "help" => focused = "help" /\ "showHelp" \notin c
  BY <1>2
<1> QED
  BY <1>1, <1>2, <1>3, BecomesPlain

\* The change to a page or back from it.
LEMMA TogglePagePlain ==
    ASSUME RInv, NEW k, NEW page \in Pages, NEW focus \in Focus \ {"help"}, TogglePage(k, page, focus)
    PROVE  Plain
<1>1. "list" \in Focus
  BY DEF Focus
<1>2. {page} \subseteq Flags /\ {page} \cap Guarded = {}
  BY DEF Flags, Guarded, Pages
<1>3. Toggle(k, "list", {}, Pages) \/ Toggle(k, focus, {page}, Pages)
  BY DEF TogglePage
<1>4. CASE Toggle(k, "list", {}, Pages)
  BY <1>1, <1>4, TogglePlain
<1>5. CASE Toggle(k, focus, {page}, Pages)
  BY <1>2, <1>5, TogglePlain
<1> QED
  BY <1>3, <1>4, <1>5

\* The keys of the list and those that change view: two of them open a picker.
LEMMA ToggleKeyPlain ==
    ASSUME RInv, NEW k, ToggleKey(k)
    PROVE  \/ Plain
           \/ Becomes("recipePicker", {"showRecipePicker"}, {})
           \/ Becomes("repoPicker", {"showRepoPicker"}, {})
<1> DEFINE Goal == \/ Plain
                   \/ Becomes("recipePicker", {"showRecipePicker"}, {})
                   \/ Becomes("repoPicker", {"showRepoPicker"}, {})
<1>0. /\ focused \in Focus /\ "showHelp" \notin Pages
      /\ {"list", "board", "graph", "actionable", "history", "tree", "insights", "labelDashboard",
          "attention", "flowMatrix", "sprint", "labelPicker", "detail", "timeTravelInput",
          "updateModal"} \subseteq Focus \ {"help"}
      /\ {"isBoardView", "isGraphView", "isActionableView", "isHistoryView"} \subseteq Pages
  BY DEF RInv, RoutingTypeOK, Focus, Pages
<1>1. \A f \in Focus \ {"help"} : \A c : Toggle(k, f, {}, c) => Plain
  BY TogglePlain
<1>2. \A s : Toggle(k, focused, s, {}) /\ s \subseteq Flags /\ s \cap Guarded = {} => Plain
  BY <1>0, TogglePlain
<1>3. \A s, c : \A f \in Focus \ {"help"} :
        Toggle(k, f, s, c) /\ s \subseteq Flags /\ s \cap Guarded = {} => Plain
  BY TogglePlain
<1>4. \A s \in {"isSprintView", "showAlertsPanel", "showLabelPicker", "showDetails",
               "showTimeTravelPrompt", "showUpdateModal", "filtering", "currentFilter"} \cap Flags :
        {s} \subseteq Flags /\ {s} \cap Guarded = {}
  BY DEF Guarded
<1>5. {"isSprintView", "showAlertsPanel", "showLabelPicker", "showDetails",
       "showTimeTravelPrompt", "showUpdateModal", "filtering", "currentFilter"} \subseteq Flags
  BY FlagNames
<1>6. Nothing => Plain
  BY NothingPlain DEF RInv
<1>7. Toggle(k, focused, {}, {}) => Plain
  BY <1>2
<1>8. CASE k \in {"b", "g", "a"}
  <2>1. \/ TogglePage(k, "isBoardView", "board") \/ TogglePage(k, "isGraphView", "graph")
        \/ TogglePage(k, "isActionableView", "actionable")
    BY <1>8 DEF ToggleKey
  <2> QED
    BY <1>0, <2>1, TogglePagePlain
<1>9. CASE k = "h"
  <2>1. TogglePage(k, "isHistoryView", "history") \/ Toggle(k, "history", {}, {})
    BY <1>9 DEF ToggleKey
  <2> QED
    BY <1>0, <1>1, <2>1, TogglePagePlain
<1>10. CASE k \in {"E", "i", "[", "]", "f"}
  <2>1. \E f \in Focus \ {"help"} : \E c : Toggle(k, f, {}, c)
    BY <1>0, <1>10 DEF ToggleKey
  <2> QED
    BY <1>1, <2>1
<1>11. CASE k = "P"
  <2>1. Toggle(k, focused, {}, {}) \/ openSprintView
    BY <1>11 DEF ToggleKey
  <2>2. openSprintView => \E c : Toggle(k, "sprint", {"isSprintView"}, c)
    BY <1>11 DEF openSprintView
  <2> QED
    BY <1>0, <1>3, <1>4, <1>5, <1>7, <2>1, <2>2
<1>12. CASE k = "!"
  <2>1. Toggle(k, focused, {"showAlertsPanel"}, {}) \/ Nothing
    BY <1>12 DEF ToggleKey, IfSelected
  <2> QED
    BY <1>2, <1>4, <1>5, <1>6, <2>1
<1>13. CASE k = "quote"
  <2>1. Toggle(k, "recipePicker", {"showRecipePicker"}, {})
    BY <1>13 DEF ToggleKey
  <2> QED
    BY <1>13, <2>1 DEF Toggle, Toggles
<1>14. CASE k = "w"
  <2>1. Toggle(k, "repoPicker", {"showRepoPicker"}, {}) \/ Nothing
    BY <1>14 DEF ToggleKey, IfSelected
  <2> QED
    BY <1>6, <1>14, <2>1 DEF Toggle, Toggles
<1>15. CASE k = "l"
  <2>1. Toggle(k, focused, {}, {}) \/ Toggle(k, "labelPicker", {"showLabelPicker"}, {})
    BY <1>15 DEF ToggleKey
  <2> QED
    BY <1>0, <1>3, <1>4, <1>5, <1>7, <2>1
<1>16. CASE k = "enter"
  <2>1. Toggle(k, "detail", {"showDetails"}, {}) \/ Nothing
    BY <1>16 DEF ToggleKey, IfSelected
  <2> QED
    BY <1>0, <1>3, <1>4, <1>5, <1>6, <2>1
<1>17. CASE k = "o"
  <2>1. Toggle(k, focused, {"currentFilter"}, {})
    BY <1>17 DEF ToggleKey, Filter
  <2> QED
    BY <1>2, <1>4, <1>5, <2>1
<1>18. CASE k = "t"
  <2>1. Toggle(k, focused, {}, {}) \/ Toggle(k, "timeTravelInput", {"showTimeTravelPrompt"}, {})
    BY <1>18 DEF ToggleKey
  <2> QED
    BY <1>0, <1>3, <1>4, <1>5, <1>7, <2>1
<1>19. CASE k = "S"
  BY <1>19, FiltersPlain DEF ToggleKey
<1>20. CASE k = "U"
  <2>1. Toggle(k, "updateModal", {"showUpdateModal"}, {}) \/ Nothing
    BY <1>20 DEF ToggleKey, IfSelected
  <2> QED
    BY <1>0, <1>3, <1>4, <1>5, <1>6, <2>1
<1>21. CASE k = "/"
  <2>1. (focused = "list" /\ Toggle(k, focused, {"filtering"}, {"filterApplied"})) \/ Nothing
    BY <1>21 DEF ToggleKey, IfSelected
  <2>2. focused = "list" => focused \in Focus \ {"help"}
    BY <1>0
  <2> QED
    BY <1>3, <1>4, <1>5, <1>6, <2>1, <2>2
<1>22. CASE k \notin {"b", "g", "a", "h", "E", "i", "[", "]", "f", "P", "!", "quote", "w", "l", "enter",
                     "o", "t", "S", "U", "/"}
  <2>1. Nothing
    BY <1>22 DEF ToggleKey
  <2> QED
    BY <1>6, <2>1
<1> QED
  BY <1>8, <1>9, <1>10, <1>11, <1>12, <1>13, <1>14, <1>15, <1>16, <1>17, <1>18, <1>19, <1>20, <1>21, <1>22

\* The keys of the views: three of them open a window of the Guarded.
LEMMA ViewsKeyPlain ==
    ASSUME RInv, NEW k, ViewsKey(k)
    PROVE  \/ Plain
           \/ k = "esc" /\ Becomes("quitConfirm", {"showQuitConfirm"}, {})
           \/ Becomes("recipePicker", {"showRecipePicker"}, {})
           \/ Becomes("repoPicker", {"showRepoPicker"}, {})
<1>1. CASE k = "ctrl+c"
  <2>1. Becomes(focused, {"quit"}, {})
    BY <1>1 DEF ViewsKey
  <2>2. {"quit"} \subseteq Flags /\ {"quit"} \cap Guarded = {}
    BY FlagNames DEF Guarded
  <2>3. RoutingTypeOK /\ focused \in Focus
    BY DEF RInv, RoutingTypeOK
  <2> QED
    BY <2>1, <2>2, <2>3, BecomesPlain
<1>2. CASE k \in {"q", "esc"}
  <2>1. QuitOrClose(k)
    BY <1>2 DEF ViewsKey
  <2> QED
    BY <1>2, <2>1, QuitOrClosePlain
<1>3. CASE k \notin {"ctrl+c", "q", "esc"}
  <2>1. Tab \/ EditKey(k) \/ ViewKey(k) \/ ToggleKey(k)
    BY <1>3 DEF ViewsKey
  <2> QED
    BY <2>1, ViewKeyPlain, ToggleKeyPlain
<1> QED
  BY <1>1, <1>2, <1>3

-----------------------------------------------------------------------------
(* The invariant *)

\* What a key does: it opens one of the Guarded only as its layer says.
LEMMA KeyEffects ==
    ASSUME RInv, NEW k, Handle(Receiver(k), k)
    PROVE  \/ Plain /\ (Receiver(k) = "helpKey" => "showHelp" \notin on')
           \/ Receiver(k) = "helpKey" /\ ~On("showHelp") /\ Becomes("help", {"showHelp"}, {})
           \/ /\ Receiver(k) = "views"
              /\ \/ k = "esc" /\ Becomes("quitConfirm", {"showQuitConfirm"}, {})
                 \/ Becomes("recipePicker", {"showRecipePicker"}, {})
                 \/ Becomes("repoPicker", {"showRepoPicker"}, {})
<1> DEFINE l == Receiver(k)
<1>1. /\ l \in {"nobody", "agentPrompt", "cassModal", "updateModal", "healthDetail",
                "drilldown", "labelGraph", "attention", "alerts", "repoPicker",
                "recipePicker", "quitConfirm"} \cup Below
      /\ l # "nobody" => Takes(l, k)
  BY Passed
<1> HIDE DEF l
<1>2. CASE l \in {"agentPrompt", "updateModal", "healthDetail", "drilldown", "labelGraph",
                 "attention", "alerts", "repoPicker", "recipePicker"}
  <2>1. \/ AgentPromptKey(k) \/ UpdateModalKey(k) \/ HealthDetailKey(k) \/ DrilldownKey(k)
        \/ Becomes(focused, {}, {"showLabelGraphAnalysis"}) \/ AttentionKey(k) \/ AlertsKey(k)
        \/ RepoPickerKey(k) \/ RecipePickerKey(k)
    BY <1>2 DEF l, Handle
  <2> QED
    BY <1>2, <2>1, WindowKeysPlain DEF l
<1>3. CASE l = "cassModal"
  <2>1. On("showCassModal") /\ CassModalKey(k)
    BY <1>1, <1>3 DEF l, Handle, Takes
  <2> QED
    BY <1>3, <2>1, WindowKeysPlain DEF l
<1>4. CASE l = "helpKey"
  <2>1. HelpToggle
    BY <1>4 DEF l, Handle
  <2>2. CASE On("showHelp")
    <3>1. Becomes(back.help, {}, {"showHelp"}) /\ back.help \in Focus \ {"help"}
      BY <2>1, <2>2 DEF HelpToggle, RInv, Remembered
    <3>2. "showHelp" \notin on' /\ RoutingTypeOK
      BY <3>1 DEF Becomes, RInv
    <3>3. Plain
      BY <3>1, <3>2, BecomesPlain
    <3> QED
      BY <3>2, <3>3
  <2>3. CASE ~On("showHelp")
    BY <1>4, <2>1, <2>3 DEF HelpToggle, l
  <2> QED
    BY <2>2, <2>3
<1>5. CASE l \in {"quitConfirm", "tutorialKey", "help", "tutorial", "timeTravel", "title",
                 "editPicker", "boardSearch", "labelPicker", "flowDetail", "filterInput"}
  <2>1. \/ QuitConfirmKey(k) \/ TutorialToggle \/ (focused = "help" /\ HelpKey(k)) \/ TutorialKey(k)
        \/ TimeTravelKey(k) \/ InputKey(k, "titleEdit") \/ InputKey(k, "showEditPicker")
        \/ InputKey(k, "boardSearch") \/ LabelPickerKey(k) \/ FlowDetailKey(k) \/ FilterInputKey(k)
    <3>1. l = "help" => focused = "help"
      BY <1>1 DEF Takes
    <3>2. Handle(l, k)
      BY DEF l
    <3>3. CASE l \in {"quitConfirm", "tutorialKey", "help", "tutorial"}
      <4>1. l = "quitConfirm" => QuitConfirmKey(k)
        BY <3>2 DEF Handle
      <4>2. l = "tutorialKey" => TutorialToggle
        BY <3>2 DEF Handle
      <4>3. l = "help" => HelpKey(k)
        BY <3>2 DEF Handle
      <4>4. l = "tutorial" => TutorialKey(k)
        BY <3>2 DEF Handle
      <4>5. l = "quitConfirm" \/ l = "tutorialKey" \/ l = "help" \/ l = "tutorial"
        BY <3>3
      <4>6. \/ QuitConfirmKey(k) \/ TutorialToggle \/ (focused = "help" /\ HelpKey(k)) \/ TutorialKey(k)
        BY <3>1, <4>1, <4>2, <4>3, <4>4, <4>5, Zenon
      <4> QED
        BY <4>6, Zenon
    <3>4. CASE l \in {"timeTravel", "labelPicker", "flowDetail", "filterInput"}
      BY <3>2, <3>4 DEF Handle
    <3>5. CASE l = "title"
      BY <3>2, <3>5 DEF Handle
    <3>6. CASE l = "editPicker"
      BY <3>2, <3>6 DEF Handle
    <3>7. CASE l = "boardSearch"
      BY <3>2, <3>7 DEF Handle
    <3> QED
      BY <1>5, <3>3, <3>4, <3>5, <3>6, <3>7
  <2> QED
    BY <1>5, <2>1, InputKeysPlain DEF l
<1>6. CASE l = "historyInput"
  <2>1. HistoryInputKey(k)
    BY <1>6 DEF l, Handle
  <2> QED
    BY <1>6, <2>1, HistoryKeysPlain DEF l
<1>7. CASE l = "views"
  <2>1. ViewsKey(k)
    BY <1>7 DEF l, Handle
  <2> QED
    BY <1>7, <2>1, ViewsKeyPlain DEF l
<1>8. CASE l = "nobody"
  <2>1. Nothing /\ RoutingTypeOK
    BY <1>8 DEF l, Handle, RInv
  <2> QED
    BY <1>8, <2>1, NothingPlain DEF l
<1> QED
  BY <1>1, <1>2, <1>3, <1>4, <1>5, <1>6, <1>7, <1>8 DEF Below

\* The types after a key, and where its windows came from.
LEMMA KeyTypes ==
    ASSUME RInv, NEW k, KeyMsg(k), MaxEscs \in Nat
    PROVE  RoutingTypeOK' /\ Remembered'
<1> DEFINE l == Receiver(k)
<1>1. Handle(l, k) /\ Remember(l) /\ Combo(l, k)
  BY DEF KeyMsg
<1>2. escs' \in 0 .. MaxEscs
  <2>1. escs \in 0 .. MaxEscs
    BY DEF RInv, RoutingTypeOK
  <2>2. escs' = 0 \/ (escs < MaxEscs /\ escs' = escs + 1) \/ escs' = escs
    BY DEF KeyMsg
  <2> QED
    BY <2>1, <2>2
<1>3. pendingCombo' \in {"none", "board", "tree"}
  BY <1>1 DEF Combo, RInv, RoutingTypeOK
<1>4. l # "message"
  BY Passed DEF Below
<1>5. back' = [help |-> IF "showHelp" \notin on' THEN "none"
                        ELSE IF l = "helpKey" THEN focused ELSE back.help,
               cass |-> IF "showCassModal" \notin on' THEN "none" ELSE back.cass]
  BY <1>1, <1>4 DEF Remember
<1> HIDE DEF l
<1>6. focused \in Focus /\ back.help \in Focus \cup {"none"} /\ back.cass \in Focus \cup {"none"}
  BY DEF RInv, RoutingTypeOK
<1>7. back' \in [{"help", "cass"} -> Focus \cup {"none"}]
  <2> DEFINE a == IF "showHelp" \notin on' THEN "none"
                  ELSE IF l = "helpKey" THEN focused ELSE back.help
             b == IF "showCassModal" \notin on' THEN "none" ELSE back.cass
  <2>1. a \in Focus \cup {"none"} /\ b \in Focus \cup {"none"}
    BY <1>6
  <2>2. back' = [help |-> a, cass |-> b]
    BY <1>5
  <2> HIDE DEF a, b
  <2> QED
    BY <2>1, <2>2
<1>8. \/ Plain /\ (l = "helpKey" => "showHelp" \notin on')
      \/ l = "helpKey" /\ ~On("showHelp") /\ Becomes("help", {"showHelp"}, {})
      \/ /\ l = "views"
         /\ \/ Becomes("quitConfirm", {"showQuitConfirm"}, {})
            \/ Becomes("recipePicker", {"showRecipePicker"}, {})
            \/ Becomes("repoPicker", {"showRepoPicker"}, {})
  BY <1>1, KeyEffects DEF l
<1>9. /\ on' \subseteq Flags /\ focused' \in Focus
      /\ "showCassModal" \in on' => "showCassModal" \in on
      /\ "showHelp" \in on' => "showHelp" \in on \/ (l = "helpKey" /\ focused # "help")
      /\ "showHelp" \in on' /\ "showHelp" \in on => l # "helpKey"
      /\ focused' = "help" => "showHelp" \in on'
  <2>1. on \subseteq Flags
    BY DEF RInv, RoutingTypeOK, Flags
  <2>2. {"help", "quitConfirm", "recipePicker", "repoPicker"} \subseteq Focus
    BY DEF Focus
  <2>3. focused = "help" => "showHelp" \in on
    BY DEF RInv, Remembered, On
  <2>4. {"showHelp", "showQuitConfirm", "showRecipePicker", "showRepoPicker"} \subseteq Flags
    BY FlagNames DEF Guarded
  <2>5. CASE Plain /\ (l = "helpKey" => "showHelp" \notin on')
    BY <2>3, <2>5 DEF Plain, Guarded
  <2>6. CASE l = "helpKey" /\ ~On("showHelp") /\ Becomes("help", {"showHelp"}, {})
    BY <2>1, <2>2, <2>3, <2>4, <2>6 DEF Becomes, On
  <2>7. CASE /\ l = "views"
             /\ \/ Becomes("quitConfirm", {"showQuitConfirm"}, {})
                \/ Becomes("recipePicker", {"showRecipePicker"}, {})
                \/ Becomes("repoPicker", {"showRepoPicker"}, {})
    BY <2>1, <2>2, <2>3, <2>4, <2>7 DEF Becomes
  <2> QED
    BY <1>8, <2>5, <2>6, <2>7
<1>10. RoutingTypeOK'
  BY <1>2, <1>3, <1>7, <1>9 DEF RoutingTypeOK, Flags
<1>11. "showCassModal" \in on' => back'.cass \in {"list", "detail", "board", "tree", "history"}
  BY <1>5, <1>9 DEF RInv, Remembered, On
<1>12. "showHelp" \in on' => back'.help \in Focus \ {"help"}
  <2>1. "showHelp" \in on => back.help \in Focus \ {"help"}
    BY DEF RInv, Remembered, On
  <2> QED
    BY <1>5, <1>6, <1>9, <2>1
<1> QED
  BY <1>9, <1>10, <1>11, <1>12 DEF Remembered, On

\* The three questions stay alone after a key.
LEMMA KeyExclusive ==
    ASSUME RInv, NEW k, Handle(Receiver(k), k)
    PROVE  Exclusive'
<1> DEFINE l == Receiver(k)
           Apart == {"showCassModal", "showUpdateModal", "showLabelHealthDetail", "showLabelDrilldown",
                     "showLabelGraphAnalysis", "showAlertsPanel", "showRecipePicker", "showRepoPicker"}
<1>1. /\ l \in {"nobody", "agentPrompt", "cassModal", "updateModal", "healthDetail",
                "drilldown", "labelGraph", "attention", "alerts", "repoPicker",
                "recipePicker", "quitConfirm"} \cup Below
      /\ l # "nobody" => Takes(l, k)
      /\ l \in Below => /\ on \cap Windows = {}
                        /\ \A x \in {"healthDetail", "drilldown", "labelGraph", "attention"} : ~Takes(x, k)
      /\ l = "nobody" => on \cap Windows = {}
  BY Passed
<1>2. Handle(l, k)
  OBVIOUS
<1>3. \/ Plain /\ (l = "helpKey" => "showHelp" \notin on')
      \/ l = "helpKey" /\ ~On("showHelp") /\ Becomes("help", {"showHelp"}, {})
      \/ /\ l = "views"
         /\ \/ k = "esc" /\ Becomes("quitConfirm", {"showQuitConfirm"}, {})
            \/ Becomes("recipePicker", {"showRecipePicker"}, {})
            \/ Becomes("repoPicker", {"showRepoPicker"}, {})
  BY KeyEffects
<1> HIDE DEF l
<1>4. ASSUME l \in Below \cup {"nobody"}, Plain PROVE Exclusive'
  BY <1>1, <1>4 DEF Plain, Guarded, Windows, Exclusive, On
<1>5. ASSUME l = "helpKey", Becomes("help", {"showHelp"}, {}) PROVE Exclusive'
  BY <1>1, <1>5 DEF Becomes, Windows, Exclusive, On, Below
<1>6. ASSUME l = "views", k = "esc", Becomes("quitConfirm", {"showQuitConfirm"}, {}) PROVE Exclusive'
  <2>1. on \cap Windows = {} /\ \A x \in {"healthDetail", "drilldown", "labelGraph"} : ~Takes(x, "esc")
    BY <1>1, <1>6 DEF Below
  <2>2. ~Takes("healthDetail", "esc") /\ ~Takes("drilldown", "esc") /\ ~Takes("labelGraph", "esc")
    BY <2>1
  <2>3. /\ ~On("showLabelHealthDetail") /\ ~On("showLabelDrilldown") /\ ~On("showLabelGraphAnalysis")
    BY <2>2 DEF Takes
  <2> QED
    BY <1>6, <2>1, <2>3 DEF Becomes, Windows, Exclusive, On
<1>7. ASSUME l = "views", \/ Becomes("recipePicker", {"showRecipePicker"}, {})
                         \/ Becomes("repoPicker", {"showRepoPicker"}, {}) PROVE Exclusive'
  <2>1. on \cap Windows = {}
    BY <1>1, <1>7 DEF Below
  <2> QED
    BY <1>7, <2>1 DEF Becomes, Windows, Exclusive, On
<1>8. ASSUME l \notin Below \cup {"nobody"}, Plain PROVE Exclusive'
  <2>1. CASE On("showQuitConfirm")
    <3>1. l \in {"agentPrompt", "quitConfirm"}
      BY <1>1, <1>8, <2>1 DEF Takes, RInv, Exclusive, On
    <3>2. AgentPromptKey(k) \/ QuitConfirmKey(k)
      BY <1>2, <3>1 DEF Handle
    <3>3. on' \cap Apart \subseteq on /\ (focused' = focused \/ focused' = "list")
      BY <3>2 DEF AgentPromptKey, QuitConfirmKey, Becomes, Nothing
    <3>4. on \cap Apart = {} /\ focused # "attention"
      BY <2>1 DEF RInv, Exclusive
    <3>5. on' \cap Apart = {} /\ focused' # "attention"
      BY <3>3, <3>4
    <3> QED
      BY <3>5 DEF Exclusive, On
  <2>2. CASE ~On("showQuitConfirm")
    <3>1. ~On("showQuitConfirm")' /\ (On("showRecipePicker")' => On("showRecipePicker"))
          /\ (On("showRepoPicker")' => On("showRepoPicker"))
      BY <1>8, <2>2 DEF Plain, Guarded, On
    <3>2. l # "quitConfirm"
      BY <1>1, <2>2 DEF Takes
    <3>3. focused' = "attention" => focused = "attention"
      <4>1. \/ AgentPromptKey(k) \/ UpdateModalKey(k) \/ HealthDetailKey(k) \/ DrilldownKey(k)
            \/ Becomes(focused, {}, {"showLabelGraphAnalysis"}) \/ AttentionKey(k) \/ AlertsKey(k)
            \/ RepoPickerKey(k) \/ RecipePickerKey(k)
            \/ On("showCassModal") /\ CassModalKey(k)
        BY <1>1, <1>2, <1>8, <3>2 DEF Handle, Takes
      <4> QED
        BY <4>1, WindowKeysPlain
    <3> QED
      BY <3>1, <3>3 DEF RInv, Exclusive
  <2> QED
    BY <2>1, <2>2
<1> QED
  BY <1>1, <1>3, <1>4, <1>5, <1>6, <1>7, <1>8 DEF Below

\* Nor does anything else that comes in disturb the invariant.
LEMMA MessageStep ==
    ASSUME RInv, MaxEscs \in Nat \ {0},
           \/ handleLeftClick \/ WindowSizeMsg \/ AgentFileCheckMsg \/ UpdateCompleteMsg
           \/ cassSessionsLoadedMsg \/ comboTickMsg \/ SnapshotReadyMsg \/ HistoryLoadedMsg
    PROVE  RInv'
<1> USE DEF Becomes, Nothing
<1>1. /\ focused \in Focus /\ on \subseteq Flags /\ back \in [{"help", "cass"} -> Focus \cup {"none"}]
      /\ pendingCombo \in {"none", "board", "tree"} /\ escs \in 0 .. MaxEscs
  BY DEF RInv, RoutingTypeOK, Flags
<1>2. 0 \in 0 .. MaxEscs
  OBVIOUS
<1>3. {"list", "detail", "agentPrompt", "cassModal", "graph"} \subseteq Focus
  BY DEF Focus
<1>4. Remembered /\ Exclusive
  BY DEF RInv
<1>5. ASSUME /\ focused' \in Focus /\ on' \subseteq Flags
             /\ back' \in [{"help", "cass"} -> Focus \cup {"none"}]
             /\ pendingCombo' \in {"none", "board", "tree"} /\ escs' \in 0 .. MaxEscs,
             Remembered', Exclusive'
      PROVE  RInv'
  BY <1>5 DEF RInv, RoutingTypeOK, Flags
<1>6. CASE handleLeftClick
  <2>1. focused' \in {"list", "detail"} /\ UNCHANGED <<on, back, pendingCombo>> /\ escs' = 0
    BY <1>6 DEF handleLeftClick
  <2>2. Remembered' /\ Exclusive'
    BY <1>4, <2>1 DEF Remembered, Exclusive, On
  <2> QED
    BY <1>1, <1>2, <1>3, <1>5, <2>1, <2>2
<1>7. CASE WindowSizeMsg \/ UpdateCompleteMsg \/ SnapshotReadyMsg \/ HistoryLoadedMsg
  <2>1. UNCHANGED <<focused, back, pendingCombo>> /\ escs' \in {0, escs}
    BY <1>7 DEF WindowSizeMsg, UpdateCompleteMsg, SnapshotReadyMsg, HistoryLoadedMsg
  <2>2. /\ on' \subseteq on \cup {"isSplitView", "updateDone", "historyReportIsCurrent"}
        /\ on \subseteq on' \cup {"isSplitView", "updateRunning", "showAlertsPanel",
                               "historyReportIsCurrent", "flowDetail"}
    BY <1>7 DEF WindowSizeMsg, UpdateCompleteMsg, SnapshotReadyMsg, HistoryLoadedMsg
  <2>3. on' \subseteq Flags
    BY <1>1, <2>2, FlagNames
  <2>4. Remembered'
    BY <1>4, <2>1, <2>2 DEF Remembered, On
  <2>5. Exclusive'
    BY <1>4, <2>1, <2>2 DEF Exclusive, On
  <2> QED
    BY <1>1, <1>2, <1>5, <2>1, <2>3, <2>4, <2>5
<1>8. CASE AgentFileCheckMsg
  <2>1. focused' = "agentPrompt" /\ on' = on \cup {"showAgentPrompt"} /\ UNCHANGED <<back, pendingCombo, escs>>
    BY <1>8 DEF AgentFileCheckMsg
  <2>2. on' \subseteq Flags
    BY <1>1, <2>1, FlagNames
  <2>3. Remembered' /\ Exclusive'
    BY <1>4, <2>1 DEF Remembered, Exclusive, On
  <2> QED
    BY <1>1, <1>3, <1>5, <2>1, <2>2, <2>3
<1>9. CASE cassSessionsLoadedMsg
  <2>1. /\ focused' = "cassModal" /\ on' = on \cup {"showCassModal"} /\ UNCHANGED <<pendingCombo, escs>>
        /\ focused \in {"list", "detail", "board", "tree", "history"}
        /\ Open \subseteq {"showEditPicker", "showCassModal"}
    BY <1>9 DEF cassSessionsLoadedMsg, cassLookupIsCurrent
  <2>2. back' = [help |-> IF "showHelp" \notin on' THEN "none" ELSE back.help,
                 cass |-> IF "showCassModal" \notin on' THEN "none" ELSE focused]
    BY <1>9 DEF cassSessionsLoadedMsg, Remember
  <2>3. "showCassModal" \in on' /\ on' \subseteq Flags
    BY <1>1, <2>1, FlagNames
  <2>4. /\ "showHelp" \notin on' /\ "showQuitConfirm" \notin on' /\ "showRecipePicker" \notin on'
        /\ "showRepoPicker" \notin on'
    BY <2>1 DEF Open, Overlays
  <2>5. back' = [help |-> "none", cass |-> focused]
    BY <2>2, <2>3, <2>4
  <2>6. back' \in [{"help", "cass"} -> Focus \cup {"none"}]
    BY <1>1, <2>5
  <2>7. Remembered' /\ Exclusive'
    BY <2>1, <2>4, <2>5 DEF Remembered, Exclusive, On
  <2> QED
    BY <1>1, <1>3, <1>5, <2>1, <2>3, <2>6, <2>7
<1>10. CASE comboTickMsg
  <2>1. /\ pendingCombo' = "none" /\ UNCHANGED <<back, escs>> /\ focused' \in {focused, "graph"}
        /\ on' \subseteq on \cup {"isGraphView"} /\ on \subseteq on' \cup Pages
        /\ focused' # focused => focused \in {"board", "tree"}
    BY <1>1, <1>10 DEF comboTickMsg
  <2>2. on' \subseteq Flags
    BY <1>1, <2>1, FlagNames
  <2>3. Remembered' /\ Exclusive'
    BY <1>4, <2>1 DEF Remembered, Exclusive, On, Pages
  <2> QED
    BY <1>1, <1>3, <1>5, <2>1, <2>2, <2>3
<1> QED
  BY <1>6, <1>7, <1>8, <1>9, <1>10

\* The initial states have it, and every key and message keeps it (Update).
LEMMA RoutingInvariant == RoutingSpec => []RInv
<1>0. MaxEscs \in Nat \ {0}
  BY RoutingAssumption
<1>1. RoutingInit => RInv
  <2> SUFFICES ASSUME RoutingInit PROVE RInv
    OBVIOUS
  <2>1. /\ focused = "list" /\ on \subseteq {"isSplitView"} /\ pendingCombo = "none" /\ escs = 0
        /\ back = [help |-> "none", cass |-> "none"]
    BY DEF RoutingInit
  <2>2. back \in [{"help", "cass"} -> Focus \cup {"none"}]
    BY <2>1
  <2>3. RoutingTypeOK
    BY <1>0, <2>1, <2>2 DEF RoutingTypeOK, Focus, Others
  <2>4. Remembered /\ Exclusive
    BY <2>1 DEF Remembered, Exclusive, On
  <2> QED
    BY <2>3, <2>4 DEF RInv
<1>2. RInv /\ [RoutingNext]_routingVars => RInv'
  <2> SUFFICES ASSUME RInv, [RoutingNext]_routingVars PROVE RInv'
    OBVIOUS
  <2>1. CASE UNCHANGED routingVars
    BY <2>1 DEF routingVars, RInv, RoutingTypeOK, Remembered, Exclusive, On
  <2>2. ASSUME NEW k \in Key, KeyMsg(k) PROVE RInv'
    <3>1. RoutingTypeOK' /\ Remembered'
      BY <1>0, <2>2, KeyTypes
    <3>2. Exclusive'
      BY <2>2, KeyExclusive DEF KeyMsg
    <3> QED
      BY <3>1, <3>2 DEF RInv
  <2>3. CASE RoutingStep
    BY <1>0, <2>2, <2>3, MessageStep DEF RoutingStep
  <2> QED
    BY <2>1, <2>3 DEF RoutingNext
<1> QED
  BY <1>1, <1>2, PTL DEF RoutingSpec

-----------------------------------------------------------------------------
(* What is on the screen *)

\* The windows in the order in which they are drawn.
LEMMA DrawnNames ==
    /\ Len(Drawn) = 27
    /\ Drawn[1] = "showQuitConfirm" /\ Drawn[2] = "showAgentPrompt" /\ Drawn[3] = "showCassModal"
    /\ Drawn[4] = "showEditPicker" /\ Drawn[5] = "showUpdateModal" /\ Drawn[6] = "showLabelHealthDetail"
    /\ Drawn[7] = "showLabelGraphAnalysis" /\ Drawn[8] = "showLabelDrilldown" /\ Drawn[9] = "showAlertsPanel"
    /\ Drawn[10] = "showTimeTravelPrompt" /\ Drawn[11] = "showRecipePicker" /\ Drawn[12] = "showRepoPicker"
BY DEF Drawn

\* What renderMainView puts on the screen is on or in focus, and nothing before it is.
LEMMA FirstDrawn ==
    \/ OnScreen = "list"
    \/ \E i \in 1 .. 27 : /\ OnScreen = Drawn[i] /\ Drawn[i] \in on \cup {focused}
                          /\ \A j \in 1 .. 27 : j < i => Drawn[j] \notin on
<1> DEFINE I == {i \in 1 .. Len(Drawn) : Drawn[i] \in on \cup {focused}}
           i == SelectInSeq(Drawn, LAMBDA d : d \in on \cup {focused})
<1>1. I \in SUBSET Nat /\ 1 .. Len(Drawn) = 1 .. 27
  BY DrawnNames
<1>2. i = IF I # {} THEN Min(I) ELSE 0
  BY DEF SelectInSeq
<1>3. OnScreen = IF i = 0 THEN "list" ELSE Drawn[i]
  BY DEF OnScreen
<1> HIDE DEF i
<1>4. CASE I = {}
  BY <1>1, <1>2, <1>3, <1>4
<1>5. CASE I # {}
  <2>1. i \in I /\ \A j \in I : i <= j
    BY <1>1, <1>2, <1>5, LeastIsIn
  <2>2. i \in 1 .. 27 /\ i # 0 /\ Drawn[i] \in on \cup {focused}
    BY <1>1, <2>1, DrawnNames
  <2>3. \A j \in 1 .. 27 : j < i => Drawn[j] \notin on
    BY <1>1, <2>1, <2>2
  <2> QED
    BY <1>3, <2>2, <2>3
<1> QED
  BY <1>4, <1>5

\* The windows that hide the one on the screen are off.
LEMMA WindowShown ==
    ASSUME RoutingTypeOK, NEW n \in 1 .. 12, OnScreen = Drawn[n]
    PROVE  On(Drawn[n]) /\ \A j \in 1 .. 12 : j < n => ~On(Drawn[j])
<1>1. \A a \in 1 .. 27, b \in 1 .. 12 : Drawn[a] = Drawn[b] => a = b
  BY DEF Drawn
<1>2. \A b \in 1 .. 12 : Drawn[b] # "list" /\ Drawn[b] \notin Focus
  BY DrawnNames DEF Focus
<1>3. focused \in Focus
  BY DEF RoutingTypeOK
<1>4. PICK i \in 1 .. 27 : /\ OnScreen = Drawn[i] /\ Drawn[i] \in on \cup {focused}
                           /\ \A j \in 1 .. 27 : j < i => Drawn[j] \notin on
  BY <1>2, FirstDrawn
<1>5. i = n
  BY <1>1, <1>4
<1> QED
  BY <1>2, <1>3, <1>4, <1>5 DEF On

\* The first of the upper layers that takes esc is its receiver.
LEMMA EscReceiver ==
    /\ On("showAgentPrompt") => Receiver("esc") = "agentPrompt"
    /\ ~On("showAgentPrompt") /\ On("showCassModal") => Receiver("esc") = "cassModal"
    /\ ~On("showAgentPrompt") /\ ~On("showCassModal") =>
         /\ On("showUpdateModal") => Receiver("esc") = "updateModal"
         /\ ~On("showUpdateModal") /\ On("showLabelHealthDetail") => Receiver("esc") = "healthDetail"
         /\ ~On("showUpdateModal") /\ ~On("showLabelHealthDetail") =>
              /\ On("showLabelDrilldown") => Receiver("esc") = "drilldown"
              /\ ~On("showLabelDrilldown") /\ On("showLabelGraphAnalysis")
                   => Receiver("esc") = "labelGraph"
              /\ ~On("showLabelDrilldown") /\ ~On("showLabelGraphAnalysis") /\ focused # "attention" =>
                   /\ On("showAlertsPanel") => Receiver("esc") = "alerts"
                   /\ ~On("showAlertsPanel") /\ On("showRepoPicker") => Receiver("esc") = "repoPicker"
                   /\ ~On("showAlertsPanel") /\ ~On("showRepoPicker") =>
                        /\ On("showRecipePicker") => Receiver("esc") = "recipePicker"
                        /\ ~On("showRecipePicker") /\ On("showQuitConfirm")
                             => Receiver("esc") = "quitConfirm"
<1> DEFINE T(i) == Takes(Layers[i], "esc")
<1>1. /\ T(1) <=> On("showAgentPrompt")
      /\ T(2) <=> On("showCassModal")
      /\ T(3) <=> On("showUpdateModal")
      /\ T(4) <=> On("showLabelHealthDetail")
      /\ T(5) <=> On("showLabelDrilldown")
      /\ T(6) <=> On("showLabelGraphAnalysis")
      /\ T(7) <=> focused = "attention"
      /\ T(8) <=> On("showAlertsPanel")
      /\ T(9) <=> On("showRepoPicker")
      /\ T(10) <=> On("showRecipePicker")
      /\ T(11) <=> On("showQuitConfirm")
  BY LayerNames DEF Takes
<1>2. \A i \in 1 .. 24 : T(i) /\ (\A j \in 1 .. 24 : j < i => ~T(j)) => Receiver("esc") = Layers[i]
  BY Receives
<1> HIDE DEF T
<1>3. \A i \in 1 .. 11 : T(i) /\ (\A j \in 1 .. 11 : j < i => ~T(j)) => Receiver("esc") = Layers[i]
  BY <1>2
<1>4. /\ T(1) => Receiver("esc") = "agentPrompt"
      /\ ~T(1) /\ T(2) => Receiver("esc") = "cassModal"
      /\ ~T(1) /\ ~T(2) /\ T(3) => Receiver("esc") = "updateModal"
      /\ ~T(1) /\ ~T(2) /\ ~T(3) /\ T(4) => Receiver("esc") = "healthDetail"
      /\ ~T(1) /\ ~T(2) /\ ~T(3) /\ ~T(4) /\ T(5) => Receiver("esc") = "drilldown"
      /\ ~T(1) /\ ~T(2) /\ ~T(3) /\ ~T(4) /\ ~T(5) /\ T(6) => Receiver("esc") = "labelGraph"
      /\ ~T(1) /\ ~T(2) /\ ~T(3) /\ ~T(4) /\ ~T(5) /\ ~T(6) /\ ~T(7) =>
           /\ T(8) => Receiver("esc") = "alerts"
           /\ ~T(8) /\ T(9) => Receiver("esc") = "repoPicker"
           /\ ~T(8) /\ ~T(9) /\ T(10) => Receiver("esc") = "recipePicker"
           /\ ~T(8) /\ ~T(9) /\ ~T(10) /\ T(11) => Receiver("esc") = "quitConfirm"
  BY <1>3, LayerNames
<1> QED
  BY <1>1, <1>4

\* The layer of each window.
LEMMA LayerNamed ==
    /\ DOMAIN LayerOf = {"showQuitConfirm", "showAgentPrompt", "showCassModal", "showUpdateModal",
                         "showLabelHealthDetail", "showLabelGraphAnalysis", "showLabelDrilldown",
                         "showAlertsPanel", "showRecipePicker", "showRepoPicker"}
    /\ LayerOf["showQuitConfirm"] = "quitConfirm" /\ LayerOf["showAgentPrompt"] = "agentPrompt"
    /\ LayerOf["showCassModal"] = "cassModal" /\ LayerOf["showUpdateModal"] = "updateModal"
    /\ LayerOf["showLabelHealthDetail"] = "healthDetail"
    /\ LayerOf["showLabelGraphAnalysis"] = "labelGraph"
    /\ LayerOf["showLabelDrilldown"] = "drilldown" /\ LayerOf["showAlertsPanel"] = "alerts"
    /\ LayerOf["showRecipePicker"] = "recipePicker" /\ LayerOf["showRepoPicker"] = "repoPicker"
BY DEF LayerOf

\* The window on the screen gets esc, by what is off before it.
LEMMA EscForTheDrawn ==
    ASSUME RInv
    PROVE  DrawnOverlayGetsEsc
<1>0. RoutingTypeOK /\ Exclusive
  BY DEF RInv
<1>1. ASSUME OnScreen = "showQuitConfirm", ~On("showAgentPrompt")
      PROVE  Receiver("esc") = "quitConfirm"
  <2>1. On("showQuitConfirm")
    BY <1>0, <1>1, WindowShown, DrawnNames
  <2>2. /\ ~On("showCassModal") /\ ~On("showUpdateModal") /\ ~On("showLabelHealthDetail")
        /\ ~On("showLabelDrilldown") /\ ~On("showLabelGraphAnalysis") /\ ~On("showAlertsPanel")
        /\ ~On("showRecipePicker") /\ ~On("showRepoPicker") /\ focused # "attention"
    BY <1>0, <2>1 DEF Exclusive, On
  <2> QED
    BY <1>1, <2>1, <2>2, EscReceiver
<1>2. OnScreen = "showAgentPrompt" => Receiver("esc") = "agentPrompt"
  BY <1>0, WindowShown, DrawnNames, EscReceiver
<1>3. OnScreen = "showCassModal" => Receiver("esc") = "cassModal"
  <2>1. OnScreen = Drawn[3] => On(Drawn[3]) /\ ~On(Drawn[2])
    BY <1>0, WindowShown
  <2> QED
    BY <2>1, DrawnNames, EscReceiver
<1>4. OnScreen = "showUpdateModal" => Receiver("esc") = "updateModal"
  <2>1. OnScreen = Drawn[5] => On(Drawn[5]) /\ ~On(Drawn[2]) /\ ~On(Drawn[3])
    BY <1>0, WindowShown
  <2> QED
    BY <2>1, DrawnNames, EscReceiver
<1>5. OnScreen = "showLabelHealthDetail" => Receiver("esc") = "healthDetail"
  <2>1. OnScreen = Drawn[6] => On(Drawn[6]) /\ ~On(Drawn[2]) /\ ~On(Drawn[3]) /\ ~On(Drawn[5])
    BY <1>0, WindowShown
  <2> QED
    BY <2>1, DrawnNames, EscReceiver
<1>6. OnScreen = "showLabelGraphAnalysis" /\ ~On("showLabelDrilldown") => Receiver("esc") = "labelGraph"
  <2>1. OnScreen = Drawn[7] =>
          On(Drawn[7]) /\ ~On(Drawn[2]) /\ ~On(Drawn[3]) /\ ~On(Drawn[5]) /\ ~On(Drawn[6])
    BY <1>0, WindowShown
  <2> QED
    BY <2>1, DrawnNames, EscReceiver
<1>7. OnScreen = "showLabelDrilldown" => Receiver("esc") = "drilldown"
  <2>1. OnScreen = Drawn[8] =>
          On(Drawn[8]) /\ ~On(Drawn[2]) /\ ~On(Drawn[3]) /\ ~On(Drawn[5]) /\ ~On(Drawn[6])
    BY <1>0, WindowShown
  <2> QED
    BY <2>1, DrawnNames, EscReceiver
<1>8. OnScreen = "showAlertsPanel" /\ focused # "attention" => Receiver("esc") = "alerts"
  <2>1. OnScreen = Drawn[9] =>
          /\ On(Drawn[9]) /\ ~On(Drawn[2]) /\ ~On(Drawn[3]) /\ ~On(Drawn[5]) /\ ~On(Drawn[6])
          /\ ~On(Drawn[7]) /\ ~On(Drawn[8])
    BY <1>0, WindowShown
  <2> QED
    BY <2>1, DrawnNames, EscReceiver
<1>9. OnScreen = "showRecipePicker" => Receiver("esc") = "recipePicker"
  <2>1. OnScreen = Drawn[11] =>
          /\ On(Drawn[11]) /\ ~On(Drawn[2]) /\ ~On(Drawn[3]) /\ ~On(Drawn[5]) /\ ~On(Drawn[6])
          /\ ~On(Drawn[7]) /\ ~On(Drawn[8]) /\ ~On(Drawn[9])
    BY <1>0, WindowShown
  <2>2. On("showRecipePicker") => ~On("showRepoPicker") /\ focused # "attention"
    BY <1>0 DEF Exclusive
  <2> QED
    BY <2>1, <2>2, DrawnNames, EscReceiver
<1>10. OnScreen = "showRepoPicker" => Receiver("esc") = "repoPicker"
  <2>1. OnScreen = Drawn[12] =>
          /\ On(Drawn[12]) /\ ~On(Drawn[2]) /\ ~On(Drawn[3]) /\ ~On(Drawn[5]) /\ ~On(Drawn[6])
          /\ ~On(Drawn[7]) /\ ~On(Drawn[8]) /\ ~On(Drawn[9])
    BY <1>0, WindowShown
  <2>2. On("showRepoPicker") => focused # "attention"
    BY <1>0 DEF Exclusive
  <2> QED
    BY <2>1, <2>2, DrawnNames, EscReceiver
<1> HIDE DEF OnScreen, LayerOf
<1> QED
  BY <1>1, <1>2, <1>3, <1>4, <1>5, <1>6, <1>7, <1>8, <1>9, <1>10, LayerNamed DEF DrawnOverlayGetsEsc

-----------------------------------------------------------------------------
\* Every key and message leaves a focus and flags the code knows, and the window
\* on the screen is the one the keys go to (Update, renderMainView).
THEOREM KeysAreRoutedHolds == RoutingSpec => []KeysAreRouted
<1>1. RInv => KeysAreRouted
  BY EscForTheDrawn DEF RInv, KeysAreRouted
<1> QED
  BY <1>1, RoutingInvariant, PTL

-----------------------------------------------------------------------------
(* What esc does: it closes, goes back to the list, asks or quits *)

\* The flags that esc can close.
Closable == Flags \ {"showQuitConfirm", "isSplitView", "quit", "historyReportIsCurrent"}

\* The views that esc leaves for the list without closing anything.
Returning == {"attention", "insights", "flowMatrix", "labelDashboard", "sprint", "timeTravelInput"}

\* Where the focus will be when the sessions or the help are closed.
Under ==
    IF On("showCassModal") THEN back.cass ELSE IF focused = "help" THEN back.help ELSE focused

\* No layer takes esc.
Mute == On("filtering") /\ focused # "list" /\ \A i \in 1 .. 24 : ~Takes(Layers[i], "esc")

\* What esc keeps.
Keeps == \A f \in {"showQuitConfirm", "updateRunning"} : f \in on => f \in on'

\* The three things esc does on the way out.
Closes ==
    /\ on' \subseteq on /\ \E f \in Closable : f \in on /\ f \notin on'
    /\ focused' \in {"list", focused, Under}
    /\ On("showCassModal") => "showCassModal" \in on' \/ focused' = Under

Returns ==
    /\ focused \in Returning /\ focused' = "list" /\ on' \subseteq on
    /\ ~On("showCassModal")

Asks ==
    /\ ~On("showQuitConfirm") /\ on' = on \cup {"showQuitConfirm"} /\ focused' = "quitConfirm"
    /\ ~On("showCassModal")

\* Which flags those are, by group.
LEMMA ClosableNames ==
    (Pages \cup (Overlays \ {"showQuitConfirm"}) \cup Modes
       \cup {"isSprintView", "showDetails", "recipeGraphOwned"}) \subseteq Closable
BY DEF Closable, Flags, Pages, Overlays, Modes, Others

\* A handler that only closes, and leaves the sessions alone.
LEMMA BecomesCloses ==
    ASSUME NEW focus, NEW cleared, Becomes(focus, {}, cleared), focus \in {"list", focused, Under},
           "showQuitConfirm" \notin cleared, "updateRunning" \notin cleared,
           \E f \in cleared : On(f) /\ f \in Closable,
           "showCassModal" \notin cleared \/ focus = Under
    PROVE  Closes /\ Keeps
BY DEF Becomes, Closes, Keeps, On

\* The windows.
LEMMA EscInWindow ==
    ASSUME RInv, NEW l, Takes(l, "esc"), Handle(l, "esc"), ~On("updateRunning") \/ l # "updateModal",
           l \in {"agentPrompt", "cassModal", "updateModal", "healthDetail", "drilldown", "labelGraph",
                  "alerts", "repoPicker", "recipePicker"}
    PROVE  Closes /\ Keeps
<1>1. CASE l = "agentPrompt"
  <2>1. Becomes("list", {}, {"showAgentPrompt"}) /\ On("showAgentPrompt")
    BY <1>1 DEF Handle, Takes, AgentPromptKey
  <2> QED
    BY <2>1, ClosableNames, BecomesCloses DEF Overlays
<1>2. CASE l = "cassModal"
  <2>1. Becomes(back.cass, {}, {"showCassModal"}) /\ On("showCassModal")
    BY <1>2 DEF Handle, Takes, CassModalKey
  <2> QED
    BY <2>1, ClosableNames, BecomesCloses DEF Overlays, Under
<1>3. CASE l = "updateModal"
  <2>1. Becomes("list", {}, {"showUpdateModal", "updateDone"}) /\ On("showUpdateModal")
    BY <1>3 DEF Handle, Takes, UpdateModalKey
  <2> QED
    BY <2>1, ClosableNames, BecomesCloses DEF Overlays
<1>4. CASE l = "healthDetail"
  <2>1. Becomes(focused, {}, {"showLabelHealthDetail"}) /\ On("showLabelHealthDetail")
    BY <1>4 DEF Handle, Takes, HealthDetailKey
  <2> QED
    BY <2>1, ClosableNames, BecomesCloses DEF Overlays
<1>5. CASE l = "drilldown"
  <2>1. Becomes(focused, {}, {"showLabelDrilldown"}) /\ On("showLabelDrilldown")
    BY <1>5 DEF Handle, Takes, DrilldownKey
  <2> QED
    BY <2>1, ClosableNames, BecomesCloses DEF Overlays
<1>6. CASE l = "labelGraph"
  <2>1. Becomes(focused, {}, {"showLabelGraphAnalysis"}) /\ On("showLabelGraphAnalysis")
    BY <1>6 DEF Handle, Takes
  <2> QED
    BY <2>1, ClosableNames, BecomesCloses DEF Overlays
<1>7. CASE l = "alerts"
  <2>1. Becomes(focused, {}, {"showAlertsPanel"}) /\ On("showAlertsPanel")
    BY <1>7 DEF Handle, Takes, AlertsKey
  <2> QED
    BY <2>1, ClosableNames, BecomesCloses DEF Overlays
<1>8. CASE l = "repoPicker"
  <2>1. Becomes("list", {}, {"showRepoPicker"}) /\ On("showRepoPicker")
    BY <1>8 DEF Handle, Takes, RepoPickerKey
  <2> QED
    BY <2>1, ClosableNames, BecomesCloses DEF Overlays
<1>9. CASE l = "recipePicker"
  <2>1. Becomes("list", {}, {"showRecipePicker"}) /\ On("showRecipePicker")
    BY <1>9 DEF Handle, Takes, RecipePickerKey, Becomes
  <2> QED
    BY <2>1, ClosableNames, BecomesCloses DEF Overlays
<1> QED
  BY <1>1, <1>2, <1>3, <1>4, <1>5, <1>6, <1>7, <1>8, <1>9

\* The help, the tutorial and the inputs.
LEMMA EscInInput ==
    ASSUME RInv, NEW l, Takes(l, "esc"), Handle(l, "esc"), ~On("showCassModal"),
           l \in {"help", "tutorial", "timeTravel", "title", "editPicker", "boardSearch",
                  "historyInput", "labelPicker", "flowDetail", "filterInput"},
           l = "filterInput" => On("filtering")
    PROVE  (Closes \/ Returns) /\ Keeps
<1>1. CASE l = "help"
  <2>1. Becomes(back.help, {}, {"showHelp"}) /\ focused = "help"
    BY <1>1 DEF Handle, Takes, HelpKey
  <2>2. On("showHelp")
    BY <2>1 DEF RInv, Remembered
  <2>3. back.help = Under
    BY <2>1 DEF Under
  <2> QED
    BY <2>1, <2>2, <2>3, ClosableNames, BecomesCloses DEF Overlays
<1>2. CASE l = "tutorial"
  <2>1. Becomes("list", {}, {"showTutorial"}) /\ On("showTutorial")
    BY <1>2 DEF Handle, Takes, TutorialKey
  <2> QED
    BY <2>1, ClosableNames, BecomesCloses DEF Overlays
<1>3. CASE l = "timeTravel"
  <2>1. Becomes("list", {}, {"showTimeTravelPrompt"}) /\ focused = "timeTravelInput"
    BY <1>3 DEF Handle, Takes, TimeTravelKey
  <2> QED
    BY <2>1 DEF Becomes, Returns, Keeps, Returning
<1>4. CASE l \in {"title", "editPicker", "boardSearch"}
  <2>1. PICK f \in {"titleEdit", "showEditPicker", "boardSearch"} : Becomes(focused, {}, {f}) /\ On(f)
    <3>1. l = "title" => Becomes(focused, {}, {"titleEdit"}) /\ On("titleEdit")
      BY DEF Handle, Takes, InputKey
    <3>2. l = "editPicker" => Becomes(focused, {}, {"showEditPicker"}) /\ On("showEditPicker")
      BY DEF Handle, Takes, InputKey
    <3>3. l = "boardSearch" => Becomes(focused, {}, {"boardSearch"}) /\ On("boardSearch")
      BY DEF Handle, Takes, InputKey
    <3> QED
      BY <1>4, <3>1, <3>2, <3>3
  <2> QED
    BY <2>1, ClosableNames, BecomesCloses DEF Overlays, Modes
<1>5. CASE l = "historyInput"
  <2>1. PICK f \in {"historySearch", "fileFilter", "fileTreeFocus"} : Becomes(focused, {}, {f}) /\ On(f)
    BY <1>5 DEF Handle, Takes, HistoryInputKey, FileTreeKey
  <2> QED
    BY <2>1, ClosableNames, BecomesCloses DEF Modes
<1>6. CASE l = "labelPicker"
  <2>1. Becomes("list", {}, {"showLabelPicker"}) /\ On("showLabelPicker")
    BY <1>6 DEF Handle, Takes, LabelPickerKey
  <2> QED
    BY <2>1, ClosableNames, BecomesCloses DEF Overlays
<1>7. CASE l = "flowDetail"
  <2>1. Becomes(focused, {}, {"flowDetail"}) /\ On("flowDetail")
    BY <1>7 DEF Handle, Takes, FlowDetailKey
  <2> QED
    BY <2>1, ClosableNames, BecomesCloses DEF Modes
<1>8. CASE l = "filterInput"
  <2>1. Becomes(focused, {}, {"filtering"}) /\ On("filtering")
    BY <1>8 DEF Handle, FilterInputKey
  <2> QED
    BY <2>1, ClosableNames, BecomesCloses DEF Modes
<1> QED
  BY <1>1, <1>2, <1>3, <1>4, <1>5, <1>6, <1>7, <1>8

\* The views.
LEMMA EscInViews ==
    ASSUME RInv, QuitOrClose("esc"), ~On("showCassModal"), ~On("showQuitConfirm"), focused # "help"
    PROVE  (Closes \/ Returns \/ Asks) /\ Keeps
<1>0. focused = Under
  BY DEF Under
<1>1. CASE On("showDetails") /\ ~On("isSplitView")
  <2>1. Becomes("list", {}, {"showDetails"})
    BY <1>1 DEF QuitOrClose
  <2> QED
    BY <1>1, <2>1, ClosableNames, BecomesCloses
<1> DEFINE Past == ~(On("showDetails") /\ ~On("isSplitView"))
<1>2. CASE Past /\ focused = "flowMatrix" /\ On("flowDrilldown")
  <2>1. Becomes(focused, {}, {"flowDrilldown"})
    BY <1>2 DEF QuitOrClose
  <2> QED
    BY <1>2, <2>1, ClosableNames, BecomesCloses DEF Modes
<1>3. CASE Past /\ ~(focused = "flowMatrix" /\ On("flowDrilldown")) /\ focused \in {"insights", "flowMatrix"}
  <2>1. Becomes("list", {}, {})
    BY <1>3 DEF QuitOrClose
  <2> QED
    BY <1>3, <2>1 DEF Becomes, Returns, Keeps, Returning
<1>4. CASE Past /\ focused \notin {"insights", "flowMatrix"} /\ on \cap Pages # {}
  <2>1. Becomes("list", {}, Pages)
    BY <1>4 DEF QuitOrClose
  <2>2. "showQuitConfirm" \notin Pages /\ "updateRunning" \notin Pages /\ "showCassModal" \notin Pages
    BY DEF Pages
  <2>3. \E f \in Pages : On(f) /\ f \in Closable
    BY <1>4, ClosableNames DEF On
  <2> QED
    BY <2>1, <2>2, <2>3, BecomesCloses
<1>5. CASE /\ Past /\ focused \notin {"insights", "flowMatrix"} /\ on \cap Pages = {}
           /\ On("showLabelPicker")
  <2>1. Becomes("list", {}, {"showLabelPicker"})
    BY <1>5 DEF QuitOrClose
  <2> QED
    BY <1>5, <2>1, ClosableNames, BecomesCloses DEF Overlays
<1> DEFINE Low == /\ Past /\ focused \notin {"insights", "flowMatrix"} /\ on \cap Pages = {}
                  /\ ~On("showLabelPicker")
<1>6. CASE Low /\ focused \in {"labelDashboard", "sprint"}
  <2>1. Becomes("list", {}, {}) \/ Becomes("list", {}, {"isSprintView"})
    BY <1>6 DEF QuitOrClose
  <2> QED
    BY <1>6, <2>1 DEF Becomes, Returns, Keeps, Returning
<1>7. CASE Low /\ focused \notin {"labelDashboard", "sprint"} /\ on \cap Filters # {}
  <2>1. clearAllFilters
    BY <1>7 DEF QuitOrClose
  <2>2. focused' \in {"list", focused} /\ on' \subseteq on \ Filters
    BY <2>1 DEF clearAllFilters, Without, setActiveRecipe
  <2>3. on \subseteq on' \cup Filters \cup {"isGraphView", "recipeGraphOwned"}
    BY <2>1 DEF clearAllFilters, setActiveRecipe
  <2>4. Filters \subseteq Closable
    BY ClosableNames DEF Filters, Modes
  <2>5. Keeps
    BY <2>3 DEF Keeps, Filters
  <2> QED
    BY <1>7, <2>2, <2>4, <2>5 DEF Closes, On
<1>8. CASE Low /\ focused \notin {"labelDashboard", "sprint"} /\ on \cap Filters = {}
  <2>1. Becomes("quitConfirm", {"showQuitConfirm"}, {})
    BY <1>8 DEF QuitOrClose
  <2> QED
    BY <2>1 DEF Becomes, Asks, Keeps
<1> QED
  BY <1>1, <1>2, <1>3, <1>4, <1>5, <1>6, <1>7, <1>8

\* With the sessions open only the prompt about AGENTS.md comes before them.
LEMMA SessionsFirst ==
    ASSUME NEW k, On("showCassModal")
    PROVE  Receiver(k) \in {"agentPrompt", "cassModal"}
<1>1. Takes(Layers[2], k)
  BY LayerNames DEF Takes
<1>2. PICK i \in 1 .. 24 : /\ Receiver(k) = Layers[i]
                           /\ \A j \in 1 .. 24 : j < i => ~Takes(Layers[j], k)
  BY <1>1, FirstTaker
<1>3. i \in {1, 2}
  BY <1>1, <1>2
<1> QED
  BY <1>2, <1>3, LayerNames

\* If nobody gets esc, no layer takes it.
LEMMA NobodyIsMute ==
    Receiver("esc") = "nobody" <=> Mute
<1>1. "nobody" \notin {Layers[i] : i \in 1 .. 24}
  BY LayerNames
<1>2. Receiver("esc") = "nobody" <=> \A i \in 1 .. 24 : ~Takes(Layers[i], "esc")
  BY <1>1, FirstTaker
<1>3. ASSUME \A i \in 1 .. 24 : ~Takes(Layers[i], "esc") PROVE On("filtering") /\ focused # "list"
  <2>1. ~Takes("views", "esc") /\ ~Takes("filterInput", "esc")
    BY <1>3, LayerNames
  <2> QED
    BY <2>1 DEF Takes
<1> QED
  BY <1>2, <1>3 DEF Mute

\* A key reaches the views when it has passed the help, and the filter when it has passed the views.
LEMMA ViewsAreLate ==
    ASSUME NEW k
    PROVE  /\ Receiver(k) = "views" => focused # "help" /\ ~On("filtering")
           /\ Receiver(k) = "filterInput" => On("filtering")
<1>1. \A i, j \in 1 .. 24 : Layers[i] = Layers[j] => i = j
  BY DEF Layers
<1>2. ASSUME NEW i \in 1 .. 24, Receiver(k) = Layers[i]
      PROVE  Takes(Layers[i], k) /\ \A j \in 1 .. 24 : j < i => ~Takes(Layers[j], k)
  <2>1. Layers[i] # "nobody"
    BY LayerNames
  <2> QED
    BY <1>1, <1>2, <2>1, FirstTaker
<1>3. ASSUME Receiver(k) = "views" PROVE focused # "help" /\ ~On("filtering")
  <2>1. Receiver(k) = Layers[23]
    BY <1>3, LayerNames
  <2>2. Takes(Layers[23], k) /\ ~Takes(Layers[14], k)
    BY <1>2, <2>1
  <2>3. Takes("views", k) /\ ~Takes("help", k)
    BY <2>2, LayerNames
  <2> QED
    BY <2>3 DEF Takes
<1>4. ASSUME Receiver(k) = "filterInput" PROVE On("filtering")
  <2>1. Receiver(k) = Layers[24]
    BY <1>4, LayerNames
  <2>2. ~Takes(Layers[23], k)
    BY <1>2, <2>1
  <2>3. ~Takes("views", k)
    BY <2>2, LayerNames
  <2> QED
    BY <2>3 DEF Takes
<1> QED
  BY <1>3, <1>4

\* Esc closes, returns, asks or quits, unless an update is running or nobody listens.
LEMMA EscEffect ==
    ASSUME RInv, Handle(Receiver("esc"), "esc")
    PROVE  /\ Keeps
           /\ \/ Closes \/ Returns \/ Asks \/ "quit" \in on'
              \/ On("updateRunning")
              \/ Mute /\ Nothing
<1> DEFINE l == Receiver("esc")
<1>1. /\ l \in {"nobody", "agentPrompt", "cassModal", "updateModal", "healthDetail",
                "drilldown", "labelGraph", "attention", "alerts", "repoPicker",
                "recipePicker", "quitConfirm"} \cup Below
      /\ l # "nobody" => Takes(l, "esc")
      /\ l \in Below => on \cap Windows = {}
  BY Passed
<1>2. Handle(l, "esc")
  OBVIOUS
<1>3. l = "nobody" => Mute
  BY NobodyIsMute
<1>4. On("showCassModal") => l \in {"agentPrompt", "cassModal"}
  BY SessionsFirst
<1> HIDE DEF l
<1>5. CASE l \in {"agentPrompt", "cassModal", "updateModal", "healthDetail", "drilldown", "labelGraph",
                 "alerts", "repoPicker", "recipePicker"}
  <2>1. CASE On("updateRunning") /\ l = "updateModal"
    <3>1. Nothing
      BY <1>2, <2>1 DEF Handle, UpdateModalKey
    <3> QED
      BY <2>1, <3>1 DEF Keeps, Nothing
  <2>2. CASE ~On("updateRunning") \/ l # "updateModal"
    BY <1>1, <1>2, <1>5, <2>2, EscInWindow
  <2> QED
    BY <2>1, <2>2
<1>6. CASE l = "attention"
  <2>1. Becomes("list", {}, {}) /\ focused = "attention"
    BY <1>1, <1>2, <1>6 DEF Handle, Takes, AttentionKey
  <2> QED
    BY <1>4, <1>6, <2>1 DEF Becomes, Returns, Keeps, Returning
<1>7. CASE l = "quitConfirm"
  <2>1. Becomes(focused, {"quit"}, {})
    BY <1>2, <1>7 DEF Handle, QuitConfirmKey
  <2> QED
    BY <2>1 DEF Becomes, Keeps
<1>8. CASE l \in {"help", "tutorial", "timeTravel", "title", "editPicker", "boardSearch",
                 "historyInput", "labelPicker", "flowDetail"}
  BY <1>1, <1>2, <1>4, <1>8, EscInInput
<1>9. CASE l = "views"
  <2>1. QuitOrClose("esc")
    BY <1>2, <1>9 DEF Handle, ViewsKey
  <2>2. ~On("showQuitConfirm") /\ ~On("showCassModal")
    BY <1>1, <1>9 DEF Below, Windows, On
  <2>3. focused # "help"
    BY <1>9, ViewsAreLate DEF l
  <2> QED
    BY <2>1, <2>2, <2>3, EscInViews
<1>10. CASE l = "filterInput"
  <2>1. On("filtering")
    BY <1>10, ViewsAreLate DEF l
  <2> QED
    BY <1>1, <1>2, <1>4, <1>10, <2>1, EscInInput
<1>11. CASE l \in {"helpKey", "tutorialKey"}
  BY <1>1, <1>11 DEF Takes
<1>12. CASE l = "nobody"
  <2>1. Nothing
    BY <1>2, <1>12 DEF Handle
  <2> QED
    BY <1>3, <1>12, <2>1 DEF Keeps, Nothing
<1> QED
  BY <1>1, <1>5, <1>6, <1>7, <1>8, <1>9, <1>10, <1>11, <1>12 DEF Below

-----------------------------------------------------------------------------
(* The filter of the list *)

\* While it is typed the focus is with the list, its detail panel, or what came as a
\* message over one of them.
FilterFocus ==
    On("filtering") =>
       /\ focused \in {"list", "detail", "agentPrompt", "cassModal"}
       /\ On("showCassModal") => back.cass \in {"list", "detail"}
       /\ ~On("showRecipePicker")

\* While the sessions are open the focus is not with the board or the tree, where a pending g
\* opens the graph.
CassFocus == On("showCassModal") => focused \notin {"board", "tree"}

\* A step that leaves the filter alone, or ends it.
Unfiltering == "filtering" \in on' => "filtering" \in on

\* A handler that does not name the filter leaves it alone.
LEMMA BecomesUnfiltering ==
    ASSUME NEW focus, NEW set, NEW cleared, Becomes(focus, set, cleared), "filtering" \notin set
    PROVE  Unfiltering
BY DEF Becomes, Unfiltering

\* No window starts the filter.
LEMMA WindowsUnfiltering ==
    ASSUME NEW k, NEW l, Handle(l, k),
           l \in {"nobody", "agentPrompt", "cassModal", "updateModal", "healthDetail", "drilldown",
                  "labelGraph", "attention", "alerts", "repoPicker", "recipePicker", "quitConfirm"}
    PROVE  Unfiltering
<1> USE DEF Becomes, Nothing, Unfiltering
<1>1. CASE l \in {"nobody", "agentPrompt", "cassModal", "labelGraph"}
  BY <1>1 DEF Handle, AgentPromptKey, CassModalKey
<1>2. CASE l = "updateModal"
  <2>1. UpdateModalKey(k)
    BY <1>2 DEF Handle
  <2> QED
    BY <2>1 DEF UpdateModalKey
<1>3. CASE l = "healthDetail"
  BY <1>3 DEF Handle, HealthDetailKey
<1>4. CASE l = "drilldown"
  <2>1. DrilldownKey(k)
    BY <1>4 DEF Handle
  <2> QED
    BY <2>1 DEF DrilldownKey, Filter
<1>5. CASE l = "attention"
  <2>1. AttentionKey(k)
    BY <1>5 DEF Handle
  <2> QED
    BY <2>1 DEF AttentionKey, Filter, IfSelected
<1>6. CASE l = "alerts"
  <2>1. AlertsKey(k)
    BY <1>6 DEF Handle
  <2> QED
    BY <2>1 DEF AlertsKey, IfSelected
<1>7. CASE l = "repoPicker"
  <2>1. RepoPickerKey(k)
    BY <1>7 DEF Handle
  <2> QED
    BY <2>1 DEF RepoPickerKey
<1>8. CASE l = "recipePicker"
  <2>1. RecipePickerKey(k)
    BY <1>8 DEF Handle
  <2> QED
    BY <2>1 DEF RecipePickerKey, setActiveRecipe, Filter
<1>9. CASE l = "quitConfirm"
  BY <1>9 DEF Handle, QuitConfirmKey
<1> QED
  BY <1>1, <1>2, <1>3, <1>4, <1>5, <1>6, <1>7, <1>8, <1>9

\* Nor does the history.
LEMMA HistoryUnfiltering ==
    ASSUME NEW k, handleHistoryKeys(k)
    PROVE  Unfiltering
BY DEF handleHistoryKeys, IfSelected, OpenIssue, Becomes, Nothing, Unfiltering

\* Nor do the help, the tutorial and the inputs.
LEMMA InputsUnfiltering ==
    ASSUME NEW k, NEW l, Handle(l, k),
           l \in {"helpKey", "tutorialKey", "help", "tutorial", "timeTravel", "title", "editPicker",
                  "boardSearch", "historyInput", "labelPicker", "flowDetail", "filterInput"}
    PROVE  Unfiltering
<1> USE DEF Becomes, Nothing, Unfiltering
<1>1. CASE l = "helpKey"
  BY <1>1 DEF Handle, HelpToggle
<1>2. CASE l = "tutorialKey"
  BY <1>2 DEF Handle, TutorialToggle
<1>3. CASE l = "help"
  <2>1. HelpKey(k)
    BY <1>3 DEF Handle
  <2>2. Nothing \/ Becomes("tutorial", {"showTutorial"}, {"showHelp"}) \/ Becomes(back.help, {}, {"showHelp"})
    BY <2>1, Zenon DEF HelpKey
  <2> QED
    BY <2>2
<1>4. CASE l = "tutorial"
  BY <1>4 DEF Handle, TutorialKey
<1>5. CASE l = "timeTravel"
  <2>1. TimeTravelKey(k)
    BY <1>5 DEF Handle
  <2> QED
    BY <2>1 DEF TimeTravelKey
<1>6. CASE l \in {"title", "editPicker", "boardSearch"}
  <2>1. InputKey(k, "titleEdit") \/ InputKey(k, "showEditPicker") \/ InputKey(k, "boardSearch")
    <3>1. l = "title" => InputKey(k, "titleEdit")
      BY DEF Handle
    <3>2. l = "editPicker" => InputKey(k, "showEditPicker")
      BY DEF Handle
    <3>3. l = "boardSearch" => InputKey(k, "boardSearch")
      BY DEF Handle
    <3> QED
      BY <1>6, <3>1, <3>2, <3>3
  <2> QED
    BY <2>1 DEF InputKey
<1>7. CASE l = "historyInput"
  <2>1. HistoryInputKey(k)
    BY <1>7 DEF Handle
  <2>2. FileTreeKey(k) => handleHistoryKeys(k) \/ Unfiltering
    BY DEF FileTreeKey
  <2>3. HistoryInputKey(k) => FileTreeKey(k) \/ Unfiltering
    BY DEF HistoryInputKey
  <2> QED
    BY <2>1, <2>2, <2>3, HistoryUnfiltering
<1>8. CASE l = "labelPicker"
  <2>1. LabelPickerKey(k)
    BY <1>8 DEF Handle
  <2> QED
    BY <2>1 DEF LabelPickerKey, Filter
<1>9. CASE l = "flowDetail"
  <2>1. FlowDetailKey(k)
    BY <1>9 DEF Handle
  <2> QED
    BY <2>1 DEF FlowDetailKey
<1>10. CASE l = "filterInput"
  <2>1. FilterInputKey(k)
    BY <1>10 DEF Handle
  <2> QED
    BY <2>1 DEF FilterInputKey
<1> QED
  BY <1>1, <1>2, <1>3, <1>4, <1>5, <1>6, <1>7, <1>8, <1>9, <1>10

\* In the views one key starts it, with the list in focus.
LEMMA ViewsFilter ==
    ASSUME NEW k, ViewsKey(k)
    PROVE  Unfiltering \/ (focused = "list" /\ focused' = "list" /\ on' \subseteq on \cup {"filtering"})
<1> DEFINE Goal == Unfiltering \/ (focused = "list" /\ focused' = "list" /\ on' \subseteq on \cup {"filtering"})
<1>0. Nothing => Unfiltering
  BY DEF Nothing, Unfiltering
<1>1. ASSUME ToggleKey(k) PROVE Goal
  <2> DEFINE Harmless == {"isBoardView", "isGraphView", "isActionableView", "isHistoryView",
                          "isSprintView", "showAlertsPanel", "showRecipePicker", "showRepoPicker",
                          "showLabelPicker", "showDetails", "currentFilter",
                          "showTimeTravelPrompt", "showUpdateModal"}
  <2>1. \A f, c : \A s \in SUBSET Harmless : Toggle(k, f, s, c) => Unfiltering
    BY BecomesUnfiltering DEF Toggle
  <2>2. CASE k \in {"b", "g", "a", "h"}
    <3>1. \E f, c : \E s \in SUBSET Harmless : Toggle(k, f, s, c)
      BY <1>1, <2>2 DEF ToggleKey, TogglePage
    <3> QED
      BY <2>1, <3>1
  <2>3. CASE k \in {"E", "i", "[", "]", "f", "P"}
    <3>1. \E f, c : \E s \in SUBSET Harmless : Toggle(k, f, s, c)
      BY <1>1, <2>3 DEF ToggleKey, openSprintView
    <3> QED
      BY <2>1, <3>1
  <2>4. CASE k \in {"!", "quote", "w", "l", "enter", "o", "t", "U"}
    <3>1. \/ Nothing
          \/ \E f, c : \E s \in SUBSET Harmless : Toggle(k, f, s, c)
      BY <1>1, <2>4 DEF ToggleKey, IfSelected, Filter
    <3> QED
      BY <1>0, <2>1, <3>1
  <2>5. CASE k = "S"
    <3>1. applyTriage
      BY <1>1, <2>5 DEF ToggleKey
    <3> QED
      BY <3>1 DEF applyTriage, setActiveRecipe, Filter, Unfiltering
  <2>6. CASE k = "/"
    BY <1>0, <1>1, <2>6 DEF ToggleKey, IfSelected, Toggle, Becomes
  <2>7. CASE k \notin {"b", "g", "a", "h", "E", "i", "[", "]", "f", "P", "!", "quote", "w", "l", "enter",
                       "o", "t", "U", "S", "/"}
    BY <1>0, <1>1, <2>7 DEF ToggleKey
  <2> QED
    BY <2>2, <2>3, <2>4, <2>5, <2>6, <2>7
<1>2. ASSUME ViewKey(k) PROVE Unfiltering
  <2> USE DEF Becomes, Nothing, Unfiltering, IfSelected
  <2>1. BoardKey(k) => Unfiltering
    BY DEF BoardKey, OpenIssue, Filter
  <2>2. LabelDashboardKey(k) => Unfiltering
    BY DEF LabelDashboardKey, Filter
  <2>3. TreeKey(k) => Unfiltering
    BY DEF TreeKey, OpenIssue
  <2>4. FlowMatrixKey(k) => Unfiltering
    BY DEF FlowMatrixKey
  <2>5. \A p : IfSelected(OpenIssue(p)) => Unfiltering
    BY DEF OpenIssue
  <2>6. Becomes("list", {}, {"isSprintView"}) \/ Nothing => Unfiltering
    OBVIOUS
  <2> HIDE DEF Becomes, Nothing, Unfiltering, IfSelected
  <2> QED
    BY <1>2, <2>1, <2>2, <2>3, <2>4, <2>5, <2>6, HistoryUnfiltering DEF ViewKey
<1>3. ASSUME QuitOrClose(k) PROVE Unfiltering
  <2>1. clearAllFilters => Unfiltering
    BY DEF clearAllFilters, setActiveRecipe, Unfiltering, Filters
  <2>2. \A f, c : Becomes(f, {}, c) => Unfiltering
    BY BecomesUnfiltering
  <2>3. \A f, c, x : Becomes(f, {x}, c) /\ x # "filtering" => Unfiltering
    BY BecomesUnfiltering
  <2> QED
    BY <1>3, <2>1, <2>2, <2>3 DEF QuitOrClose
<1>4. ASSUME Tab \/ EditKey(k) \/ Becomes(focused, {"quit"}, {}) PROVE Unfiltering
  BY <1>4 DEF Tab, EditKey, IfSelected, Becomes, Nothing, Unfiltering
<1> QED
  BY <1>1, <1>2, <1>3, <1>4 DEF ViewsKey

\* The focus moves nowhere but to the list, or back from the sessions, while the filter is typed.
LEMMA FilteredFocus ==
    ASSUME RInv, FilterFocus, On("filtering"), NEW k, Handle(Receiver(k), k)
    PROVE  \/ focused' \in {"list", focused}
           \/ On("showCassModal") /\ focused' = back.cass
<1> DEFINE l == Receiver(k)
<1>1. /\ l \in {"nobody", "agentPrompt", "cassModal", "updateModal", "healthDetail",
                "drilldown", "labelGraph", "attention", "alerts", "repoPicker",
                "recipePicker", "quitConfirm"} \cup Below
      /\ l # "nobody" => Takes(l, k)
  BY Passed
<1>2. Handle(l, k) /\ l # "views"
  BY ViewsAreLate
<1> HIDE DEF l
<1>3. focused \in {"list", "detail", "agentPrompt", "cassModal"} /\ ~On("showRecipePicker")
  BY DEF FilterFocus
<1>4. l \notin {"attention", "recipePicker", "helpKey", "tutorialKey", "help", "tutorial", "timeTravel",
                "boardSearch", "historyInput", "labelPicker", "flowDetail"}
  BY <1>1, <1>3 DEF Takes
<1> USE DEF Becomes, Nothing
<1>5. CASE l = "agentPrompt"
  BY <1>2, <1>5 DEF Handle, AgentPromptKey
<1>6. CASE l = "cassModal"
  BY <1>1, <1>2, <1>6 DEF Handle, Takes, CassModalKey
<1>7. CASE l = "updateModal"
  <2>1. UpdateModalKey(k)
    BY <1>2, <1>7 DEF Handle
  <2> QED
    BY <2>1 DEF UpdateModalKey
<1>8. CASE l = "healthDetail"
  BY <1>2, <1>8 DEF Handle, HealthDetailKey
<1>9. CASE l = "drilldown"
  <2>1. DrilldownKey(k)
    BY <1>2, <1>9 DEF Handle
  <2> QED
    BY <2>1 DEF DrilldownKey
<1>10. CASE l = "alerts"
  <2>1. AlertsKey(k)
    BY <1>2, <1>10 DEF Handle
  <2> QED
    BY <2>1 DEF AlertsKey, IfSelected
<1>11. CASE l = "repoPicker"
  <2>1. RepoPickerKey(k)
    BY <1>2, <1>11 DEF Handle
  <2> QED
    BY <2>1 DEF RepoPickerKey
<1>12. CASE l = "quitConfirm"
  BY <1>2, <1>12 DEF Handle, QuitConfirmKey
<1>13. CASE l = "labelGraph" \/ l = "nobody"
  BY <1>2, <1>13 DEF Handle
<1>14. CASE l \in {"title", "editPicker"}
  <2>1. InputKey(k, "titleEdit") \/ InputKey(k, "showEditPicker")
    <3>1. l = "title" => InputKey(k, "titleEdit")
      BY <1>2 DEF Handle
    <3>2. l = "editPicker" => InputKey(k, "showEditPicker")
      BY <1>2 DEF Handle
    <3> QED
      BY <1>14, <3>1, <3>2
  <2> QED
    BY <2>1 DEF InputKey
<1>15. CASE l = "filterInput"
  <2>1. FilterInputKey(k)
    BY <1>2, <1>15 DEF Handle
  <2> QED
    BY <2>1 DEF FilterInputKey
<1> QED
  BY <1>1, <1>2, <1>4, <1>5, <1>6, <1>7, <1>8, <1>9, <1>10, <1>11, <1>12, <1>13, <1>14, <1>15 DEF Below

\* A key keeps the focus where the filter and the sessions allow it.
LEMMA KeyFilterFocus ==
    ASSUME RInv, FilterFocus, CassFocus, NEW k, KeyMsg(k)
    PROVE  FilterFocus' /\ CassFocus'
<1> DEFINE l == Receiver(k)
<1>1. Handle(l, k) /\ Remember(l)
  BY DEF KeyMsg
<1>2. l # "message" /\ (l = "views" => on \cap Windows = {})
  BY Passed DEF Below
<1>3. "showCassModal" \in on' => On("showCassModal") /\ back'.cass = back.cass
  <2>1. "showCassModal" \in on' => On("showCassModal")
    BY <1>1, KeyEffects DEF Plain, Guarded, Becomes, On
  <2> QED
    BY <1>1, <1>2, <2>1 DEF Remember
<1>4. ASSUME "filtering" \in on', On("filtering") PROVE FilterFocus'
  <2>1. focused' \in {"list", focused} \/ (On("showCassModal") /\ focused' = back.cass)
    BY <1>1, <1>4, FilteredFocus
  <2>2. l # "views"
    BY <1>4, ViewsAreLate
  <2>3. "showRecipePicker" \notin on'
    BY <1>1, <1>4, <2>2, KeyEffects DEF Plain, Guarded, Becomes, On, FilterFocus
  <2> QED
    BY <1>3, <1>4, <2>1, <2>3 DEF FilterFocus, On
<1>5. ASSUME "filtering" \in on', ~On("filtering") PROVE FilterFocus'
  <2>1. ~Unfiltering
    BY <1>5 DEF Unfiltering, On
  <2>2. l = "views"
    BY <1>1, <2>1, Passed, WindowsUnfiltering, InputsUnfiltering DEF Below
  <2>3. focused' = "list" /\ on' \subseteq on \cup {"filtering"}
    BY <1>1, <2>1, <2>2, ViewsFilter DEF Handle
  <2> QED
    BY <1>2, <2>2, <2>3 DEF FilterFocus, On, Windows
<1>6. FilterFocus'
  BY <1>4, <1>5 DEF FilterFocus, On
<1>7. ASSUME "showCassModal" \in on' PROVE focused' \in {"list", focused}
  <2>1. On("showCassModal")
    BY <1>3, <1>7
  <2>2. l \in {"agentPrompt", "cassModal"}
    BY <2>1, SessionsFirst
  <2>3. AgentPromptKey(k) \/ CassModalKey(k)
    BY <1>1, <2>2 DEF Handle
  <2> QED
    BY <1>7, <2>3 DEF AgentPromptKey, CassModalKey, Becomes, Nothing
<1>8. CassFocus'
  BY <1>3, <1>7 DEF CassFocus, On
<1> QED
  BY <1>6, <1>8

\* So does whatever else comes in.
LEMMA MessageFilterFocus ==
    ASSUME RInv, FilterFocus, CassFocus,
           \/ handleLeftClick \/ WindowSizeMsg \/ AgentFileCheckMsg \/ UpdateCompleteMsg
           \/ cassSessionsLoadedMsg \/ comboTickMsg \/ SnapshotReadyMsg \/ HistoryLoadedMsg
    PROVE  FilterFocus' /\ CassFocus'
<1> USE DEF Becomes, Nothing, FilterFocus, CassFocus, On
<1>1. CASE handleLeftClick
  <2>1. focused' \in {"list", "detail"} /\ on' = on /\ back' = back
    BY <1>1 DEF handleLeftClick
  <2> QED
    BY <2>1
<1>2. CASE WindowSizeMsg \/ UpdateCompleteMsg \/ SnapshotReadyMsg \/ HistoryLoadedMsg
  <2>1. /\ focused' = focused /\ back' = back
        /\ on' \subseteq on \cup {"isSplitView", "updateDone", "historyReportIsCurrent"}
    BY <1>2 DEF WindowSizeMsg, UpdateCompleteMsg, SnapshotReadyMsg, HistoryLoadedMsg
  <2> QED
    BY <2>1
<1>3. CASE AgentFileCheckMsg
  BY <1>3 DEF AgentFileCheckMsg
<1>4. CASE cassSessionsLoadedMsg
  <2>1. /\ focused' = "cassModal" /\ on' = on \cup {"showCassModal"}
        /\ focused \in {"list", "detail", "board", "tree", "history"} /\ ~On("showRecipePicker")
        /\ focused = "list" => "filtering" \notin on
    BY <1>4 DEF cassSessionsLoadedMsg, cassLookupIsCurrent, Open, Overlays
  <2>2. back'.cass = focused
    BY <1>4, <2>1 DEF cassSessionsLoadedMsg, Remember
  <2> QED
    BY <2>1, <2>2
<1>5. CASE comboTickMsg
  <2>1. /\ back' = back /\ pendingCombo \in {"board", "tree"}
        /\ \/ focused = pendingCombo /\ focused' = "graph" /\ on' \subseteq on \cup {"isGraphView"}
           \/ focused' = focused /\ on' = on
    BY <1>5 DEF comboTickMsg, RInv, RoutingTypeOK
  <2> QED
    BY <2>1
<1> QED
  BY <1>1, <1>2, <1>3, <1>4, <1>5

-----------------------------------------------------------------------------
(* The countdown: presses of esc, and what is left for esc to do *)

Uncounted == {"showQuitConfirm", "isSplitView"}
Few == Cardinality(on \ Uncounted) <= MaxOn

\* One press for each flag that can be closed, one to leave the view or a graph that is about
\* to open, one to ask and one to quit.
TurnOf(under, combo) == IF under \in Returning \cup ({combo} \ {"none"}) THEN 1 ELSE 0
AskOf(flags) == IF "showQuitConfirm" \in flags THEN 1 ELSE 2
Rank(flags, turn, ask) == Cardinality(flags \cap Closable) + turn + ask

Turn == TurnOf(Under, pendingCombo)
Ask == AskOf(on)
EscRank == Rank(on, Turn, Ask)

Countdown ==
    On("quit") \/ On("updateRunning") \/ Mute \/ escs + EscRank <= MaxOn + 3

\* The flags are finitely many.
LEMMA FlagsFinite == IsFiniteSet(Flags)
<1>1. IsFiniteSet(Pages)
  <2> DEFINE s == <<"isGraphView", "isBoardView", "isActionableView", "isHistoryView">>
  <2>1. s \in Seq(Pages) /\ \A x \in Pages : \E n \in 1 .. Len(s) : s[n] = x
    BY DEF Pages
  <2> QED
    BY <2>1 DEF IsFiniteSet
<1>2. IsFiniteSet(Overlays)
  <2> DEFINE s == <<"showQuitConfirm", "showAgentPrompt", "showCassModal", "showEditPicker",
                    "showUpdateModal", "showLabelHealthDetail", "showLabelGraphAnalysis",
                    "showLabelDrilldown", "showAlertsPanel", "showTimeTravelPrompt",
                    "showRecipePicker", "showRepoPicker", "showLabelPicker", "showHelp",
                    "showTutorial">>
  <2>1. s \in Seq(Overlays) /\ \A x \in Overlays : \E n \in 1 .. Len(s) : s[n] = x
    BY DEF Overlays
  <2> QED
    BY <2>1 DEF IsFiniteSet
<1>3. IsFiniteSet(Modes)
  <2> DEFINE s == <<"titleEdit", "boardSearch", "historySearch", "fileTreeFocus", "fileFilter",
                    "flowDrilldown", "flowDetail", "updateRunning", "updateDone", "filtering",
                    "filterApplied", "currentFilter">>
  <2>1. s \in Seq(Modes) /\ \A x \in Modes : \E n \in 1 .. Len(s) : s[n] = x
    BY DEF Modes
  <2> QED
    BY <2>1 DEF IsFiniteSet
<1>4. IsFiniteSet(Others)
  <2> DEFINE s == <<"isSprintView", "isSplitView", "showDetails", "recipeGraphOwned",
                    "historyReportIsCurrent", "quit">>
  <2>1. s \in Seq(Others) /\ \A x \in Others : \E n \in 1 .. Len(s) : s[n] = x
    BY DEF Others
  <2> QED
    BY <2>1 DEF IsFiniteSet
<1> QED
  BY <1>1, <1>2, <1>3, <1>4, FS_Union DEF Flags

\* What can be closed is among what MaxOn bounds.
LEMMA ClosableCount ==
    ASSUME NEW o \in SUBSET Flags
    PROVE  /\ IsFiniteSet(o \cap Closable) /\ IsFiniteSet(o \ Uncounted)
           /\ Cardinality(o \cap Closable) \in Nat /\ Cardinality(o \ Uncounted) \in Nat
           /\ Cardinality(o \cap Closable) <= Cardinality(o \ Uncounted)
<1>1. IsFiniteSet(o)
  BY FlagsFinite, FS_Subset
<1>2. o \ Uncounted \in SUBSET o /\ o \cap Closable \in SUBSET (o \ Uncounted)
  BY DEF Uncounted, Closable
<1>3. IsFiniteSet(o \ Uncounted)
  BY <1>1, <1>2, FS_Subset
<1>4. IsFiniteSet(o \cap Closable) /\ Cardinality(o \cap Closable) <= Cardinality(o \ Uncounted)
  BY <1>2, <1>3, FS_Subset
<1> QED
  BY <1>3, <1>4, FS_CardinalityType

\* The count falls with every flag closed.
LEMMA CountFalls ==
    ASSUME NEW o \in SUBSET Flags, NEW p \in SUBSET o
    PROVE  /\ Cardinality(p \cap Closable) <= Cardinality(o \cap Closable)
           /\ Cardinality(p \ Uncounted) <= Cardinality(o \ Uncounted)
           /\ (\E f \in Closable : f \in o /\ f \notin p) =>
                 Cardinality(p \cap Closable) + 1 <= Cardinality(o \cap Closable)
<1>1. p \cap Closable \in SUBSET (o \cap Closable) /\ p \ Uncounted \in SUBSET (o \ Uncounted)
      /\ p \in SUBSET Flags
  OBVIOUS
<1>2. /\ IsFiniteSet(o \cap Closable) /\ IsFiniteSet(o \ Uncounted)
      /\ Cardinality(o \cap Closable) \in Nat /\ Cardinality(p \cap Closable) \in Nat
  BY <1>1, ClosableCount
<1>3. /\ Cardinality(p \cap Closable) <= Cardinality(o \cap Closable)
      /\ Cardinality(p \ Uncounted) <= Cardinality(o \ Uncounted)
      /\ Cardinality(o \cap Closable) = Cardinality(p \cap Closable) => o \cap Closable = p \cap Closable
  BY <1>1, <1>2, FS_Subset
<1>4. (\E f \in Closable : f \in o /\ f \notin p) => o \cap Closable # p \cap Closable
  OBVIOUS
<1> QED
  BY <1>2, <1>3, <1>4

\* One more flag counts for one.
LEMMA CountGrows ==
    ASSUME NEW o \in SUBSET Flags, NEW p \in SUBSET Flags, NEW x, p \subseteq o \cup {x}
    PROVE  Cardinality(p \cap Closable) <= Cardinality(o \cap Closable) + 1
<1>1. IsFiniteSet(o \cap Closable) /\ Cardinality(o \cap Closable) \in Nat
  BY ClosableCount
<1>2. /\ IsFiniteSet((o \cap Closable) \cup {x})
      /\ Cardinality((o \cap Closable) \cup {x}) \in {Cardinality(o \cap Closable), Cardinality(o \cap Closable) + 1}
  BY <1>1, FS_AddElement
<1>3. p \cap Closable \in SUBSET ((o \cap Closable) \cup {x})
  OBVIOUS
<1>4. Cardinality(p \cap Closable) <= Cardinality((o \cap Closable) \cup {x})
  BY <1>2, <1>3, FS_Subset
<1>5. Cardinality(p \cap Closable) \in Nat
  BY ClosableCount
<1> QED
  BY <1>1, <1>2, <1>4, <1>5

\* The rank is no more than what MaxOn allows, and not yet zero.
Ranked == EscRank \in Nat \ {0} /\ EscRank <= MaxOn + 3

\* It is so in every state whose open flags MaxOn bounds.
LEMMA RankBounded ==
    ASSUME RInv, Few, MaxOn \in Nat
    PROVE  Ranked
<1>1. on \in SUBSET Flags
  BY DEF RInv, RoutingTypeOK, Flags
<1>2. Cardinality(on \cap Closable) \in Nat /\ Cardinality(on \cap Closable) <= MaxOn
  <2>1. Cardinality(on \cap Closable) <= Cardinality(on \ Uncounted) /\ Cardinality(on \ Uncounted) \in Nat
    BY <1>1, ClosableCount
  <2> QED
    BY <1>1, <2>1, ClosableCount DEF Few
<1>3. Turn \in 0 .. 1 /\ Ask \in 1 .. 2
  BY DEF Turn, Ask, TurnOf, AskOf
<1> QED
  BY <1>2, <1>3 DEF EscRank, Ranked, Rank

\* Esc on the way out lowers the rank.
LEMMA EscLowers ==
    ASSUME RInv, RInv', KeyMsg("esc"), Keeps, Closes \/ Returns \/ Asks
    PROVE  EscRank' + 1 <= EscRank
<1> DEFINE l == Receiver("esc")
<1>1. Handle(l, "esc") /\ Remember(l) /\ Combo(l, "esc")
  BY DEF KeyMsg
<1>2. l \notin {"message", "helpKey"}
  <2>1. l # "helpKey"
    BY Passed DEF Takes
  <2> QED
    BY <2>1, Passed DEF Below
<1>3. pendingCombo' = pendingCombo
  BY <1>1 DEF Combo, Claims
<1>4. /\ "showCassModal" \in on' => back'.cass = back.cass
      /\ "showHelp" \in on' => back'.help = back.help
  BY <1>1, <1>2 DEF Remember
<1>5. /\ On("showCassModal") => back.cass \in {"list", "detail", "board", "tree", "history"}
      /\ focused = "help" => On("showHelp") /\ back.help \in Focus \ {"help"}
      /\ focused' = "help" => "showHelp" \in on'
  BY DEF RInv, Remembered, On
<1>6. pendingCombo \in {"none", "board", "tree"}
  BY DEF RInv, RoutingTypeOK
<1>7. on \in SUBSET Flags /\ on' \in SUBSET Flags
  BY DEF RInv, RoutingTypeOK, Flags
<1>8. /\ Cardinality(on \cap Closable) \in Nat /\ Cardinality(on' \cap Closable) \in Nat
      /\ Turn \in 0 .. 1 /\ Ask \in 1 .. 2 /\ Turn' \in 0 .. 1 /\ Ask' \in 1 .. 2
  <2>1. Cardinality(on \cap Closable) \in Nat /\ Cardinality(on' \cap Closable) \in Nat
    BY <1>7, ClosableCount
  <2> QED
    BY <2>1 DEF Turn, Ask, TurnOf, AskOf
<1>10. ASSUME Under' = "list" PROVE Turn' = 0
  BY <1>3, <1>6, <1>10 DEF Turn, TurnOf, Returning
<1>11. ASSUME Under' = Under PROVE Turn' = Turn
  BY <1>3, <1>11 DEF Turn, TurnOf
<1>12. CASE Closes
  <2>1. Under' \in {"list", Under}
    <3>1. CASE "showCassModal" \in on'
      <4>1. On("showCassModal")
        BY <1>12, <3>1 DEF Closes, On
      <4> QED
        BY <1>4, <3>1, <4>1 DEF Under, On
    <3>2. CASE "showCassModal" \notin on' /\ On("showCassModal")
      <4>1. focused' = back.cass /\ focused' # "help"
        BY <1>5, <1>12, <3>2 DEF Closes, Under
      <4> QED
        BY <3>2, <4>1 DEF Under, On
    <3>3. CASE "showCassModal" \notin on' /\ ~On("showCassModal")
      <4>1. Under # "help"
        BY <1>5, <3>3 DEF Under
      <4>2. focused' \in {"list", focused, Under}
        BY <1>12 DEF Closes
      <4>3. CASE focused' = Under
        BY <3>3, <4>1, <4>3 DEF Under, On
      <4>4. CASE focused' = focused
        BY <1>4, <1>5, <3>3, <4>4 DEF Under, On
      <4>5. CASE focused' = "list"
        BY <3>3, <4>5 DEF Under, On
      <4> QED
        BY <4>2, <4>3, <4>4, <4>5
    <3> QED
      BY <3>1, <3>2, <3>3
  <2>2. Turn' <= Turn
    BY <1>8, <1>10, <1>11, <2>1 DEF Turn
  <2>3. Ask' <= Ask
    BY <1>12 DEF Ask, AskOf, Keeps, On
  <2>4. Cardinality(on' \cap Closable) + 1 <= Cardinality(on \cap Closable)
    BY <1>7, <1>12, CountFalls DEF Closes
  <2> QED
    BY <1>8, <2>2, <2>3, <2>4 DEF EscRank, Rank, Turn, Ask
<1>13. CASE Returns
  <2>1. Under = focused /\ Turn = 1
    BY <1>13 DEF Returns, Under, Turn, TurnOf, Returning
  <2>2. "showCassModal" \notin on' /\ focused' = "list"
    BY <1>13 DEF Returns, On
  <2>3. Turn' = 0
    BY <1>10, <2>2 DEF Under, On
  <2>4. Ask' <= Ask
    BY DEF Ask, AskOf, Keeps, On
  <2>5. Cardinality(on' \cap Closable) <= Cardinality(on \cap Closable)
    BY <1>7, <1>13, CountFalls DEF Returns
  <2> QED
    BY <1>8, <2>1, <2>3, <2>4, <2>5 DEF EscRank, Rank, Turn, Ask
<1>14. CASE Asks
  <2>1. "showCassModal" \notin on' /\ focused' = "quitConfirm" /\ "showQuitConfirm" \in on'
    BY <1>14 DEF Asks, On
  <2>2. Turn' = 0
    BY <1>3, <1>6, <2>1 DEF Turn, TurnOf, Under, On, Returning
  <2>3. Ask' = 1 /\ Ask = 2
    BY <1>14, <2>1 DEF Ask, AskOf, Asks, On
  <2>4. on' \cap Closable = on \cap Closable
    BY <1>14 DEF Asks, Closable
  <2> QED
    BY <1>8, <2>2, <2>3, <2>4 DEF EscRank, Rank, Turn, Ask
<1> QED
  BY <1>12, <1>13, <1>14

\* The countdown under a key.
LEMMA KeyCountdown ==
    ASSUME RInv, RInv', Ranked, Ranked', Countdown, ~On("quit"), NEW k, KeyMsg(k),
           MaxOn \in Nat, MaxEscs \in Nat
    PROVE  Countdown'
<1>0. EscRank' \in Nat /\ escs' \in Nat /\ escs \in Nat /\ EscRank' <= MaxOn + 3
  BY DEF RInv, RoutingTypeOK, Ranked
<1>1. CASE k # "esc"
  <2>1. escs' = 0
    BY <1>1 DEF KeyMsg
  <2>2. escs' + EscRank' <= MaxOn + 3
    BY <1>0, <2>1 DEF EscRank
  <2> QED
    BY <2>2, Zenon DEF Countdown
<1>2. CASE k = "esc"
  <2>1. Handle(Receiver("esc"), "esc") /\ escs' <= escs + 1
    BY <1>0, <1>2 DEF KeyMsg
  <2>2. /\ Keeps
        /\ \/ Closes \/ Returns \/ Asks \/ "quit" \in on'
           \/ On("updateRunning")
           \/ Mute /\ Nothing
    BY <2>1, EscEffect
  <2>3. CASE "quit" \in on'
    BY <2>3 DEF Countdown, On
  <2>4. CASE On("updateRunning")
    BY <2>2, <2>4 DEF Countdown, On, Keeps
  <2>5. CASE Mute /\ Nothing
    BY <2>5 DEF Countdown, Mute, Nothing, On, Takes
  <2>6. Mute => Nothing
    BY <2>1, NobodyIsMute DEF Handle
  <2>7. CASE /\ Closes \/ Returns \/ Asks
             /\ ~Mute /\ ~On("updateRunning")
    <3>1. EscRank' + 1 <= EscRank
      BY <1>2, <2>2, <2>7, EscLowers
    <3>2. escs + EscRank <= MaxOn + 3
      BY <2>7 DEF Countdown
    <3>3. EscRank \in Nat
      BY DEF Ranked
    <3>4. escs' + EscRank' <= MaxOn + 3
      BY <1>0, <2>1, <3>1, <3>2, <3>3 DEF EscRank
    <3> QED
      BY <3>4, Zenon DEF Countdown
  <2> QED
    BY <2>2, <2>3, <2>4, <2>5, <2>6, <2>7
<1> QED
  BY <1>1, <1>2

\* The countdown under whatever else comes in.
LEMMA MessageCountdown ==
    ASSUME RInv, RInv', Ranked, Ranked', Countdown, ~On("quit"), FilterFocus, CassFocus,
           MaxOn \in Nat, MaxEscs \in Nat,
           \/ handleLeftClick \/ WindowSizeMsg \/ AgentFileCheckMsg \/ UpdateCompleteMsg
           \/ cassSessionsLoadedMsg \/ comboTickMsg \/ SnapshotReadyMsg \/ HistoryLoadedMsg
    PROVE  Countdown'
<1>0. /\ EscRank \in Nat /\ EscRank' \in Nat /\ escs \in Nat /\ escs' \in Nat
      /\ EscRank' <= MaxOn + 3
      /\ on \in SUBSET Flags /\ on' \in SUBSET Flags
  BY DEF RInv, RoutingTypeOK, Ranked, Flags
<1>1. CASE \/ handleLeftClick \/ WindowSizeMsg \/ AgentFileCheckMsg \/ UpdateCompleteMsg
           \/ cassSessionsLoadedMsg
  <2>1. escs' = 0
    BY <1>1 DEF handleLeftClick, WindowSizeMsg, AgentFileCheckMsg, UpdateCompleteMsg,
                cassSessionsLoadedMsg
  <2>2. escs' + EscRank' <= MaxOn + 3
    BY <1>0, <2>1 DEF EscRank
  <2> QED
    BY <2>2, Zenon DEF Countdown
<1>2. ASSUME escs' = escs, EscRank' <= EscRank, escs + EscRank <= MaxOn + 3 PROVE Countdown'
  <2>1. escs' + EscRank' <= MaxOn + 3
    BY <1>0, <1>2 DEF EscRank
  <2> QED
    BY <2>1, Zenon DEF Countdown
<1>3. /\ Cardinality(on \cap Closable) \in Nat /\ Cardinality(on' \cap Closable) \in Nat
      /\ Turn \in 0 .. 1 /\ Ask \in 1 .. 2 /\ Turn' \in 0 .. 1 /\ Ask' \in 1 .. 2
  <2>1. Cardinality(on \cap Closable) \in Nat /\ Cardinality(on' \cap Closable) \in Nat
    BY <1>0, ClosableCount
  <2> QED
    BY <2>1 DEF Turn, Ask, TurnOf, AskOf
<1>5. CASE SnapshotReadyMsg \/ HistoryLoadedMsg
  <2>1. /\ UNCHANGED <<focused, back, pendingCombo, escs>>
        /\ on' \subseteq on \cup {"historyReportIsCurrent"}
        /\ on \subseteq on' \cup {"showAlertsPanel", "historyReportIsCurrent", "flowDetail"}
    BY <1>5 DEF SnapshotReadyMsg, HistoryLoadedMsg, Becomes
  <2>2. CASE On("updateRunning")
    BY <2>1, <2>2 DEF Countdown, On
  <2>3. CASE Mute
    <3>1. focused \notin {"board", "history", "flowMatrix", "attention"}
      BY <2>3 DEF Mute, FilterFocus
    <3>2. ASSUME NEW n \in {Layers[i] : i \in 1 .. 24}, Takes(n, "esc")' PROVE Takes(n, "esc")
      <4>1. \A f \in on' : f # "historyReportIsCurrent" => On(f)
        BY <2>1 DEF On
      <4>2. /\ focused' = focused /\ focused' \notin {"board", "history", "flowMatrix", "attention"}
            /\ On("filtering") /\ "filtering" \in on'
        BY <2>1, <2>3, <3>1 DEF Mute, On
      <4>3. CASE n \in {"agentPrompt", "cassModal", "updateModal", "healthDetail", "drilldown", "labelGraph"}
        BY <3>2, <4>1, <4>3 DEF Takes, On
      <4>4. CASE n \in {"attention", "alerts", "repoPicker", "recipePicker", "quitConfirm"}
        BY <3>2, <4>1, <4>2, <4>4 DEF Takes, On
      <4>5. CASE n \in {"helpKey", "tutorialKey", "help", "tutorial", "timeTravel", "title"}
        BY <3>2, <4>1, <4>2, <4>5 DEF Takes, On
      <4>6. CASE n \in {"editPicker", "boardSearch", "historyInput", "labelPicker", "flowDetail"}
        BY <3>2, <4>1, <4>2, <4>6 DEF Takes, On
      <4>7. CASE n \in {"views", "filterInput"}
        BY <3>2, <4>2, <4>7 DEF Takes, On
      <4> QED
        BY <4>3, <4>4, <4>5, <4>6, <4>7, LayerNames
    <3>3. Mute'
      <4>1. \A i \in 1 .. 24 : ~Takes(Layers[i], "esc") => ~Takes(Layers[i], "esc")'
        BY <3>2
      <4>2. "filtering" \in on' /\ focused' # "list"
        BY <2>1, <2>3 DEF Mute, On
      <4> QED
        BY <2>3, <4>1, <4>2 DEF Mute, On
    <3> QED
      BY <3>3 DEF Countdown
  <2>4. CASE escs + EscRank <= MaxOn + 3
    <3>1. Under' = Under
      BY <2>1 DEF Under, On
    <3>2. Turn' = Turn /\ Ask' = Ask
      BY <2>1, <3>1 DEF Turn, TurnOf, Ask, AskOf, On
    <3>3. on' \cap Closable = (on' \cap on) \cap Closable
      BY <2>1 DEF Closable
    <3>4. Cardinality((on' \cap on) \cap Closable) <= Cardinality(on \cap Closable)
      BY <1>0, CountFalls
    <3>5. EscRank' <= EscRank
      BY <1>3, <3>2, <3>3, <3>4 DEF EscRank, Rank, Turn, Ask
    <3> QED
      BY <1>2, <2>1, <2>4, <3>5
  <2> QED
    BY <2>2, <2>3, <2>4 DEF Countdown
<1>6. CASE comboTickMsg
  <2>1. /\ pendingCombo \in {"board", "tree"} /\ pendingCombo' = "none" /\ UNCHANGED <<back, escs>>
        /\ \/ /\ focused = pendingCombo /\ focused' = "graph"
              /\ on' = (on \ Pages) \cup {"isGraphView"}
           \/ focused' = focused /\ on' = on
    BY <1>6 DEF comboTickMsg, Becomes, Nothing, RInv, RoutingTypeOK
  <2>2. CASE On("updateRunning")
    BY <2>1, <2>2 DEF Countdown, On, Pages
  <2>3. CASE Mute
    <3>1. focused' = focused /\ on' = on
      BY <2>1, <2>3 DEF Mute, FilterFocus
    <3>2. Mute'
      BY <2>3, <3>1 DEF Mute, Takes, On
    <3> QED
      BY <3>2 DEF Countdown
  <2>4. CASE escs + EscRank <= MaxOn + 3
    <3>1. CASE focused' = focused /\ on' = on
      <4>1. Under' = Under
        BY <2>1, <3>1 DEF Under, On
      <4>2. Turn' <= Turn /\ Ask' = Ask
        BY <1>3, <2>1, <3>1, <4>1 DEF Turn, TurnOf, Ask, AskOf, On
      <4>3. EscRank' <= EscRank
        BY <1>3, <3>1, <4>2 DEF EscRank, Rank, Turn, Ask
      <4> QED
        BY <1>2, <2>1, <2>4, <4>3
    <3>2. CASE /\ focused = pendingCombo /\ focused' = "graph"
               /\ on' = (on \ Pages) \cup {"isGraphView"}
      <4>1. ~On("showCassModal") /\ "showCassModal" \notin on'
        BY <2>1, <3>2 DEF CassFocus, On
      <4>2. Turn = 1
        BY <2>1, <3>2, <4>1 DEF Turn, TurnOf, Under
      <4>3. Turn' = 0
        BY <2>1, <3>2, <4>1 DEF Turn, TurnOf, Under, On, Returning
      <4>4. Ask' = Ask
        BY <3>2 DEF Ask, AskOf, On, Pages
      <4>5. Cardinality(on' \cap Closable) <= Cardinality(on \cap Closable) + 1
        BY <1>0, <3>2, CountGrows
      <4>6. EscRank' <= EscRank
        BY <1>3, <4>2, <4>3, <4>4, <4>5 DEF EscRank, Rank, Turn, Ask
      <4> QED
        BY <1>2, <2>1, <2>4, <4>6
    <3> QED
      BY <2>1, <3>1, <3>2
  <2> QED
    BY <2>2, <2>3, <2>4 DEF Countdown
<1> QED
  BY <1>1, <1>5, <1>6

\* The countdown holds in every state.
LEMMA CountdownHolds ==
    RoutingSpec => [](RInv /\ FilterFocus /\ CassFocus /\ Few /\ Ranked /\ Countdown)
<1>0. MaxOn \in Nat \ {0} /\ MaxEscs \in Nat \ {0}
  BY RoutingAssumption
<1>1. RoutingInit => FilterFocus /\ CassFocus /\ Few
  <2> SUFFICES ASSUME RoutingInit PROVE FilterFocus /\ CassFocus /\ Few
    OBVIOUS
  <2>1. focused = "list" /\ on \subseteq {"isSplitView"}
    BY DEF RoutingInit
  <2>2. on \ Uncounted = {}
    BY <2>1 DEF Uncounted
  <2> QED
    BY <1>0, <2>1, <2>2, FS_EmptySet DEF FilterFocus, CassFocus, Few, On
<1>2. RInv /\ FilterFocus /\ CassFocus /\ Few /\ [RoutingNext]_routingVars
        => FilterFocus' /\ CassFocus' /\ Few'
  <2> SUFFICES ASSUME RInv, FilterFocus, CassFocus, Few, [RoutingNext]_routingVars
               PROVE  FilterFocus' /\ CassFocus' /\ Few'
    OBVIOUS
  <2>1. CASE UNCHANGED routingVars
    BY <2>1 DEF routingVars, FilterFocus, CassFocus, Few, On
  <2>2. CASE RoutingNext
    <3>1. FilterFocus' /\ CassFocus'
      BY <2>2, KeyFilterFocus, MessageFilterFocus DEF RoutingNext, RoutingStep
    <3>2. CASE on' \subseteq on
      <4>1. on \in SUBSET Flags /\ on' \in SUBSET on /\ on' \in SUBSET Flags
        BY <3>2 DEF RInv, RoutingTypeOK, Flags
      <4>2. /\ Cardinality(on' \ Uncounted) <= Cardinality(on \ Uncounted)
            /\ Cardinality(on' \ Uncounted) \in Nat /\ Cardinality(on \ Uncounted) \in Nat
        BY <4>1, CountFalls, ClosableCount
      <4> QED
        BY <1>0, <3>1, <4>2 DEF Few
    <3>3. CASE Cardinality(on' \ {"showQuitConfirm", "isSplitView"}) <= MaxOn
      BY <3>1, <3>3 DEF Few, Uncounted
    <3> QED
      BY <2>2, <3>2, <3>3 DEF RoutingNext
  <2> QED
    BY <2>1, <2>2
<1>3. RInv /\ Few => Ranked
  BY <1>0, RankBounded
<1>4. RoutingInit /\ Ranked => Countdown
  BY <1>0 DEF RoutingInit, Countdown, Ranked
<1>5. /\ RInv /\ RInv' /\ Ranked /\ Ranked' /\ FilterFocus /\ CassFocus /\ Countdown
      /\ [RoutingNext]_routingVars
      => Countdown'
  <2> SUFFICES ASSUME RInv, RInv', Ranked, Ranked', FilterFocus, CassFocus, Countdown,
                      [RoutingNext]_routingVars
               PROVE  Countdown'
    OBVIOUS
  <2>1. CASE UNCHANGED routingVars
    <3>1. EscRank' = EscRank
      BY <2>1 DEF routingVars, EscRank, Turn, Ask, Under, On
    <3>2. Mute => Mute'
      BY <2>1 DEF routingVars, Mute, Takes, On
    <3> QED
      BY <2>1, <3>1, <3>2 DEF routingVars, Countdown, On
  <2>2. CASE RoutingNext
    BY <1>0, <2>2, KeyCountdown, MessageCountdown DEF RoutingNext, RoutingStep
  <2> QED
    BY <2>1, <2>2
<1> QED
  BY <1>1, <1>2, <1>3, <1>4, <1>5, RoutingInvariant, PTL DEF RoutingSpec

\* Whatever is open and whatever comes in between, one press of esc for each flag and three more
\* lead out of bv (Update), for any number of windows, views and inputs over one another; with the two
\* exceptions that the property names.
THEOREM EscLeadsOutHolds ==
    ASSUME MaxEscs >= MaxOn + 3
    PROVE  RoutingSpec => []EscLeadsOut
<1>1. Ranked /\ Countdown => EscLeadsOut
  <2> SUFFICES ASSUME Ranked, Countdown, escs = MaxEscs, ~On("quit"), ~On("updateRunning")
               PROVE  Deaf
    BY DEF EscLeadsOut, EscAlwaysLeadsOut
  <2>1. ~(escs + EscRank <= MaxOn + 3)
    BY RoutingAssumption DEF Ranked
  <2>2. Mute
    BY <2>1 DEF Countdown
  <2> QED
    BY <2>2, NobodyIsMute DEF Deaf, Mute
<1> QED
  BY <1>1, CountdownHolds, PTL

================================================================================
