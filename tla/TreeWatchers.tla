---------------------------- MODULE TreeWatchers ----------------------------
(***************************************************************************)
(* TreeViewWatcher and TreeWidgetWatcher: after a recorded press on an     *)
(* item of a tree, its expansion is recorded, too.  The trees, their       *)
(* models and their signals are those of the user's application.           *)
(*                                                                         *)
(* disconnectAll is for MouseButtonRelease, which the event filter keeps   *)
(* for itself (user_events_analyzer.cpp:890): it is never called.          *)
(* The operators named ...Bug are mistakes the code does not make.         *)
(***************************************************************************)
EXTENDS Naturals, FiniteSets

CONSTANTS
    TreeViews,
    TreeWidgets,
    Models,         \* the models of the views
    NoView

ASSUME ViewsAssumption == NoView \notin TreeViews /\ TreeViews \cap TreeWidgets = {}

VARIABLES
    alive,          \* the trees that exist
    model,          \* the model of each view
    viewSet,        \* treeViewSet_
    modelToView,    \* modelToView_, NoView where it has no entry
    widgetSet,      \* treeWidgetsSet_
    expandedOf,     \* the trees whose signal expanded is connected
    destroyedOf,    \* how often the signal destroyed of a tree is connected
    aborted,        \* an assertion failed
    misnamed,       \* history: was a command made for the wrong view?
    ownModels       \* history: each view kept a model of its own

watchSets == <<viewSet, modelToView, widgetSet, expandedOf, destroyedOf>>
appVars   == <<alive, model, ownModels>>
watchVars == <<watchSets, appVars, aborted, misnamed>>

Trees == TreeViews \cup TreeWidgets

Distinct(m) == \A v, w \in alive \cap TreeViews : m[v] = m[w] => v = w

WatchTypeOK ==
    /\ alive \subseteq Trees
    /\ model \in [TreeViews -> Models]
    /\ viewSet \subseteq TreeViews
    /\ modelToView \in [Models -> TreeViews \cup {NoView}]
    /\ widgetSet \subseteq TreeWidgets
    /\ expandedOf \subseteq Trees
    /\ destroyedOf \in [Trees -> Nat]
    /\ aborted \in BOOLEAN
    /\ misnamed \in BOOLEAN
    /\ ownModels \in BOOLEAN

WatchInit ==
    /\ alive = Trees
    /\ model \in [TreeViews -> Models]
    /\ viewSet = {}
    /\ modelToView = [m \in Models |-> NoView]
    /\ widgetSet = {}
    /\ expandedOf = {}
    /\ destroyedOf = [t \in Trees |-> 0]
    /\ aborted = FALSE
    /\ misnamed = FALSE
    /\ ownModels = Distinct(model)

Connect(t) ==
    /\ expandedOf' = expandedOf \cup {t}
    /\ destroyedOf' = [destroyedOf EXCEPT ![t] = @ + 1]

\* Mistake: the signal destroyed is connected once for each view.
WatchViewBug(v) ==
    /\ viewSet' = viewSet \cup {v}
    /\ IF v \in viewSet THEN UNCHANGED <<modelToView, expandedOf, destroyedOf>>
       ELSE /\ modelToView' = [modelToView EXCEPT ![model[v]] = v]
            /\ expandedOf' = expandedOf \cup {v}
            /\ destroyedOf' = [destroyedOf EXCEPT ![v] = 1]
    /\ UNCHANGED widgetSet

\* TreeViewWatcher::watch.  A view with an item has a model.
WatchView(v) ==
    /\ viewSet' = viewSet \cup {v}
    /\ IF v \in viewSet THEN UNCHANGED <<modelToView, expandedOf, destroyedOf>>
       ELSE modelToView' = [modelToView EXCEPT ![model[v]] = v] /\ Connect(v)
    /\ UNCHANGED widgetSet

\* TreeWidgetWatcher::watch and the connections after it
WatchWidget(t) ==
    /\ widgetSet' = widgetSet \cup {t}
    /\ IF t \in widgetSet THEN UNCHANGED <<expandedOf, destroyedOf>> ELSE Connect(t)
    /\ UNCHANGED <<viewSet, modelToView>>

\* The analyzers for a recorded press on an item of tree t
Watch(t) ==
    /\ t \in alive
    /\ IF t \in TreeViews THEN WatchView(t) ELSE WatchWidget(t)
    /\ UNCHANGED <<appVars, aborted, misnamed>>

\* treeViewExpanded: the view is looked up by the model of the item.
ViewExpanded(v) ==
    LET tv == modelToView[model[v]]
    IN  \/ /\ tv = NoView \/ tv \notin viewSet      \* the assertions
           /\ aborted' = TRUE
           /\ UNCHANGED <<watchSets, misnamed>>
        \/ /\ tv # NoView /\ tv \in viewSet
           /\ viewSet' = viewSet \ {tv}
           /\ expandedOf' = expandedOf \ {tv}
           /\ misnamed' = (misnamed \/ tv # v)
           /\ UNCHANGED <<modelToView, widgetSet, destroyedOf, aborted>>

\* Mistake: the signal stays connected.
WidgetExpandedBug(t) ==
    \/ /\ t \notin widgetSet
       /\ aborted' = TRUE
       /\ UNCHANGED <<watchSets, misnamed>>
    \/ /\ t \in widgetSet
       /\ widgetSet' = widgetSet \ {t}
       /\ UNCHANGED <<viewSet, modelToView, expandedOf, destroyedOf, aborted, misnamed>>

\* itemExpanded
WidgetExpanded(t) ==
    \/ /\ t \notin widgetSet                        \* the assertion
       /\ aborted' = TRUE
       /\ UNCHANGED <<watchSets, misnamed>>
    \/ /\ t \in widgetSet
       /\ widgetSet' = widgetSet \ {t}
       /\ expandedOf' = expandedOf \ {t}
       /\ UNCHANGED <<viewSet, modelToView, destroyedOf, aborted, misnamed>>

\* An item of t is expanded, by the user or by the application.
Expand(t) ==
    /\ t \in alive \cap expandedOf
    /\ IF t \in TreeViews THEN ViewExpanded(t) ELSE WidgetExpanded(t)
    /\ UNCHANGED appVars

\* treeViewDestroyed is called once for each connection, and each call
\* removes one entry of modelToView_.
ForgetView(v) ==
    LET of == {m \in Models : modelToView[m] = v}
    IN  \E gone \in SUBSET of :
          /\ IF destroyedOf[v] >= Cardinality(of) THEN gone = of
             ELSE Cardinality(gone) = destroyedOf[v]
          /\ modelToView' = [m \in Models |-> IF m \in gone THEN NoView ELSE modelToView[m]]
          /\ viewSet' = IF destroyedOf[v] > 0 THEN viewSet \ {v} ELSE viewSet
          /\ UNCHANGED widgetSet

\* treeWidgetDestroyed
ForgetWidget(t) ==
    /\ widgetSet' = IF destroyedOf[t] > 0 THEN widgetSet \ {t} ELSE widgetSet
    /\ UNCHANGED <<viewSet, modelToView>>

\* ~QObject emits destroyed, and ends all connections.
Destroy(t) ==
    /\ t \in alive
    /\ alive' = alive \ {t}
    /\ IF t \in TreeViews THEN ForgetView(t) ELSE ForgetWidget(t)
    /\ expandedOf' = expandedOf \ {t}
    /\ destroyedOf' = [destroyedOf EXCEPT ![t] = 0]
    /\ UNCHANGED <<model, ownModels, aborted, misnamed>>

\* setModel of the application
SetModel(v, m) ==
    /\ v \in alive
    /\ m # model[v]
    /\ model' = [model EXCEPT ![v] = m]
    /\ ownModels' = FALSE
    /\ UNCHANGED <<watchSets, alive, aborted, misnamed>>

-----------------------------------------------------------------------------

\* The watchers keep bare pointers: all of them are to trees that exist,
\* though a view may be in modelToView_ under several models.
NoDangling ==
    /\ viewSet \cup widgetSet \subseteq alive
    /\ \A m \in Models : modelToView[m] # NoView => modelToView[m] \in alive

\* With a model of its own for each view, the assertions hold and commands
\* name the view that was expanded.
OwnModelsSuffice == ownModels => ~aborted /\ ~misnamed

\* The assertions of treeViewExpanded and itemExpanded
AssertionsHold == ~aborted
=============================================================================
