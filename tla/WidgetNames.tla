---------------------------- MODULE WidgetNames ----------------------------
(***************************************************************************)
(* The objects of the user application, the names the recorder gives its   *)
(* widgets (fullQtWidgetId) and the way a script finds them again          *)
(* (doGetWidgetWithSuchName).                                              *)
(*                                                                         *)
(* The recorder joins the names on the line to a widget with dots, and the *)
(* script splits the text at each dot.  A text is modelled by the pieces   *)
(* that it splits into, so that joining is concatenation, and a name with  *)
(* a dot in it is several pieces.  A piece is plain, or it is what the     *)
(* recorder writes for an object without a name, with class and number.    *)
(*                                                                         *)
(* An object is a widget or, by its class, something else.  A widget is    *)
(* usable when it is visible and enabled.  The order of QApplication's     *)
(* lists of widgets, and which of several objects findChildren returns     *)
(* first, is left open: a look-up has a set of outcomes, with Null for     *)
(* "not found" and Fault for an assertion that fails or a null pointer.    *)
(* The operators named ...Bug are mistakes the code does not make.         *)
(***************************************************************************)
EXTENDS Naturals, Sequences, FiniteSets

CONSTANTS
    Scenes,         \* user applications: their objects, and bounds for each
    OtherClasses    \* the classes of the objects that are no widgets

NoText == ""

Plain(text) == [name |-> text, class |-> NoText, order |-> 0]
OfClass(class, order) == [name |-> NoText, class |-> class, order |-> order]

\* The text of an empty object name splits into one piece, which is empty.
NoName == <<Plain(NoText)>>

\* Every class has a name.  An object has a higher number than its parent, and
\* the parent of a widget is a widget.  The objects that are no widgets and
\* have no parent here are the children of the QCoreApplication.
ASSUME ScenesAssumption ==
    \A s \in Scenes :
        /\ s.class \in Seq(STRING \ {NoText})
        /\ s.parent \in [1..Len(s.class) -> Nat]
        /\ \A i \in 1..Len(s.class) : s.parent[i] < i
        /\ \A i \in 1..Len(s.class) :
              s.class[i] \notin OtherClasses /\ s.parent[i] # 0
                => s.class[s.parent[i]] \notin OtherClasses
        /\ \A i \in 1..Len(s.class) :
              /\ s.name[i] \in Seq([name : STRING, class : STRING, order : Nat]) \ {<<>>}
              /\ \A k \in DOMAIN s.name[i] :
                    s.name[i][k].class = NoText => s.name[i][k].order = 0
        /\ s.changes \in Nat /\ s.commands \in Nat

VARIABLES
    scene,      \* parent, class, name and items of the objects 1, 2, ...; bounds:
                \* allShown, changes, and those for scripts (ScriptPlayer)
    alive,      \* those not destroyed
    shown,      \* the widgets shown and enabled themselves
    place,      \* the order of siblings in the list of their parent
    changes     \* history: how many things have happened to them

treeVars == <<scene, alive, shown, place, changes>>

Null    == 0
Fault   == Len(scene.class) + 1
Objects == 1..Len(scene.class)

Class(i)  == scene.class[i]
Name(i)   == scene.name[i]
Parent(i) == scene.parent[i]

Widgets == {i \in Objects : Class(i) \notin OtherClasses}

IsWindow(i) == Parent(i) = Null \/ Class(i) = "QDialog"

\* isVisible() && isEnabled()
Usable[i \in Objects] ==
    i \in alive \cap shown /\ (IsWindow(i) \/ Usable[Parent(i)])

\* The object, its parent and so on, the outermost first
Line[i \in Objects] ==
    IF Parent(i) = Null THEN <<i>> ELSE Append(Line[Parent(i)], i)

\* QApplication::topLevelWidgets
Windows == {t \in alive \cap Widgets : IsWindow(t)}

Within(t) == {i \in alive \ {t} : \E k \in DOMAIN Line[i] : Line[i][k] = t}

EarlierSiblings(i) ==
    {c \in alive : Parent(c) = Parent(i) /\ place[c] < place[i]}

-----------------------------------------------------------------------------
(* The name of a widget: the names of the objects on the line to it *)

\* Mistake: siblings are numbered whatever their class.
NumAmongOthersWithTheSameClassBug(i) ==
    IF Parent(i) = Null THEN 0 ELSE Cardinality(EarlierSiblings(i))

NumAmongOthersWithTheSameClass(i) ==
    IF Parent(i) = Null THEN 0
    ELSE Cardinality({c \in EarlierSiblings(i) : Class(c) = Class(i)})

QtObjectId(i) ==
    IF Name(i) # NoName THEN Name(i)
    ELSE <<OfClass(Class(i), NumAmongOthersWithTheSameClass(i))>>

FullId[i \in Objects] ==
    IF Parent(i) = Null THEN QtObjectId(i) ELSE FullId[Parent(i)] \o QtObjectId(i)

FullQtWidgetId(i) == FullId[i]

-----------------------------------------------------------------------------
(* Looking a name up *)

\* Does the element el of a name stand for the object?
Stands(el, c) ==
    \/ el.class # NoText /\ Class(c) = el.class
    \/ Name(c) = <<el>>

OrNull(S) == IF S = {} THEN {Null} ELSE S

BruteForceWidgetSearch(el, shouldBeEnabled) ==
    OrNull({c \in alive \cap Widgets : Stands(el, c) /\ (shouldBeEnabled => Usable[c])})

\* What QCoreApplication's findChildren finds, or else a window of that name,
\* or an object inside one that has not got it
NamedOutermost(el) ==
    LET Named == {i \in alive : Name(i) = <<el>>}
        OfApp == {i \in Named : Line[i][1] \notin Widgets}
    IN  IF OfApp # {} THEN OfApp
        ELSE (Named \cap Windows)
                \cup {i \in Named : \E t \in Windows \ Named : i \in Within(t)}

\* The first element: the whole of <class_name=C,N> is not the name of a class.
FindOutermost(el, shouldBeEnabled) ==
    IF NamedOutermost(el) # {}
    THEN {IF i \in Widgets THEN i ELSE Fault : i \in NamedOutermost(el)}
    ELSE IF el.order # 0 THEN {Null}
    ELSE BruteForceWidgetSearch(el, shouldBeEnabled)

\* The children that el stands for and that are counted, and the order-th of them
Candidates(w, el, shouldBeEnabled) ==
    {c \in alive : Parent(c) = w /\ Stands(el, c) /\ (shouldBeEnabled => Usable[c])}

ChosenChild(w, el, shouldBeEnabled) ==
    {c \in Candidates(w, el, shouldBeEnabled) :
        Cardinality(EarlierSiblings(c) \cap Candidates(w, el, shouldBeEnabled)) = el.order}

\* The children that el stands for although they are no widgets, up to the
\* chosen one: isVisible is called on a null pointer.
NullCasts(w, el) ==
    {c \in alive \ Widgets :
        /\ Parent(c) = w /\ Stands(el, c)
        /\ \A chosen \in ChosenChild(w, el, TRUE) : c \in EarlierSiblings(chosen)}

FindBelow(w, el, shouldBeEnabled) ==
    IF shouldBeEnabled /\ NullCasts(w, el) # {} THEN {Fault}
    ELSE IF ChosenChild(w, el, shouldBeEnabled) # {}
    THEN ChosenChild(w, el, shouldBeEnabled)
    ELSE BruteForceWidgetSearch(el, shouldBeEnabled)

\* A chosen child that is no widget is a null pointer, used for the next element.
FindNext(found, el, shouldBeEnabled) ==
    UNION {CASE w = Null                  -> {Null}
             [] w \in Widgets             -> FindBelow(w, el, shouldBeEnabled)
             [] w # Null /\ w \notin Widgets -> {Fault} : w \in found}

DoGetWidgetWithSuchName(names, shouldBeEnabled) ==
    LET found[k \in DOMAIN names] ==
            IF k = 1 THEN FindOutermost(names[1], shouldBeEnabled)
            ELSE FindNext(found[k - 1], names[k], shouldBeEnabled)
    IN  {IF w \in Objects \ Widgets THEN Null ELSE w : w \in found[Len(names)]}

-----------------------------------------------------------------------------
(* What the application does to its objects *)

TreeTypeOK ==
    /\ scene \in Scenes
    /\ alive \subseteq Objects
    /\ shown \subseteq Widgets
    /\ place \in [Objects -> Nat]
    /\ changes \in 0..scene.changes

TreeInit ==
    /\ scene \in Scenes
    /\ alive = Objects
    /\ shown \in {S \in SUBSET Widgets : scene.allShown => S = Widgets}
    /\ place = [i \in Objects |-> i]
    /\ changes = 0

Change == changes < scene.changes /\ changes' = changes + 1

ShowOrHide(i) ==
    /\ Change
    /\ i \in alive \cap Widgets
    /\ shown' = IF i \in shown THEN shown \ {i} ELSE shown \cup {i}
    /\ UNCHANGED <<scene, alive, place>>

Destroy(i) ==
    /\ Change
    /\ i \in alive
    /\ alive' = alive \ ({i} \cup Within(i))
    /\ UNCHANGED <<scene, shown, place>>

\* QWidget::raise puts the widget behind its siblings in the list.
Raise(i) ==
    /\ Change
    /\ i \in alive \cap Widgets
    /\ \E c \in alive : Parent(c) = Parent(i) /\ place[c] > place[i]
    /\ place' = [place EXCEPT ![i] = Len(scene.class) + changes + 1]
    /\ UNCHANGED <<scene, alive, shown>>

AppStep == \E i \in Objects : ShowOrHide(i) \/ Destroy(i) \/ Raise(i)

-----------------------------------------------------------------------------
(* Why a name may lead to another widget *)

\* A dot in the name, or a name that looks like that of an object without one
ReadsOtherwise(i) ==
    Name(i) # NoName /\ (Len(Name(i)) # 1 \/ Name(i)[1].class # NoText)

\* Only usable widgets are counted in a look-up, but all objects in the name.
OrderShifted(i) ==
    Name(i) = NoName /\ \E c \in EarlierSiblings(i) : Class(c) = Class(i) /\ ~Usable[c]

\* A sibling comes first that has the same name.
NameTaken(i) ==
    \E c \in EarlierSiblings(i) : Name(c) = QtObjectId(i) /\ (Usable[c] \/ c \notin Widgets)

\* The outermost widget is known by its name or, without one, its class alone.
OutermostTaken(i) ==
    \/ \E c \in alive \ {i} :
          /\ Name(c) = QtObjectId(i)
          /\ \/ c \in Windows \/ Line[c][1] \notin Widgets
             \/ \E t \in Windows : Name(t) # QtObjectId(i) /\ c \in Within(t)
    \/ /\ Name(i) = NoName
       /\ \E c \in alive \ {i} : Stands(QtObjectId(i)[1], c) /\ Usable[c]

Misleading(i) ==
    \/ ReadsOtherwise(i)
    \/ Parent(i) = Null /\ (OutermostTaken(i) \/ (Name(i) = NoName /\ ~Usable[i]))
    \/ Parent(i) # Null /\ (OrderShifted(i) \/ NameTaken(i) \/ ~Usable[i])

\* The name recorded for a widget that the user can click on leads a script to
\* this widget, as long as the application is as it was; or a widget on the
\* line to it is hidden, or has a dot in its name, or has the name of an earlier
\* sibling, or an earlier sibling of its class that is hidden, or the outermost
\* one is not the only object that its element stands for (fullQtWidgetId against
\* doGetWidgetWithSuchName).
NameLeadsBack ==
    \A i \in Objects :
        Usable[i] =>
            \/ DoGetWidgetWithSuchName(FullQtWidgetId(i), TRUE) = {i}
            \/ \E k \in DOMAIN Line[i] : Misleading(Line[i][k])
=============================================================================
