---------------------------- MODULE ItemCommands ----------------------------
(***************************************************************************)
(* The command that UserEventsAnalyzer records for a click, an expansion   *)
(* or a key, and what ScriptAPI does for this command.                     *)
(*                                                                         *)
(* A widget has items: the rows of a view, the actions of a menu, the tabs *)
(* of a tab bar, the windows of a workspace; a button has its text as its  *)
(* only item.  What does not bear on the choice of widget, item, button    *)
(* and kind of click (geometry, scrolling) is left out; rows are taken to  *)
(* be of one height, and the first one to be visible.                      *)
(* The operators named ...Bug are mistakes the code does not make.         *)
(***************************************************************************)
EXTENDS WidgetNames

CONSTANTS
    Prefix,     \* pairs of texts: the second one starts with the first
    Part,       \* pairs of texts: the second one contains the first
    Special,    \* what ends a literal with this text: "quote" and "newline", and
                \* "end" for a backslash that takes the closing quote's meaning
    Literal,    \* the text that the script engine reads in a literal with this
                \* text: another one when there are backslashes in it
    Keys        \* the texts of the keys (QKeySequence), known and of one key each

ASSUME LiteralAssumption == Literal[NoText] = NoText

\* An item has a higher number than the one it is under, and a cell of its own.
ASSUME ItemsAssumption ==
    \A s \in Scenes : \A w \in 1..Len(s.class) :
        /\ s.items[w] \in Seq([text : STRING, caption : STRING,
                               under : Nat, column : Nat, row : Nat])
        /\ \A k \in DOMAIN s.items[w] : s.items[w][k].under < k
        /\ \A k, n \in DOMAIN s.items[w] :
              /\ s.items[w][k].under = s.items[w][n].under
              /\ s.items[w][k].column = s.items[w][n].column
              /\ s.items[w][k].row = s.items[w][n].row
              => k = n

\* scene.items[i]: the items of widget i, each with its text, the caption of
\* the widget on it, the item it is under (0 for none), its column and row
Items(w) == DOMAIN scene.items[w]
Item(w, k) == scene.items[w][k]

Super == {<<"QTreeWidget", "QTreeView">>, <<"QListWidget", "QListView">>}
Views == {"QTreeWidget", "QTreeView", "QListWidget", "QListView", "QTableView"}
Inherits(w, class) == Class(w) = class \/ <<Class(w), class>> \in Super

\* Mistake: the outermost index comes last.
ModelIndexToPosBug(w, k) ==
    LET pos[n \in Items(w)] ==
            <<Item(w, n).column, Item(w, n).row>>
                \o (IF Item(w, n).under = 0 THEN <<>> ELSE pos[Item(w, n).under])
    IN  pos[k]

\* Columns and rows, those of the outermost index first
ModelIndexToPos(w, k) ==
    LET pos[n \in Items(w)] ==
            (IF Item(w, n).under = 0 THEN <<>> ELSE pos[Item(w, n).under])
                \o <<Item(w, n).column, Item(w, n).row>>
    IN  pos[k]

\* The item that a list of columns and rows leads to, {} for an invalid index
PosToModelIndex(w, pos) ==
    LET index[n \in 0..(Len(pos) \div 2)] ==
            IF n = 0 THEN {0}
            ELSE {k \in Items(w) : /\ Item(w, k).under \in index[n - 1]
                                   /\ Item(w, k).column = pos[2 * n - 1]
                                   /\ Item(w, k).row = pos[2 * n]}
    IN  index[Len(pos) \div 2] \ {0}

-----------------------------------------------------------------------------
(* Recording.  An event: the widget, its item (0 for none), press,         *)
(* dblclick, expand or key, the mouse button, and key and modifiers.       *)

\* A name is put into the script between quotes as it is; a backslash at the end
\* of a piece but the last one takes the meaning of a dot only.
NameParses(names) ==
    \A k \in DOMAIN names :
        Special[names[k].name] \subseteq (IF k < Len(names) THEN {"end"} ELSE {})

\* What the script engine reads (an escape that stands for a dot is left out)
NamesRead(names) == [k \in DOMAIN names |-> [names[k] EXCEPT !.name = Literal[@]]]

Call(fun, names) ==
    [fun |-> fun, names |-> names, text |-> NoText, parses |-> NameParses(names),
     pos |-> <<>>, at |-> 0, button |-> "left", keys |-> <<>>]

Command(fun, w) == Call(fun, FullQtWidgetId(w))

\* So is a text, but for what is escaped.
WithText(cmd, text, escaped) ==
    [cmd EXCEPT !.text = text, !.parses = @ /\ Special[text] \subseteq escaped]

TextOf(e) == Item(e.on, e.item).text

QMenuActivateClick(e) ==
    IF Class(e.on) # "QMenu" \/ e.item = 0 THEN {}
    ELSE {WithText(Command(IF Name(e.on) # NoName THEN "activateItem" ELSE "activateMenuItem", e.on),
                   TextOf(e), {})}

QTreeWidgetActivateClick(e) ==
    IF Class(e.on) # "QTreeWidget" \/ e.item = 0 \/ TextOf(e) = NoText THEN {}
    ELSE {WithText(Command(IF e.kind = "dblclick" THEN "doubleClickItem" ELSE "activateItem", e.on),
                   TextOf(e), {"newline"})}

\* The box itself has no item under the cursor, its list has.
QComboBoxActivateClick(e) ==
    IF Class(e.on) # "QComboBox" \/ e.item = 0 THEN {}
    ELSE {WithText(Command("activateItem", e.on), TextOf(e), {})}

\* The position in the widget that was clicked is taken for one in the list:
\* for the widget on an item this is in the first row.
QListWidgetActivateClick(e) ==
    IF Class(e.on) # "QListWidget" \/ e.item = 0 THEN {}
    ELSE LET k    == IF Item(e.on, e.item).caption = NoText THEN e.item ELSE 1
             text == IF Item(e.on, k).text # NoText THEN Item(e.on, k).text
                     ELSE Item(e.on, k).caption
         IN  IF text = NoText THEN {} ELSE {WithText(Command("activateItem", e.on), text, {})}

QTabBarActivateClick(e) ==
    IF Class(e.on) # "QTabBar" \/ e.item = 0 THEN {}
    ELSE {WithText(Command("activateItem", e.on), TextOf(e), {})}

InView(e) ==
    [Command(IF e.kind = "dblclick" THEN "doubleClickOnItemInView" ELSE "activateItemInView", e.on)
        EXCEPT !.pos = ModelIndexToPos(e.on, e.item)]

QTreeViewActivateClick(e) ==
    IF ~Inherits(e.on, "QTreeView") \/ e.item = 0 THEN {} ELSE {InView(e)}

\* Not for the widget on an item, whose parent is not the list
QListViewActivateClick(e) ==
    IF \/ ~Inherits(e.on, "QListView") \/ e.item = 0
       \/ TextOf(e) = NoText \/ Item(e.on, e.item).caption # NoText
    THEN {}
    ELSE {WithText(Command("activateItem", e.on), TextOf(e), {"newline", "quote"})}

QTableViewActivateClick(e) ==
    IF Class(e.on) # "QTableView" \/ e.item = 0 THEN {} ELSE {InView(e)}

WorkspaceTitleBarPressed(e) ==
    IF Class(e.on) # "QWorkspace" \/ e.item = 0 \/ e.kind # "press" \/ e.button # "left" THEN {}
    ELSE {WithText(Command("chooseWindowWithTitle", e.on), TextOf(e), {})}

ClickOnUnnamedButton(e) ==
    IF \/ Class(e.on) # "QPushButton" \/ e.kind # "press" \/ e.button # "left"
       \/ Name(e.on) # NoName \/ TextOf(e) = NoText \/ Parent(e.on) = Null
    THEN {}
    ELSE {WithText(Command("pressButtonWithText", Parent(e.on)), TextOf(e), {"newline"})}

MouseEventToJavaScript(e) ==
    [Command(IF e.kind = "dblclick" THEN "mouseDClick" ELSE "mouseClick", e.on)
        EXCEPT !.at = e.item, !.button = e.button]

Answers(e) ==
    <<QMenuActivateClick(e), QTreeWidgetActivateClick(e), QComboBoxActivateClick(e),
      QListWidgetActivateClick(e), QTabBarActivateClick(e), QTreeViewActivateClick(e),
      QListViewActivateClick(e), QTableViewActivateClick(e),
      WorkspaceTitleBarPressed(e), ClickOnUnnamedButton(e), {MouseEventToJavaScript(e)}>>

\* callCustomEventAnalyzers: the first answer counts.  (For an unnamed widget the
\* recorder may add a line with another variant, which is a comment.)
FirstOf(answers) ==
    answers[CHOOSE n \in DOMAIN answers :
                answers[n] # {} /\ \A m \in 1..(n - 1) : answers[m] = {}]

MouseCommand(e) == FirstOf(Answers(e))

\* TreeWidgetWatcher::itemExpanded, TreeViewWatcher::treeViewExpanded
ExpandCommand(e) ==
    {IF Class(e.on) = "QTreeWidget"
     THEN WithText(Command("expandItemInTree", e.on), TextOf(e), {})
     ELSE [Command("expandItemInTreeView", e.on) EXCEPT !.pos = ModelIndexToPos(e.on, e.item)]}

\* The modifiers in a fixed order and the key after them.  A sequence has at
\* most four: with four modifiers it is made from the text of the event, which
\* has none of them in it and is taken to be empty.  An unknown key has no text.
KeyReleaseEventToScript(e) ==
    LET held(k) == IF k \in e.modifiers THEN <<k>> ELSE <<>>
        order   == held("Shift") \o held("Alt") \o held("Control") \o held("Meta")
        keys    == CASE Len(order) = 4 -> <<>>
                     [] Len(order) # 4 /\ e.key = "unknown" -> order
                     [] OTHER -> Append(order, e.key)
    IN  IF e.key = "0" THEN {}
        ELSE {[Command("keyClick", e.on) EXCEPT
                  !.keys = keys,
                  !.parses = @ /\ \A n \in DOMAIN keys : Special[keys[n]] = {}]}

Recorded(e) ==
    CASE e.kind = "expand" -> ExpandCommand(e)
      [] e.kind = "key"    -> KeyReleaseEventToScript(e)
      [] OTHER             -> MouseCommand(e)

-----------------------------------------------------------------------------
(* Replaying: what a command does when w was found for it, {} for an error *)
(* and for nothing at all.                                                 *)

Happening(kind, w, k) ==
    {[on |-> w, item |-> k, kind |-> kind, button |-> "left", key |-> "0", modifiers |-> {}]}

OnFirst(kind, w, found) ==
    IF found = {} THEN {}
    ELSE Happening(kind, w, CHOOSE k \in found : \A n \in found : k <= n)

Exactly(w, text) == {k \in Items(w) : Item(w, k).text = text}
StartsWith(w, text) == {k \in Items(w) : Item(w, k).text = text \/ <<text, Item(w, k).text>> \in Prefix}

FindItemInQListWidgetThatMatch(w, text) ==
    IF Exactly(w, text) # {} THEN Exactly(w, text)
    ELSE {k \in Items(w) : /\ Item(w, k).caption # NoText
                           /\ \/ Item(w, k).caption = text
                              \/ <<text, Item(w, k).caption>> \in Part}

\* In a tree an item may only start with the text (Qt::MatchStartsWith).
ActivateItemInGuiThread(w, text) ==
    CASE Class(w) \in {"QMenu", "QComboBox", "QTabBar", "QListView"} ->
            OnFirst("press", w, Exactly(w, text))
      [] Class(w) = "QTreeWidget" -> OnFirst("press", w, StartsWith(w, text))
      [] Class(w) = "QListWidget" -> OnFirst("press", w, FindItemInQListWidgetThatMatch(w, text))
      [] OTHER -> {}

\* For an invalid index this is a click at the upper left corner of the view, on
\* its first item.
ClickOnItemInGuiThread(w, pos) ==
    LET first == {k \in Items(w) : Item(w, k).under = 0 /\ Item(w, k).column = 0 /\ Item(w, k).row = 0}
        found == PosToModelIndex(w, pos)
    IN  IF Class(w) \notin Views THEN {}
        ELSE IF found = {} /\ first = {} THEN Happening("press", w, 0)
        ELSE OnFirst("press", w, IF found = {} THEN first ELSE found)

ExpandItemInTree(w, text) ==
    IF Class(w) # "QTreeWidget" THEN {} ELSE OnFirst("expand", w, StartsWith(w, text))

ExpandItemInTreeView(w, pos) ==
    IF ~Inherits(w, "QTreeView") THEN {} ELSE OnFirst("expand", w, PosToModelIndex(w, pos))

ChooseWindowWithTitle(w, text) ==
    IF Class(w) # "QWorkspace" THEN {} ELSE OnFirst("press", w, Exactly(w, text))

\* The first button with the text, whether it can be clicked or not
PressButtonWithText(w, text) ==
    LET buttons == {b \in alive : Parent(b) = w /\ Class(b) = "QPushButton" /\ Item(b, 1).text = text}
    IN  IF buttons = {} THEN {}
        ELSE Happening("press", CHOOSE b \in buttons : \A o \in buttons : place[b] <= place[o], 1)

\* Mistake: a double click is emulated as a click.
EmulateMouseBtnEventInGuiThreadBug(w, cmd) == Happening("press", w, cmd.at)

\* stringToMouseButton knows the buttons by name, but for the "other" ones.
EmulateMouseBtnEventInGuiThread(w, cmd) ==
    IF cmd.button = "other" THEN {}
    ELSE {[on |-> w, item |-> cmd.at, kind |-> IF cmd.fun = "mouseDClick" THEN "dblclick" ELSE "press",
           button |-> cmd.button, key |-> "0", modifiers |-> {}]}

\* The last of the keys is the key, the others are modifiers; none is an error.
KeyClick(w, keys) ==
    IF keys = <<>> THEN {}
    ELSE {[on |-> w, item |-> 0, kind |-> "key", button |-> "left", key |-> keys[Len(keys)],
           modifiers |-> {keys[n] : n \in 1..(Len(keys) - 1)}]}

\* A function that is not one of ScriptAPI's slots ends the script.
Performed(cmd, w) ==
    CASE cmd.fun = "activateItem"          -> ActivateItemInGuiThread(w, Literal[cmd.text])
      [] cmd.fun = "activateItemInView"    -> ClickOnItemInGuiThread(w, cmd.pos)
      [] cmd.fun = "expandItemInTree"      -> ExpandItemInTree(w, Literal[cmd.text])
      [] cmd.fun = "expandItemInTreeView"  -> ExpandItemInTreeView(w, cmd.pos)
      [] cmd.fun = "chooseWindowWithTitle" -> ChooseWindowWithTitle(w, Literal[cmd.text])
      [] cmd.fun = "pressButtonWithText"   -> PressButtonWithText(w, Literal[cmd.text])
      [] cmd.fun \in {"mouseClick", "mouseDClick"} -> EmulateMouseBtnEventInGuiThread(w, cmd)
      [] cmd.fun = "keyClick"              -> KeyClick(w, cmd.keys)
      [] OTHER                             -> {}

-----------------------------------------------------------------------------
(* What the user can do, and why a script may do something else *)

Mouse(w) ==
    [on : {w}, item : {0} \cup Items(w), kind : {"press", "dblclick"},
     button : {"left", "right", "other"}, key : {"0"}, modifiers : {{}}]

Expansion(w) ==
    IF ~Inherits(w, "QTreeView") THEN {}
    ELSE [on : {w}, item : Items(w), kind : {"expand"}, button : {"left"}, key : {"0"},
          modifiers : {{}}]

Keyboard(w) ==
    [on : {w}, item : {0}, kind : {"key"}, button : {"left"}, key : Keys \cup {"0", "unknown"},
     modifiers : SUBSET {"Shift", "Alt", "Control", "Meta"}]

Happenings(w) ==
    {e \in Mouse(w) : Class(w) = "QPushButton" => e.item = 1} \cup Expansion(w) \cup Keyboard(w)

\* The widget that the command names
Target(e, cmd) == IF cmd.fun = "pressButtonWithText" THEN Parent(e.on) ELSE e.on

TextFunctions == {"activateItem", "expandItemInTree", "chooseWindowWithTitle", "pressButtonWithText"}
ItemFunctions == {"activateItem", "activateMenuItem", "doubleClickItem", "activateItemInView",
                  "doubleClickOnItemInView"}

\* Commands for items know the left button and the single click only; in an
\* unnamed menu they are not in ScriptAPI at all.
Simplified(e, cmd) ==
    /\ cmd.fun \in ItemFunctions
    /\ e.kind = "dblclick" \/ e.button # "left" \/ cmd.fun = "activateMenuItem"

\* Another item of the widget comes first that the text may stand for.
TextTaken(e, cmd) ==
    LET w == e.on
        k == IF cmd.fun = "pressButtonWithText" THEN 1 ELSE e.item
    IN  /\ cmd.fun \in TextFunctions
        /\ \/ \E n \in 1..(k - 1) : Item(w, n).text = cmd.text
           \/ /\ Class(w) = "QTreeWidget"
              /\ \E n \in 1..(k - 1) : <<cmd.text, Item(w, n).text>> \in Prefix
           \/ /\ Class(w) = "QListWidget" /\ Item(w, k).caption # NoText
              /\ k # 1 \/ \E n \in Items(w) \ {1} : Item(w, k).text = NoText /\ Item(w, n).text = cmd.text
           \/ /\ Class(w) = "QPushButton"
              /\ \E b \in EarlierSiblings(w) : /\ Class(b) = "QPushButton"
                                               /\ Item(b, 1).text = cmd.text

KeysLost(e) ==
    /\ e.kind = "key"
    /\ e.key \in {"0", "unknown"} \/ Cardinality(e.modifiers) = 4

\* A backslash in the literal makes the script engine read something else.
Garbled(cmd) == NamesRead(cmd.names) # cmd.names \/ Literal[cmd.text] # cmd.text

MisreadAs(e, cmd) ==
    \/ KeysLost(e)
    \/ e.button = "other"
    \/ ~cmd.parses \/ Garbled(cmd) \/ Simplified(e, cmd) \/ TextTaken(e, cmd)

Misread(e) == KeysLost(e) \/ \E cmd \in Recorded(e) : MisreadAs(e, cmd)

Repeats(e) ==
    \E cmd \in Recorded(e) :
        /\ cmd.parses /\ NamesRead(cmd.names) = cmd.names
        /\ Performed(cmd, Target(e, cmd)) = {e}

\* The command recorded for what the user does repeats it, as long as the
\* application is as it was, unless the text, a name or the key is not escaped,
\* so that the script does not parse or reads something else; or it is a double
\* click or one of another button on an item, or in an unnamed menu; or the
\* button has no name, or another item comes first; or the key is not known or
\* held with four modifiers.  And then it does not repeat it (but in a list with
\* widgets on its items two mistakes may make it right, and in a tree the
\* beginning of a text may be enough).  The analyzers and keyReleaseEventToScript
\* against the slots of ScriptAPI.
CommandLeadsBack ==
    \A w \in Objects : Usable[w] => \A e \in Happenings(w) :
        IF Misread(e)
        THEN \/ ~Repeats(e) \/ Class(w) = "QListWidget"
             \/ Class(w) = "QTreeWidget" /\ \E cmd \in Recorded(e) : Garbled(cmd)
        ELSE Repeats(e)
=============================================================================
