------------------------------ MODULE MCReplay ------------------------------
(***************************************************************************)
(* Applications for ScriptPlayer: small trees of objects; all kinds of     *)
(* widgets with items; and a few to run scripts on while they change.      *)
(***************************************************************************)
EXTENDS ScriptPlayer

\* "a\c" and "\" have a backslash in them, "quote" and "newline" what they say.
Texts == {"", "a", "b", "ab", "ac", "a\\c", "\\", "quote", "newline"}

MCKeys    == {"A", "quote"}
Modifiers == {"Shift", "Alt", "Control", "Meta"}

MCPrefix  == {<<"a", "ab">>, <<"a", "ac">>, <<"a", "a\\c">>} \cup ({""} \X (Texts \ {""}))
MCPart    == MCPrefix \cup {<<"b", "ab">>}
MCSpecial == [t \in Texts \cup MCKeys \cup Modifiers |->
                 IF t = "\\" THEN {"end"} ELSE {t} \cap {"quote", "newline"}]
MCLiteral == [t \in Texts |-> CASE t = "a\\c" -> "ac" [] t = "\\" -> "" [] OTHER -> t]

MCOtherClasses == {"QObject"}

AnItem(text, caption, under, column, row) ==
    [text |-> text, caption |-> caption, under |-> under, column |-> column, row |-> row]

Scene(parent, class, name, items, allShown, changesBound, user, commands) ==
    [parent |-> parent, class |-> class, name |-> name, items |-> items, allShown |-> allShown,
     changes |-> changesBound, user |-> user, commands |-> commands]

\* Names of one piece, two names with a dot, and two that look like a class
A  == <<Plain("a")>>
B  == <<Plain("b")>>
AA == <<Plain("a"), Plain("a")>>
AB == <<Plain("a"), Plain("b")>>
C0 == <<OfClass("QWidget", 0)>>
C1 == <<OfClass("QWidget", 1)>>

Tree(p, c3, c4, n) ==
    Scene(p, <<"QWidget", "QWidget", c3, c4>>, n, <<<<>>, <<>>, <<>>, <<>>>>, FALSE, 0, {}, 0)

Parents == {<<0, 1, 1, 1>>, <<0, 1, 2, 2>>, <<0, 0, 1, 2>>, <<0, 1, 1, 2>>}

\* All windows, widgets and other objects with plain names; and few with others
Trees ==
    {Tree(p, c3, c4, n) :
        p \in Parents, c3 \in {"QWidget", "QDialog"}, c4 \in {"QWidget", "QDialog", "QObject"},
        n \in {NoName, A} \X {NoName, A} \X {NoName, A} \X {NoName, A, B}}
    \cup
    {Tree(p, c3, c4, n) :
        p \in Parents \cup {<<0, 1, 0, 3>>}, c3 \in {"QObject"}, c4 \in {"QObject"},
        n \in {NoName, A} \X {NoName, A, B} \X {NoName, A} \X {A, B, C0}}
    \cup
    {Tree(p, "QWidget", c4, n) :
        p \in Parents, c4 \in {"QWidget", "QObject"},
        n \in {NoName, AB} \X {NoName, A} \X {NoName, C0, AA} \X {NoName, A, C1, AB}}

\* Two texts and two captions, as the items of a widget of each class
ItemsOf(class, t1, t2, c1, c2) ==
    CASE class = "QPushButton" -> <<AnItem(t1, "", 0, 0, 0)>>
      [] class \in {"QTreeView", "QTreeWidget"} ->
            <<AnItem(t1, "", 0, 0, 0), AnItem(t2, "", 1, 0, 0), AnItem("ab", "", 1, 0, 1)>>
      [] class = "QListWidget" -> <<AnItem(t1, c1, 0, 0, 0), AnItem(t2, c2, 0, 0, 1)>>
      [] class = "QTableView" ->
            <<AnItem(t1, "", 0, 0, 0), AnItem(t2, "", 0, 1, 0), AnItem(t2, "", 0, 1, 1)>>
      [] class = "QLineEdit" -> <<>>
      [] OTHER -> <<AnItem(t1, "", 0, 0, 0), AnItem(t2, "", 0, 0, 1)>>

WithItems == {"QMenu", "QTreeWidget", "QComboBox", "QListWidget", "QTabBar", "QTreeView",
              "QListView", "QTableView", "QWorkspace", "QPushButton", "QLineEdit"}

ItemScene(c, n, t1, t2, c1, c2) ==
    Scene(<<0, 1, 1>>, <<"QWidget", c, c>>, <<NoName, n, NoName>>,
          <<<<>>, ItemsOf(c, t1, t2, c1, c2), ItemsOf(c, t2, t1, c2, c1)>>, TRUE, 0, {}, 0)

ItemScenes ==
    {ItemScene(c, n, t1, t2, "", "") :
        c \in WithItems, n \in {NoName, A}, t1 \in Texts \ {"b"}, t2 \in Texts \ {"b", "\\", "newline"}}
    \cup {ItemScene("QListWidget", n, t1, t2, c1, c2) :
        n \in {NoName, A}, t1 \in {"", "a", "ab", "a\\c"}, t2 \in {"", "a", "ab"},
        c1 \in {"", "a"}, c2 \in {"", "a"}}
    \cup {ItemScene(c, <<Plain(n)>>, "a", "ab", "", "") :
        c \in WithItems, n \in {"quote", "a\\c", "\\"}}
    \cup {ItemScene(c, <<Plain(n), Plain(m)>>, "a", "ab", "", "") :
        c \in {"QMenu", "QLineEdit"}, n \in {"quote", "\\"}, m \in {"a", "\\"}}

Event(on, item, kind) ==
    [on |-> on, item |-> item, kind |-> kind, button |-> "left", key |-> "A", modifiers |-> {}]

MouseOn(on, item, kind) == [Event(on, item, kind) EXCEPT !.key = "0"]

\* A window with a named field, an unnamed button, and a view; or another button
\* and an object that has the name of the field
PlayScenes ==
    {Scene(<<0, 1, 1, 1>>, <<"QWidget", "QLineEdit", "QPushButton", c>>, <<NoName, A, NoName, NoName>>,
           <<<<>>, <<>>, ItemsOf("QPushButton", "a", "", "", ""), ItemsOf(c, "a", "quote", "", "")>>,
           TRUE, 1,
           {Event(2, 0, "key"), MouseOn(3, 1, "press"), MouseOn(4, 1, "press"), MouseOn(4, 1, "dblclick"),
            MouseOn(4, 2, "press"), [MouseOn(2, 0, "press") EXCEPT !.button = "other"],
            Event(1, 0, "fails"), Event(3, 0, "get")}, 2) :
        c \in {"QTreeWidget", "QListView"}}
    \cup
    {Scene(<<0, 1, 1, 1, 1>>, <<"QWidget", "QLineEdit", "QPushButton", "QPushButton", "QObject">>,
           <<NoName, A, NoName, NoName, n>>,
           <<<<>>, <<>>, <<AnItem("a", "", 0, 0, 0)>>, <<AnItem("a", "", 0, 0, 0)>>, <<>>>>,
           TRUE, 2, {Event(2, 0, "key"), MouseOn(3, 1, "press"), MouseOn(4, 1, "dblclick"),
                     Event(2, 0, "get")}, 1) :
        n \in {A, B}}

MCScenes == Trees \cup ItemScenes \cup PlayScenes
=============================================================================
