---------------------------- MODULE ScriptPlayer ----------------------------
(***************************************************************************)
(* A script that was recorded from what the user did is run: the functions *)
(* of ScriptAPI, one after the other, in the agent thread, while the GUI   *)
(* thread goes on changing the widgets of the application.                 *)
(*                                                                         *)
(* A function looks its widget up in the GUI thread (Look), uses the       *)
(* pointer in its own thread (Check, Use), and has its work done in the    *)
(* GUI thread (Act).  GuiCall is the detailed model of these calls; here a *)
(* call is a pair of steps.  A pointer to a widget that is gone crashes    *)
(* the application when it is used, and so does an assertion or a null     *)
(* pointer in the look-up (the assertions are compiled in, as the build    *)
(* files have it).  Text put between quotes that ends the literal makes    *)
(* the whole script fail.                                                  *)
(* The operators named ...Bug are mistakes the code does not make.         *)
(***************************************************************************)
EXTENDS ItemCommands

CONSTANT MaxAttempts    \* look-ups, 70 ms apart, before a function gives up

ASSUME MaxAttemptsAssumption == MaxAttempts \in Nat \ {0}

VARIABLES
    asked,      \* history: what the user did, and calls written by hand
    script,     \* the commands for them
    pc,         \* the agent thread: see Pcs
    next,       \* the command it runs, or is about to run
    attempts,   \* failed attempts of this command
    w,          \* its pointer to the widget
    unseen,     \* history: the screen hid a widget from a look-up
    astray,     \* history: could the name lead the last look-up to another widget?
    gone,       \* history: has w's widget been destroyed since the look-up?
    acted,      \* history: what the commands did, in order
    actedBy     \* history: the numbers of these commands

doneVars == <<acted, actedBy>>
playVars == <<asked, script, pc, next, attempts, w, unseen, astray, gone, doneVars>>
vars     == <<treeVars, playVars>>

Pcs == {"start", "step", "look", "check", "use", "posted", "acting", "ok", "error", "crashed"}
Over == pc \in {"ok", "error", "crashed"}

\* Calls that no event stands for: assertions and getObjectById
HandWritten == {"holds", "fails", "get"}

Line1(e) ==
    CASE e.kind = "holds" -> Call("Assert", <<>>)
      [] e.kind = "fails" -> [Call("Assert", <<>>) EXCEPT !.at = 1]
      [] e.kind = "get"   -> Command("getObjectById", e.on)
      [] e.kind \notin HandWritten /\ Recorded(e) = {} -> Call("comment", <<>>)
      [] OTHER -> CHOOSE cmd \in Recorded(e) : TRUE

TypeOK ==
    /\ TreeTypeOK
    /\ DOMAIN script = DOMAIN asked
    /\ pc \in Pcs
    /\ next \in 1..(Len(script) + 1)
    /\ attempts \in 0..MaxAttempts
    /\ w \in Objects \cup {Null}
    /\ unseen \in BOOLEAN
    /\ astray \in BOOLEAN
    /\ gone \in BOOLEAN
    /\ Len(acted) = Len(actedBy)
    /\ actedBy \in Seq(DOMAIN script)

\* Can the user do this, or write this call?
Possible(e) ==
    /\ e.on \in Objects /\ Usable[e.on]
    /\ e.kind \in HandWritten \/ e \in Happenings(e.on)

Init ==
    /\ TreeInit
    /\ asked \in UNION {[1..n -> {e \in scene.user : Possible(e)}] : n \in 0..scene.commands}
    /\ script = [k \in DOMAIN asked |-> Line1(asked[k])]
    /\ pc = "start"
    /\ next = 1
    /\ attempts = 0
    /\ w = Null
    /\ unseen = FALSE
    /\ astray = FALSE
    /\ gone = FALSE
    /\ acted = <<>>
    /\ actedBy = <<>>

cmd == script[next]

\* The slots of ScriptAPI: those that look a widget up, and the others
Slots  == TextFunctions \cup {"activateItemInView", "expandItemInTreeView", "mouseClick",
                              "mouseDClick", "keyClick", "getObjectById"}
Others == {"comment", "Assert"}

\* getObjectById is content with a widget that is not usable.
ShouldBeEnabled == cmd.fun # "getObjectById"

Succeed ==
    /\ next' = next + 1
    /\ pc' = "step"
    /\ attempts' = 0
    /\ w' = Null
    /\ UNCHANGED <<asked, script, unseen, astray, gone, doneVars>>

Goto(there) ==
    /\ pc' = there
    /\ UNCHANGED <<asked, script, next, attempts, w, unseen, astray, gone, doneVars>>

\* Mistake: an attempt too many.
RetryBug(here) ==
    /\ attempts' = attempts + 1
    /\ pc' = IF attempts = MaxAttempts THEN "error" ELSE here
    /\ UNCHANGED <<asked, script, next, w, unseen, astray, gone, doneVars>>

\* Mistake: the attempts are not counted.
RetryForeverBug(here) == Goto(here)

\* Another attempt of "here", or an error after the last one
Retry(here) ==
    /\ attempts' = attempts + 1
    /\ pc' = IF attempts' = MaxAttempts THEN "error" ELSE here
    /\ UNCHANGED <<asked, script, next, w, unseen, astray, gone, doneVars>>

Start ==
    /\ pc = "start"
    /\ Goto(IF \A k \in DOMAIN script : script[k].parses THEN "step" ELSE "error")

\* Step::Step, and what does not look a widget up
Step ==
    /\ pc = "step"
    /\ CASE next > Len(script)                -> Goto("ok")
         [] next <= Len(script) /\ cmd.fun \in Slots -> Goto("look")
         [] next <= Len(script) /\ cmd.fun \in Others ->
                IF cmd.at = 1 THEN Goto("error") ELSE Succeed
         [] OTHER                             -> Goto("error")

\* Does the name in the script still lead to the widget that it was made for?
Straight ==
    LET t == Target(asked[next], cmd)
    IN  /\ Usable[t] /\ NamesRead(cmd.names) = FullQtWidgetId(t)
        /\ ~\E n \in DOMAIN Line[t] : Misleading(Line[t][n])

\* In the GUI thread: doGetWidgetWithSuchName and canNotFind
Look ==
    /\ pc = "look"
    /\ \E found \in DoGetWidgetWithSuchName(NamesRead(cmd.names), ShouldBeEnabled),
          hidden \in BOOLEAN :
          /\ hidden => found \notin {Null, Fault}
          /\ w' = IF hidden \/ found = Fault THEN Null ELSE found
          /\ unseen' = (unseen \/ hidden)
          /\ pc' = IF found = Fault THEN "crashed" ELSE "check"
    /\ astray' = ~Straight
    /\ gone' = FALSE
    /\ UNCHANGED <<asked, script, next, attempts, doneVars>>

\* Mistake: the null pointer of a widget that was not found is used.
CheckBug ==
    /\ pc = "check"
    /\ CASE w \notin alive /\ ShouldBeEnabled                     -> Goto("crashed")
         [] w \in alive /\ ShouldBeEnabled /\ ~Usable[w] -> Retry("look")
         [] OTHER -> Goto("use")

\* In the agent thread: isVisible and isEnabled of the pointer
Check ==
    /\ pc = "check"
    /\ CASE w = Null                                                -> Retry("look")
         [] w # Null /\ w \notin alive /\ ShouldBeEnabled           -> Goto("crashed")
         [] w # Null /\ w \in alive /\ ShouldBeEnabled /\ ~Usable[w] -> Retry("look")
         [] w # Null /\ ~ShouldBeEnabled                            -> Succeed
         [] OTHER -> pc' = "use" /\ attempts' = 0
                     /\ UNCHANGED <<asked, script, next, w, unseen, astray, gone, doneVars>>

Casts == {"activateItem", "activateItemInView", "expandItemInTree", "expandItemInTreeView",
          "chooseWindowWithTitle"}

\* Are the class of the widget and the arguments what the function wants?
Suits ==
    CASE cmd.fun = "activateItem" ->
            Class(w) \in {"QMenu", "QTreeWidget", "QComboBox", "QTabBar", "QListWidget", "QListView"}
      [] cmd.fun = "activateItemInView"    -> Class(w) \in Views
      [] cmd.fun = "expandItemInTree"      -> Class(w) = "QTreeWidget"
      [] cmd.fun = "expandItemInTreeView"  -> Inherits(w, "QTreeView")
      [] cmd.fun = "chooseWindowWithTitle" -> Class(w) = "QWorkspace"
      [] cmd.fun = "keyClick"              -> cmd.keys # <<>>
      [] cmd.fun \in {"mouseClick", "mouseDClick"} -> cmd.button # "other"
      [] OTHER                             -> TRUE

\* In the agent thread: the class of the widget, then the call is posted
Use ==
    /\ pc = "use"
    /\ CASE w \notin alive /\ cmd.fun \in Casts                -> Goto("crashed")
         [] (w \in alive \/ cmd.fun \notin Casts) /\ ~Suits    -> Goto("error")
         [] OTHER                                              -> Goto("posted")

\* An item that is not there is no error in these.
Lenient ==
    \/ cmd.fun = "expandItemInTreeView"
    \/ cmd.fun = "activateItem" /\ Class(w) = "QListView"

\* In the GUI thread
Act ==
    /\ pc = "posted"
    /\ IF w \notin alive THEN Goto("crashed")
       ELSE IF Performed(cmd, w) = {} /\ Lenient THEN Succeed
       ELSE IF Performed(cmd, w) = {} /\ cmd.fun = "pressButtonWithText" THEN Retry("posted")
       ELSE IF Performed(cmd, w) = {} THEN Goto("error")
       ELSE /\ \E what \in Performed(cmd, w) : acted' = Append(acted, what)
            /\ actedBy' = Append(actedBy, next)
            /\ pc' = "acting"
            /\ UNCHANGED <<asked, script, next, attempts, w, unseen, astray, gone>>

\* The work is done, and its result comes back.
Return == pc = "acting" /\ Succeed

\* Mistake: a button whose click opens a dialog counts as not found.
GiveUpBug ==
    /\ pc = "acting"
    /\ IF cmd.fun = "pressButtonWithText" THEN Retry("posted") ELSE Succeed

\* The work is not done, a dialog that it has opened is on the screen: the call
\* gives up, with the result for success.
GiveUp == pc = "acting" /\ Succeed

AgentThread == Start \/ Step \/ Look \/ Check \/ Use \/ Return \/ GiveUp

PlayerStep == (AgentThread \/ Act) /\ UNCHANGED treeVars

\* What happens after the script does not matter to it.
ApplicationStep ==
    /\ ~Over
    /\ AppStep
    /\ gone' = (gone \/ (w # Null /\ w \notin alive'))
    /\ UNCHANGED <<asked, script, pc, next, attempts, w, unseen, astray, doneVars>>

Next == PlayerStep \/ ApplicationStep

Spec == Init /\ [][Next]_vars

\* The agent thread runs, and so does the event loop of the GUI thread.
FairSpec == Spec /\ WF_vars(PlayerStep)

-----------------------------------------------------------------------------
(* Properties *)

\* An item that is not there may be no error in these.
LenientFunctions == {"activateItem", "expandItemInTreeView"}

\* Every command does its work at most once, in the order of the script, and one
\* that the script has left behind has done it: no retry repeats a click, and no
\* click is skipped, but for an item that is not there.  (The retries of
\* getWidgetWithSuchName and pressButtonWithText; the calls that give up.)
ActedOnceEach ==
    /\ \A m, n \in DOMAIN actedBy : m < n => actedBy[m] < actedBy[n]
    /\ \A k \in 1..(next - 1) :
          script[k].fun \in Slots \ (LenientFunctions \cup {"getObjectById"})
            => \E n \in DOMAIN actedBy : actedBy[n] = k

\* The application crashes only when a widget is destroyed after it was looked
\* up and before the function that looked for it is over (getWidgetWithSuchName
\* hands a bare pointer to another thread), or when a piece of the name stands
\* for an object that is no widget (the null casts in doGetWidgetWithSuchName).
CrashHasReason ==
    pc = "crashed" =>
        \/ gone
        \/ LET names == NamesRead(cmd.names)
           IN  \E k \in DOMAIN names, c \in alive \ Widgets : Stands(names[k], c)

\* Could a click be misled although the application has not changed?
Faithful(k) ==
    /\ asked[k].kind \notin HandWritten /\ script[k].fun \notin Others
    /\ ~Misread(asked[k])
    /\ LET t == Target(asked[k], script[k])
       IN  ~\E n \in DOMAIN Line[t] : Misleading(Line[t][n])

\* As long as the application is as it was, a script of commands that are not
\* misleading repeats what the user did, from the first to the last, and only a
\* widget that the screen hides makes it fail.
Undisturbed ==
    changes = 0 /\ (\A k \in DOMAIN script : Faithful(k)) =>
        /\ acted = SubSeq(asked, 1, Len(acted))
        /\ pc = "ok" => acted = asked
        /\ pc = "error" => unseen

\* Whatever happens to the application, what a command does is what the user did,
\* unless its name did not lead straight to its widget when it was looked up, or
\* the widget has been destroyed since, or the command is misread.
ActsAsAsked ==
    acted' # acted =>
        \/ acted' = Append(acted, asked[next])
        \/ astray
        \/ asked[next].on \notin alive
        \/ MisreadAs(asked[next], cmd)

\* A replay repeats what was recorded: all of it in an application that is as it
\* was, and in one that changes, each step whose widget and item are still the
\* ones that the command stands for.  (The recorder and the player together.)
\* (At first nothing has been done, and Undisturbed is true.)
ReplayRepeats == [][Undisturbed' /\ ActsAsAsked]_vars

\* The script comes to an end, whatever the application does to its widgets.
ScriptEnds == <>Over
=============================================================================
