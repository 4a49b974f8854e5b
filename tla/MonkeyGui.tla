----------------------------- MODULE MonkeyGui -----------------------------
(***************************************************************************)
(* qtmonkey_gui: QtMonkeyWindow and QtMonkeyAppCtrl, with the qtmonkey_app *)
(* they start; or another program, a plugin, in their place.               *)
(*                                                                         *)
(* QMessageBox::critical runs an event loop: what follows showError in a   *)
(* slot is done when the box is closed, and QProcess's signals, of which   *)
(* the second is emitted when the slots of the first have returned, wait   *)
(* for that too.                                                           *)
(***************************************************************************)
EXTENDS MonkeyProcess

CONSTANTS
    Drivers,      \* who starts qtmonkey_app: a subset of {"window", "plugin"}
    Texts,        \* scripts that are written
    MaxRuns,      \* bound: commands written to one process
    MaxSessions   \* bound: processes the window starts

ASSUME DriversAssumption == Drivers \subseteq {"window", "plugin"}
ASSUME TextsAssumption   == Texts \subseteq Seq(Pieces)
ASSUME GuiBoundsAssumption == MaxRuns \in Nat /\ MaxSessions \in Nat

VARIABLES
    driver,    \* constant during a behaviour
    state,     \* QtMonkeyWindow::state_
    ctrl,      \* is monkeyCtrl_ set?
    box,       \* the message box that is open
    tail,      \* jsonFromMonkey_
    shown,     \* history: the elements of this process that were handled
    sessions   \* history: processes started

guiVars == <<driver, state, ctrl, box, tail, shown, sessions>>
vars    == <<processVars, guiVars>>

Boxes == {"none", "noBinary", "writeFailed", "error", "finished"}

\* Every variable has its type.
TypeOK ==
    /\ ProcessTypeOK
    /\ driver \in {"window", "plugin"}
    /\ state \in {"DoNothing", "RecordEvents", "PlayingEvents"}
    /\ ctrl \in BOOLEAN
    /\ box \in Boxes
    /\ tail \in Seq(Nat)
    /\ shown \in Seq(Nat)
    /\ sessions \in Nat

Init ==
    /\ driver \in Drivers
    /\ ProcessInit(IF driver = "window" THEN "none" ELSE "running")
    /\ state = "DoNothing"
    /\ ctrl = FALSE
    /\ box = "none"
    /\ tail = <<>>
    /\ shown = <<>>
    /\ sessions = 0

\* Mistake: the box does not keep the user from the window.
WindowIsFreeBug(b) == b \in Boxes

\* Does the window with the box b get the user's clicks?
WindowIsFree(b) == b = "none"

\* The text of the demonstration mode goes before the script, on its line.
WithMode(text) == <<"code">> \o text

\* getMonkeyCtrl, when there is no controller: the binary is not there; or
\* start() fails at once, before anybody is connected to the controller; or
\* it fails later; or the process runs.
NoBinary ==
    /\ ~ctrl
    /\ box' = "noBinary"
    /\ UNCHANGED <<processVars, driver, state, ctrl, tail, shown, sessions>>

NewSession ==
    /\ ~ctrl
    /\ sessions < MaxSessions
    /\ sessions' = sessions + 1
    /\ ctrl' = TRUE
    /\ tail' = <<>>
    /\ shown' = <<>>

\* on_pbStartRecording__pressed
PressRecord ==
    /\ driver = "window" /\ WindowIsFree(box) /\ state = "DoNothing"
    /\ \/ NoBinary
       \/ /\ \/ ctrl /\ UNCHANGED <<processVars, ctrl, tail, shown, sessions>>
             \/ NewSession /\ \E s \in {"running", "failing", "lost"} : Fresh(s, <<>>)
          /\ state' = "RecordEvents"
          /\ UNCHANGED <<driver, box>>

\* on_pbRunScript__pressed, up to the box of criticalError when the process
\* cannot be written to
RunScript(text) ==
    \/ /\ ctrl /\ status # "lost"
       /\ Len(written) < MaxRuns
       /\ Write(text, TRUE)
       /\ UNCHANGED <<ctrl, tail, shown, sessions>>
    \/ NewSession /\ \E s \in {"running", "failing"} : Fresh(s, <<ACommand(text, TRUE)>>)

CannotSend ==
    \/ ctrl /\ status = "lost" /\ UNCHANGED <<processVars, ctrl, tail, shown, sessions>>
    \/ NewSession /\ Fresh("lost", <<>>)

PressRun ==
    /\ driver = "window" /\ WindowIsFree(box) /\ state \in {"DoNothing", "RecordEvents"}
    /\ \/ NoBinary
       \/ /\ \E text \in Texts : RunScript(WithMode(text))
          /\ state' = "PlayingEvents"
          /\ UNCHANGED <<driver, box>>
       \/ /\ CannotSend
          /\ box' = "writeFailed"
          /\ UNCHANGED <<driver, state>>

\* A plugin writes when it likes, and not always what is understood.
PluginWrites ==
    /\ driver = "plugin"
    /\ Len(written) < MaxRuns
    /\ Write(<<>>, FALSE) \/ \E text \in Texts : Write(text, TRUE)
    /\ UNCHANGED guiVars

\* Mistake: the part of an element at the end of the buffer is thrown away.
KeptBug(d) == <<>>

\* The end of the buffer stays, if it is not a whole element.
Kept(d) == Rest(d)

\* Mistake: an error is taken for the end of the script.
EndsPlayingBug(kind) == kind \in {"end", "error"}

\* onMonkeyScriptEnd alone changes the state; the other elements are shown,
\* or not ("app output").
EndsPlaying(kind) == kind = "end"

\* monkeyAppNewOutput and parseOutputFromMonkeyApp, with the first k halves
\* of what is in the pipe
HandleOutput ==
    /\ ctrl
    /\ \E k \in DOMAIN stdout :
         LET buffer == tail \o SubSeq(stdout, 1, k)
         IN  /\ tail' = Kept(buffer)
             /\ shown' = shown \o Whole(buffer)
             /\ state' = IF \E i \in DOMAIN Whole(buffer) : EndsPlaying(printed[Whole(buffer)[i]])
                         THEN "DoNothing" ELSE state
             /\ stdout' = SubSeq(stdout, k + 1, Len(stdout))
    /\ UNCHANGED <<status, stdinVars, runVars, printed, driver, ctrl, box, sessions>>

\* QProcess has read all that the process wrote before it says that the
\* process is over.
NoticeEnd == ctrl /\ stdout = <<>> /\ box = "none"

\* monkeyAppError, up to the box
MonkeyAppError ==
    /\ NoticeEnd
    /\ status \in {"failing", "crashed"}
    /\ box' = "error"
    /\ UNCHANGED <<processVars, driver, state, ctrl, tail, shown, sessions>>

\* Mistake: the state is left to the "script end" that is still to come.
DropBug ==
    /\ ctrl' = FALSE
    /\ tail' = <<>> /\ shown' = <<>>
    /\ Fresh("none", <<>>)
    /\ UNCHANGED <<state, driver, sessions>>

\* onMonkeyAppFinishedSignal after the box, if there was one
Drop ==
    /\ ctrl' = FALSE
    /\ tail' = <<>> /\ shown' = <<>>
    /\ Fresh("none", <<>>)
    /\ state' = "DoNothing"
    /\ UNCHANGED <<driver, sessions>>

\* monkeyAppFinished: there is no box for EXIT_SUCCESS.
MonkeyAppFinished ==
    /\ NoticeEnd
    /\ \/ status = "success" /\ Drop /\ UNCHANGED box
       \/ /\ status = "failure"
          /\ box' = "finished"
          /\ UNCHANGED <<processVars, driver, state, ctrl, tail, shown, sessions>>

\* A crash is signalled by error() and then by finished(), also when the
\* first of them has already ended the controller.
CloseBox ==
    \/ /\ box = "noBinary"
       /\ box' = "none"
       /\ UNCHANGED <<processVars, driver, state, ctrl, tail, shown, sessions>>
    \/ /\ box = "writeFailed"
       /\ box' = "none"
       /\ state' = "PlayingEvents"
       /\ UNCHANGED <<processVars, driver, ctrl, tail, shown, sessions>>
    \/ /\ box = "error"
       /\ Drop
       /\ box' = IF status = "crashed" THEN "finished" ELSE "none"
    \/ /\ box = "finished"
       /\ Drop
       /\ box' = "none"

Process == ProcessStep /\ UNCHANGED guiVars
WindowRuns == HandleOutput \/ MonkeyAppError \/ MonkeyAppFinished \/ CloseBox
Next == Process \/ PressRecord \/ PressRun \/ PluginWrites \/ WindowRuns

Spec == Init /\ [][Next]_vars

\* Event loops and threads run, scripts end, and the user closes boxes.
FairSpec == Spec /\ WF_vars((ProcessRuns /\ UNCHANGED guiVars) \/ WindowRuns)

-----------------------------------------------------------------------------

\* Is some part of the scripts that were written not over?
Outstanding == stdin # <<>> \/ data # <<>> \/ toRunList # <<>> \/ inFlight # <<>>

\* Each part has an end of its own (onMonkeyScriptEnd, qtmonkey.cpp:411).
OfManyParts == \E i \in DOMAIN written : Len(SplitToExecutableParts(written[i].text)) > 1

\* The window offers to record or to run the next script only when the last
\* one is over, so that no event of a script is recorded and no end of one
\* script is taken for that of another - unless a script has many parts.
IdleMeansDone ==
    driver = "window" /\ status = "running" /\ state # "PlayingEvents"
        => ~Outstanding \/ OfManyParts

\* A controller is ended only when its own process is over, though a crash
\* is signalled twice (monkeyAppError, monkeyAppFinished).
NoStrayFinish == [][ctrl /\ ~ctrl' => status \in Over]_vars

\* The window handles what the process printed, each element once and in
\* order, and all of it before the controller is ended.
ShownInOrder ==
    /\ Len(shown) <= Len(printed)
    /\ \A i \in DOMAIN shown : shown[i] = i
    /\ ctrl /\ stdout = <<>> => Len(shown) = Len(printed)

\* In list q the parts of command n are those from first to last, and they
\* are the parts of its text.
TakenWhole(q, n, text) ==
    \E last \in 0..Len(q) : \E first \in 1..last + 1 :
        /\ \A i \in DOMAIN q : q[i].n = n <=> i \in first..last
        /\ PartsOf(SubSeq(q, first, last), text)

\* Scripts come to the list in the order in which they were written, each
\* once and whole, whatever pieces they came in; one is left out only behind
\* a command that is not understood.
TakenInOrder ==
    /\ \A i, j \in DOMAIN taken : i < j => taken[i].n <= taken[j].n
    /\ \A n \in DOMAIN written :
         \/ TakenWhole(taken, n, written[n].text)
         \/ /\ \A i \in DOMAIN taken : taken[i].n # n
            /\ \/ \E m \in 1..n : ~written[m].good
               \/ \E i \in DOMAIN (data \o stdin) : (data \o stdin)[i] = n

\* A command was read and nobody was told (dataReady is connected after the
\* thread was started).
Unannounced == data # <<>> /\ stdin = <<>> /\ signals = 0

\* Playing ends, unless the process could not be started and the window was
\* not told, or the command was read before anybody listened.
PlayingEnds ==
    state = "PlayingEvents" ~> (state # "PlayingEvents" \/ status = "lost" \/ Unannounced)
=============================================================================
