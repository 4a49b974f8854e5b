# qt_monkey in TLA+

qt_monkey records what a user does in a Qt application as a script, and plays
scripts back in the application. This directory holds TLA+ models of its
program logic, the instances TLC checks, and proofs that TLAPS checks. Paths
such as `qtmonkey.cpp:391` are those of the repository.

## The system

```
 stdin/stdout, JSON          localhost TCP, packets
 qtmonkey_gui  <----->  qtmonkey_app  <----->  the user's application
 (optional)             class QtMonkey          GUI thread: Agent, UserEventsAnalyzer
                                                agent thread: AgentThread, ScriptRunner,
                                                              ScriptAPI
```

`qtmonkey_app` starts the user's application with the port of its listening
socket in the environment. The agent, linked into that application, connects
back. Scripts go from the monkey to the agent one by one; recorded events, logs,
errors and ends of scripts come back and are printed to stdout as JSON.

### Inventory

**QtMonkey** (`qtmonkey.cpp`, `qtmonkey_app.cpp`). State: the queue `toRunList_`
of scripts, the flags `scriptRunning_` and `restartDone_`, the user application's
process. Operations: queue the parts of the `--script` files, queue a script from
stdin, send the next script (`onAgentReadyToRunScript`), handle the end and the
error of a script, the end and the crash of the application, restart it. One
thread, but `userAppFinished` and `onScriptError` run nested event loops
(`processEventsFor`) in which the other handlers run. Correct when: scripts run in
order, once, under their own names; one at a time; a part behind
`<<<RESTART FROM HERE>>>` runs after a restart; no script is forgotten in the
queue; `--exit-on-script-error` stops the rest.

**The connection** (`agent_qtmonkey_communication.cpp`). State at each end: a send
buffer and a receive buffer, at the agent's end also the name of the current
script and the counter `close_ack_`. Operations: connect, append a packet, flush,
the slots of `readyRead`, disconnection, error. Packets have a header of three
words (magic number, type, length). Hard: any fragmentation, partial writes,
packets damaged or too long, a new session after an old one, and `readyRead`,
which Qt does not emit recursively: a slot that runs a script which polls the
event loop leaves new data in the socket. Correct when: what is received is what
was sent, in order; `Close` is acknowledged after all before it was handled.

**Agent, AgentThread** (`agent.cpp`). State: the agent thread and its event loop,
the script being run, the semaphores of calls into the GUI thread. Operations:
run a script, report, quit (`onAppAboutToQuit`, `~Agent`), events of the user.
Two threads share the send buffer; a script blocks on the GUI thread, and the GUI
thread joins the agent thread. Correct when: reports stay in order, the
application ends when the user quits, the end of each script is reported.

**Calls into the GUI thread** (`agent.cpp:299-391`, `semaphore.hpp`). State: one
shared semaphore `guiRunSem_` and two for each call with a timeout, the posted
events, the nested event loops of the GUI thread. Operations:
`runCodeInGuiThreadSync`, `runCodeInGuiThreadSyncWithTimeout`, `customEvent`.
Correct when: code is run once and in order, a plain call returns after its code,
a timed one gives up only on code that was begun, no release reaches a wrong call.

**ScriptRunner, ScriptAPI** (`script_runner.cpp`, `script_api.cpp`). State: the
engine, the error set by `throwScriptError`, time-outs. Operations: evaluate; for
each function of `Test`, look a widget up with retries, then act on it in the GUI
thread. Hard: the retries, and a pointer found in one call and used in the next.

**UserEventsAnalyzer** (`user_events_analyzer.cpp`). State: the last key and mouse
event, counters of presses and releases, watchers of expanded trees. Operations:
the event filter of the application, the slots of the watchers. Hard: one action of the
user is seen several times, by parents and as press and release, and must be
recorded once; widgets are destroyed while watched.

**Reader of stdin** (`qtmonkey.cpp:40-201`, `shared_resource.hpp`). A thread that
appends to a shared buffer, and a slot of the main thread that parses it.

**JSON protocol** (`qtmonkey_app_api.cpp`). Pure functions over a growing buffer:
complete elements are handed out, the rest is kept.

**Script** (`script.cpp`). A pure function that splits a script at
`<<<RESTART FROM HERE>>>`.

**qtmonkey_gui** (`qtmonkey_gui.cpp`). State: `DoNothing`, `RecordEvents` or
`PlayingEvents`, and the controller of a qtmonkey_app process. Operations:
buttons, output and end of that process. Hard: crash signals that come twice,
output that comes late.

**jsedit**, tests, build files: no logic of this program.

## Modules

| module | of | code |
|---|---|---|
| `Wire` | the connection and the application's process, as both sides see them | `agent_qtmonkey_communication.hpp`, `CommunicationMonkeyPart::isConnectedState` |
| `QtMonkey` | qtmonkey_app | `qtmonkey.cpp`, `CommunicationMonkeyPart` |
| `AgentSide` | the user application | `agent.cpp`, `CommunicationAgentPart` |
| `MonkeySystem` | the composition of the three, and its properties | |
| `MonkeySystemProofs` | theorems: types, reports, restarts | |
| `ScriptOrderProofs` | theorems: which scripts run, in what order, under which name | |
| `GuiCallSpec` | abstract: what a caller may expect of a GUI call | |
| `GuiCall` | the two kinds of calls, their semaphores and events | `agent.cpp:299-391`, `semaphore.hpp` |
| `GuiCallProofs` | theorems | |
| `PacketChannel` | abstract: a FIFO channel of packets | |
| `PacketStream` | packets as bytes, in one direction | `createPacket`, `calcPacketState`, `extractFromPacket` and the slots around them |
| `PacketStreamProofs` | theorems | |
| `KeyRecorder` | the event filter and the keyboard | `UserEventsAnalyzer::alreadySawSuchKeyEvent`, `eventFilter` |
| `MouseRecorder` | the event filter and the mouse | `alreadySawSuchMouseEvent`, `eventFilter` |
| `TreeWatchers` | what is recorded of trees that expand | `TreeViewWatcher`, `TreeWidgetWatcher` |
| `EventFilter` | the composition of the three | `UserEventsAnalyzer::eventFilter`, `callCustomEventAnalyzers` |
| `EventFilterProofs` | theorems: the counters, the watchers, what is done once is recorded once | |
| `WidgetNames` | widgets, their recorded names, the look-up of a name | `fullQtWidgetId`, `doGetWidgetWithSuchName`, `bruteForceWidgetSearch` |
| `ItemCommands` | what is recorded for a click, an expansion or a key, and what a script does for it | the `...ActivateClick` analyzers, `keyReleaseEventToScript`, `activateItemInGuiThread` and its like |
| `ScriptPlayer` | a recorded script is run while the application changes | `getWidgetWithSuchName`, `doClickItem`, the slots of `ScriptAPI` |
| `ScriptPlayerProofs` | theorems: names and commands lead back, a replay repeats what was recorded | |
| `ScriptParts` | pure: the parts of a script | `Script::splitToExecutableParts` |
| `MonkeyProcess` | qtmonkey_app between stdin and stdout | `ReadStdinThread`, `stdinDataReady`, `parseOutputFromGui`, the slots that print |
| `MonkeyGui` | the window, its controller and the process; or a plugin and the process | `QtMonkeyWindow`, `QtMonkeyAppCtrl`, `parseOutputFromMonkeyApp` |
| `MonkeyGuiProofs` | theorems: both streams, the splitting of scripts, when the window is idle | |
| `Induction` | induction and recursion over natural numbers in first-order form, for the proofs | |
| `MC...` | instances for TLC | |

The layers fit together: `MonkeySystem` uses `toAgent` and `toMonkey` as FIFO
queues of whole packets, and `PacketStream` shows that the byte stream is such a
channel as long as no packet is too long; `AgentSide` treats a GUI call as "wait
until served", and `GuiCall` looks into it. What `AgentSide` has as one packet
`NewUserAppEvent` is what `EventFilter` makes of the events of the user; its text is
a command of `ItemCommands`, and a script of such commands is what `ScriptPlayer` runs.
A look-up or an action of `ScriptPlayer` is one step, a call of `GuiCall`.
`MonkeyProcess` looks at the same process as `QtMonkey` from the other side: the user
application is as much as its agent is seen, and the scripts are their texts.

### How actions correspond to code

*`QtMonkey`.* An action is a slot from its first to its last statement, or up to a
nested event loop. `AgentReadyToRunScript(connected, running, q)` is
`onAgentReadyToRunScript` with the values the caller has just set; it is a part of
`HandleNewConnection`, `StdinRunScript`, `OnScriptEnd`, `OnScriptError` and
`FinishedLast`, as in the code. `status` says which event loop is running:
`draining` is the loop of 300 ms in `userAppFinished`, `failing` the one in
`onScriptError`; in `failing` the socket's `readyRead` is still on the stack and no
packet is read.

*`AgentSide`.* `pc` is the agent thread's place, `gui` the GUI thread's. A script is
nondeterministic: it logs, calls the GUI thread, polls, ends or throws.
`ReadyRead` takes what is in the socket, `NestedReadyRead` is the same event in a
poll: the data stays in `sockBuf`. The rule behind it is Qt's, and marked as
external. `emitted`, `handled`, `started`, `ran`, `restarts`, `afterStarted` are
history variables: no guard reads them, except that bounds count on `restarts`.

*`GuiCall`.* The GUI thread is a stack of frames, since the code that is run may
enter an event loop (a dialog's `exec()`) in which later events are served. The
semaphores are counters. The two attempts of a time-out loop may be used up at any
time after they began: time is not modelled.

*`PacketStream`.* All bytes of a session are one sequence; the buffers are the
intervals between five cursors, so that reading and writing in pieces of any size
is a move of a cursor. A field of the header is one cell, a text some cells. `slot` says where the
slot of `readyRead` is: Qt emits it for bytes that come in while the slot does not run (`ReadyRead`). The
types in `RunScript` make the agent run a script in its slot; when the script polls the event loop, bytes come
into the socket (`Poll`, which moves `arrived`) and nobody is told. When the slot goes on (`ScriptOver`) it looks at
`recvBuf_` only. It is the rule that `NestedReadyRead` of `AgentSide` has for whole packets.

*`KeyRecorder`, `MouseRecorder`.* The user's strokes and clicks are numbered, so that
properties can speak of what became of each of them; the filter itself sees
types, keys and positions only. Qt shows the filter an event once for each object
it is delivered to (`DeliverAgain`, `DeliverLater`), and does not show the press of
a shortcut. `keyFresh` and `mouseFresh` say whether `repeatEventTimeoutMs` has gone by
since the last event. The two tests of `alreadySawSuchKeyEvent` are the guards of
`Repeated`, `NewPress`, `SeenViaPress` and `OnlyRelease`.

*`TreeWatchers`.* Of the two signals the watchers connect, `expanded` is disconnected
when it comes, `destroyed` is not: `destroyedOf` counts how often it is connected, and
`treeViewDestroyed` runs as many times. `aborted` is a failed assertion, after which
the user's application is gone.

*`WidgetNames`.* An object is a number, `scene` its parent, class, name and items; an object of one of `OtherClasses` is no
widget. `fullQtWidgetId` joins names with dots, and `doGetWidgetWithSuchName` splits the text at each dot. A text is modelled by
the pieces it splits into: joining concatenates them, an object name with a dot in it *is* several pieces, and after joining nobody
can tell them from several names. A piece is plain text, or of the form that `qtObjectId` gives an object without a
name, class and number; an object name may look like that, too. What
Qt leaves open (the order of `topLevelWidgets()`, which of several objects is first) is a set
of outcomes. `Fault` is the outcome for an assertion that fails or a null pointer that is used: both come of objects that are no
widgets (`script_api.cpp:165`, `:200`). The assertions are in the program, since no build file of the repository defines `NDEBUG`. `place` is the order of siblings, which `QWidget::raise` changes.

*`ItemCommands`.* `Recorded(e)` is the command for the event `e` of the user: the analyzers are asked
in the order of `callCustomEventAnalyzers`, the first answer counts. `Performed(cmd, w)` is what the
command does, as an event again, so that "the replay repeats the user" is an equation. Texts are
model values, with the relations the code depends on as constants: one starts with
the other, one contains the other. Names, texts and keys are put between quotes: `Special` has what in a text would
end the literal (a quote, a newline, a backslash at the end), and each analyzer says which of these it escapes, few as they
are; `parses` is false when one is left. `Literal` is the text that the script engine reads in a literal: another one when
there is a backslash in it. A key is its text; an unknown key has an empty one, and without modifiers the whole sequence
is empty, which `keyClick` calls an error.

*`ScriptPlayer`.* `pc` is the place of the agent thread: it waits for a look-up (`Look`, in the GUI
thread; a `Fault` there ends the application), tests the pointer (`Check`) and uses it (`Use`) in its own thread, and has its work done in
the GUI thread (`Act`); between any two of these the application may show, hide, destroy or raise a
widget. `GiveUp` is the call that returns because a dialog has opened. `attempts` counts
against `MaxAttempts`, which is `waitWidgetAppearTimeoutSec_` divided by the sleep of 70 ms. `asked` keeps what the user did
when the script was recorded, for `ReplayRepeats`; `unseen`, `astray` and `gone` are history variables, too: the screen hid a
widget from a look-up, the name in the script could lead this look-up astray, the widget was destroyed after it.

*`MonkeyProcess`.* An element of either JSON stream is its number, twice; a pipe may cut between the
two, which is all that a parser of incomplete data can be wrong about. `data` is the `SharedResource`,
`signals` the queued `dataReady`. `written`, `taken` and `printed` are history variables.
`connected` is false until the last line of the constructor, while the thread reads already.

*`MonkeyGui`.* `box` is the message box: `QMessageBox::critical` runs an event loop, so a slot is two
actions with the box in between (`MonkeyAppError` and `CloseBox`, `PressRun` and `CloseBox`), and what
QProcess emits next waits for it. A box is modal for the application, hence `WindowIsFree`. `Drop` is the rest of
`onMonkeyAppFinishedSignal`; it runs for each of the two signals of a crash.

## Runs

| run | what it asks | result |
|---|---|---|
| `scripts` (`MCScripts.cfg`) | two parts of a file and one script from stdin, one restart, one report per session, any quits and crashes: order and names of scripts, order of reports, flush at the end | holds |
| `prefs` (`MCPrefs.cfg`) | preferences code before each part, `--exit-on-script-error`, two restarts: at most one more script is sent after the one that failed | holds |
| `ends` (`MCEnds.cfg`) | liveness: quitting ends or hangs in one of two named ways; the end of each script is reported or there is a named reason | holds |
| `stale_restart` (`MCStaleRestart.cfg`) | a part behind the separator begins in a later session than the part before it | violated |
| `quit_hangs` (`MCQuitHangs.cfg`) | an application that quits ends | violated |
| `gui_calls` (`MCGuiCall.cfg`) | GUI calls implement `GuiCallSpec`, no stray release, a timed call returns | holds |
| `stream` (`MCStream.cfg`) | the byte stream implements `PacketChannel`, damage only by length, nothing made up; each packet is received, unless it comes in unannounced while a script polls | holds |
| `recorder` (`MCEventFilter.cfg`) | what the user does is recorded, and once; the watchers hold no pointer to a tree that is gone, and their assertions hold when views do not share models | holds |
| `replay` (`MCReplay.cfg`) | the name of a widget and the command for what was done to it lead back to it, or there is a named reason; a script acts once for each command, in order, repeats what was recorded, in an application that changes too, crashes for one of two reasons, and ends | holds |
| `gui` (`MCGui.cfg`) | the window and its processes, or a plugin: both streams are handled in order and once, the window is idle when all is over, a controller ends with its own process, playing ends | holds |
| `shortcut_lost` (`MCShortcutLost.cfg`) | "we already see it via key press": a release is skipped only if its press was seen | violated |
| `shared_model` (`MCSharedModel.cfg`) | the assertions of the watchers hold | violated |

What the violations show:

* `stale_restart`: the application ends before the first part was sent. It is
  started again, which sets `restartDone_`; the first part does not reset it, and the
  second part is sent behind the first without a restart (`qtmonkey.cpp:391`).
* `quit_hangs`: a script quits the application and polls its event loop; `CloseAck`
  comes in during the poll, stays in the socket, and the loop at `agent.cpp:400`
  waits for ever. `ends` shows that this, and a script sent behind `CloseAck`
  that calls the joining GUI thread, are the only ways to hang.
* `shortcut_lost`: Shift goes down and is counted as a press; the press of the shortcut's
  key is not delivered, its release is. One press, one release: the release is
  dropped as seen (`user_events_analyzer.cpp:807`), and the shortcut is not in the script. `recorder`
  shows what does hold: a stroke that comes alone is recorded once, a stroke whose press was
  shown is recorded.
* `shared_model`: two views of one model are clicked on, then the first one's item is expanded. The
  look-up by model finds the second view, which is disconnected; the first one's next
  expansion finds that view gone from `treeViewSet_`.

What the properties of `replay` and `gui` name as exceptions is behaviour of the code, too. In names:

* a hidden earlier sibling of the same class shifts the number of an unnamed widget, since the look-up
  counts only widgets that can be used (`script_api.cpp:202`) and the recorder counts all
  (`user_events_analyzer.cpp:47`); the outermost widget is found by its name or class alone.
* a dot in an object name makes two elements of it (`user_events_analyzer.cpp:745`, `script_api.cpp:110`), and a name of
  the form `<class_name=C,N>` is read as one.
* a child that is no widget and has the name or the class in question ends the application: its null pointer is asked for
  `isVisible()` (`script_api.cpp:200-202`). So does a named outermost object that is no widget (`assert` in
  `script_api.cpp:165-166`). Nothing was destroyed then: `CrashHasReason` has it as its second reason.

In commands:

* a double click in a tree or table is recorded as `doubleClickItem` or `doubleClickOnItemInView`, a click
  in a menu without a name as `activateMenuItem`: `ScriptAPI` has none of these. A double click, or one
  of another button, on an item of another widget becomes a click of the left button.
* quotes and newlines in the texts of some widgets are not escaped, in object names and keys never
  (`user_events_analyzer.cpp:137`, `:149`): the script does not parse, and no command of it runs. A backslash
  is read as the beginning of an escape, and another text is looked for; at the end of a text it takes the closing quote.
* an item of a tree is found by a text that it only starts with, of equal texts the first one is taken,
  and `pressButtonWithText` takes the first button with the text, even one that is hidden.
* a click on the widget of an item of a `QListWidget` is recorded as one on the first row, since the
  position in the inner widget is used (`user_events_analyzer.cpp:303`).
* a button of the mouse that has no name, key 0, four modifiers, and modifiers with an unknown key are lost; an unknown
  key alone is recorded as `''`, which is an error when it is played (`script_api.cpp:989-993`).
* an item that is not there is no error in a `QListView` and in `expandItemInTreeView`; `activateItemInView` clicks at the
  corner of the view then (`script_api.cpp:316-330`).
* the documentation of `activateItemInView` (`script_api.hpp:88`) has the row before the column, the code the
  column before the row.

In the window:

* a script of several parts has several "script end": the first one makes the window idle
  (`qtmonkey_gui.cpp:358`), and the second one ends what was begun meanwhile.
* when `start()` fails at once, its `error` comes before the window is connected (`qtmonkey_gui.cpp:56`): it plays
  for ever.
* a script that stdin brings before `dataReady` is connected (`qtmonkey.cpp:234`) is not seen until more comes.
* parts of a script from stdin do not wait for a restart (`qtmonkey.cpp:317`), those of a file do.

Hazards that a property names as an exception. Where the code does go wrong in a known way, the property
says so, and shows that nothing else goes wrong: `ScriptsEnd` leaves out an application that ended (`qtmonkey.cpp:404`) and a script that
stays in the socket (`agent_qtmonkey_communication.cpp:314`), `EachIsReceived` the same for bytes; `PlayingEnds` leaves out data on stdin
before `dataReady` is connected (`qtmonkey.cpp:234`) and a `start()` that fails at once (`qtmonkey_gui.cpp:56`); `IdleMeansDone` leaves out scripts
of several parts (`qtmonkey_gui.cpp:358`). They do not guard against these cases: they describe them.

Deadlock is not checked: all these programs may stop (the process ends, the
bounded number of scripts, calls or packets is used up).

### Bounds, and why they are enough

* `MaxScripts`, `FileParts`, `MaxRestarts`: three scripts are needed for one to be sent
  while two others are running or queued after an error, two sessions for
  anything left over from the first. `prefs` has five scripts (two parts with
  their preferences and one from stdin) and two restarts, for a restart that
  would be used twice.
* `MaxReports = 1`: logs, GUI calls and user events of a session are counted together; with
  `ScriptError`, `ScriptEnd` and `Close` there are up to five packets on their way.
  In `prefs` the message order is not asked about.
* `ends` has no restarts: a new session begins with empty buffers, and every hang
  is within one.
* `MaxCalls = 3, MaxLoops = 3`: a late end of a call's code in the middle of the
  next call and one more behind it; loops nested three deep, closed in any order.
* `stream`: three packets, texts of at most two cells out of two, one of which is the
  magic number, `Limit = 1`: an acceptable text, a text that is too long, and one
  that looks like a header, in all orders and fragmentations, to either reader. There is one type of packets, and the
  agent runs a script for it, which polls any number of times or never: three packets are enough for one to be read, one to come in during
  its script and one to announce it.

* `recorder`: `device` is chosen once, for the two halves of the filter share no variable.
  Four strokes (`MaxStrokes`) of a modifier, the key of the show-object shortcut and a plain key:
  two keys down together and two strokes after that, which is what it takes for counters
  that were left unequal to do harm. Two clicks (`MaxClicks`) with two buttons on two views, a tree
  widget and a label without a name: both views watched, or one twice. One late
  delivery (`MaxLate`, `MaxLateClicks`), one change of model (`MaxSwaps`). A click on the label is
  emitted again at each delivery, hence `MaxEmitted = 4`.
* `shortcut_lost` and `shared_model` are the same instance with fewer strokes and clicks, and the
  device that the property is not about unused.

* `replay`: `Trees` has trees of four objects: all shapes with a chain, siblings or a second window that matter to one of
  the rules, hidden widgets, dialogs, and objects that are no widgets, with no name, equal names, names with a
  dot and names that look like a class. There are two elements of a name below the outermost one, and siblings before and
  behind. `ItemScenes` has two widgets of each class with pairs of texts: equal ones, one that starts with the
  other, quote, newline, a backslash inside and one at the end, none; and the same in the widget's name. All keys (a plain one, one whose text
  is a quote, an unknown one), modifiers and buttons are asked about for each of their widgets. `PlayScenes` has scripts of up to two commands
  on four objects that change once, and of one command on five objects, one of them perhaps no widget with the name of another, that change
  twice, with `MaxAttempts = 2`: a retry after a change, and a last one.
* `gui`: two sessions with two commands each, for what is left of an old one; a text of two
  parts, with newlines at both sides of a marker and a marker at its end, and an empty text, which has no part;
  one event or log in a process, besides the errors and ends. More parts make the instance too large; that any text is split
  right and any batch taken in order are the theorems `SplitRight` and `CommandsTaken`.

The number of runs of a script's GUI code, the code's own behaviour, and the
text of messages are not in the model: no property tells them apart.

### Fairness

`MonkeySystem!FairSpec`: each source of events of a thread's event loop is served:
one weak fairness condition for each slot group of the monkey, for the agent's
timer that connects and flushes, for the agent thread's own steps, for the GUI
thread's. Scripts are taken to terminate: strong fairness of `ScriptOk`, because a
script that logs or polls for ever is not the program's fault. Nothing is assumed
of the user or of crashes.

`GuiCall!FairSpec`: both threads go on and code that waits for nothing ends; a
dialog may stay open for ever. `SyncReturns` has strong fairness:
`sendPostedEvents` in `syncSem`'s event returns when the queue is empty, and the
agent thread posts only once a second.

`PacketStream!FairSpec`: the sender's socket takes some bytes when it has some; `readyRead` is emitted for bytes that come in
while its slot does not run, and the slot goes on. `ReadyRead` needs *new* bytes (`arrived' > arrived`): what a poll has left in the
socket alone does not enable it. Nothing is assumed of scripts: they may poll, and run for ever. So
`EachIsReceived` leaves out what the agent may never receive: `[]Unannounced`, bytes that came in during a poll while nothing comes
after them, the hang of `quit_hangs` at the level of bytes, and `[](slot = "script")`. For the
monkey neither can be, by theorem `MonkeyReadsAll`.

`ScriptPlayer!FairSpec`: the agent thread and the GUI thread's event loop go on; an action returns or opens
a modal dialog, in which `GiveUp` applies. Nothing is assumed of the application's changes.

`MonkeyGui!FairSpec`: the event loops and the reading thread run, a script that was sent to a connected
agent ends, the agent connects, and the user closes boxes. Nothing is assumed of the user's other clicks.

## Proofs

`MonkeySystemProofs` proves, for any number of scripts, parts, restarts and reports:

* `TypeCorrect`: `Spec => []TypeOK`.
* `RestartsNotReused`, `NoScriptMissed`: `RestartCredit` and `NoMissedScript` are
  inductive together with the types. `AgentReadyQueue` states what
  `onAgentReadyToRunScript` does to the queue for any queue it is called with, and
  each handler's step cites it.
* `ReportsNeverReordered`: the invariant is `PipeInv`: `emitted` is the
  concatenation of what was handled, what is in the connection and what is in
  `sendBuf`. This is inductive only with `DeadInv`: without
  a link nothing is in the connection, and an application that is not alive has both
  its threads off, its buffers empty and no `CloseAck` counted. A process that died may lose the
  tail of its packets, so that while no application is alive the rest behind what is on
  its way is any sequence; the order stays: `PipeGivesOrder`.
* `CloseMeansFlushed`: `AckInv`: a `CloseAck` in any buffer, or counted in
  `close_ack_`, or used by the loop, means that `Close` was handled in this
  session. With `PipeInv` all packets before it were handled.

`ScriptOrderProofs` proves, for the same constants:

* The packets to the agent are one line, `Line`: what it has buffered, what a poll left in the socket, what is in the
  connection. `LineKinds` says once what a step does to it: two packets or an acknowledgement are put at its end, its head
  is taken, it is cut off or begun anew. The three invariants below are shown for each of these kinds of steps.
* `NameOfItsOwn`: `NameInv`: in the line each script is right behind its own name; one at the head has its name with
  the agent already, and no other script is running then. The property speaks of the running script only.
* `RunInOrder`: `OrderInv`: what ran, what is in the line of a living application and what is queued have rising
  ids, in this order. The line of a process that is gone does not count: its scripts are lost, not run later.
* `OneAtATime`: `FlowInv`: a script in the line, the one that runs and an end on its way back are
  paid for by `scriptRunning_` or by an error that was handled. The property leaves out the ends on their way back, and without
  these it is not inductive: an end that comes late lets the next script go.
* `OneAfterError`: `LastInv`: with the option on and no error handled yet, all that is with the agent, and each
  error on its way back, is of the script sent last, and no end is in front of such an error. `FailInv`: after the error
  one more script at most was sent, and it keeps `scriptRunning_` set. It is why the handlers in the nested event loop, which may
  send a script themselves, send no second one.

`PacketStreamProofs` proves, for any texts, limits and packets:

* `TypeCorrect`.
* `PrefixReceived`: `FrameInv` says that there are boundaries `e[0], e[1], ...` with
  packet *i* lying in the stream between `e[i-1]` and `e[i]`, and that parsing, while
  nothing was found damaged, stops at boundary `e[Len(received)]`. The property alone is
  not inductive: it does not say where the parser stands. `ExtractAt` shows
  that a packet extracted at a boundary is the one that was put there.
* `OnlyLengthDamages`: the parser stands at a boundary, so what it looks at begins like a packet that was sent, and of the
  three reasons for which `calcPacketState` calls a packet damaged only its length is left.
* `MonkeyReadsAll`: the monkey's slot runs no script, so it has read all that has come into its socket.
* `StreamRefines`: each step is a step of `PacketChannel` or changes none of its variables. The end of a session needs
  `AgentStops`: an agent that found a packet damaged is gone until a new process begins.
* `OnlySentPackets`: behind a damaged packet the parser may stand anywhere. `MagicBegins`: every byte belongs to some packet,
  since the boundaries rise up to the end of the stream, and if it is the magic number it is the first byte of it. So what is
  extracted is again one of the packets sent, and it lies behind all those received before it (`MatchInv`).

`EventFilterProofs` proves, for any keys, places, trees, models and bounds:

* `TypeCorrect`.
* `CountersBalance`: `Balanced` speaks of the moments when no key is down; inductive is
  that the counters differ only while the last event is a press (`CountInv`), and that a
  key of such a press is down (`LastInv`).
* `NoPressLost`: with `LastInv`, a key that goes down cannot be taken for a repetition of
  the last event. `FilterStep` says once what the filter does with any event.
* `NoPointerDangles`: `ConnectedInv` counts: a view has at most as many entries in
  `modelToView_` as connections of its signal `destroyed`, and at least one of these when it is in a
  set. The proof uses the library's facts about cardinalities; that there are finitely many entries
  is part of the invariant, not an assumption on `Models`.
* `OwnModelsAreEnough`: `OwnInv`: the entry of a watched view is under its own model, what is
  connected is in the sets.
* `AloneMeansOnce`: `DownAlone` says of a stroke that comes alone and whose key is down that no other key is down, and that
  its press was delivered and counted or is unknown to the filter. The number of times a stroke is recorded is a
  cardinality; `EmitCounts` shows that one more record adds one to it and leaves the other strokes' numbers alone.
* `ClicksCounted`: `LastClickInv`: while a click is delivered the filter remembers it as the last event of the mouse, and
  only then is one remembered, so that a delivery to the parent is told from a new click.

`GuiCallProofs` proves, for any number of calls and of nested event loops:

* `TypeCorrect`: in particular that `activeModalWidget` finds a dialog when one is open, since the loops that are open are
  finitely many (`HasMax`).
* `NoStray`: `SemInv` says what a permit of each semaphore tells. It is inductive only with `PostedInv` (what the agent
  thread can have posted at each of its waits, so that the event that is taken is known, `HeadPosted`) and `FramesInv`:
  the frame of a plain call is on the stack only while its caller waits and `guiRunSem_` is 0, and each call is there
  once (`ApartInv`), so that no second frame can release it again.
* `Refinement`: with `BegunInv` (all calls but the last have had their code begun) each step is a step of `GuiCallSpec`
  or changes none of its variables. `GiveUp` is the step that matters: its wait is reached through the `sync` event,
  which is taken after the code.

`ScriptPlayerProofs` proves, for any application, script and number of attempts:

* `TypeCorrect`: in particular the bound of the attempts, which needs that a function that goes on has made
  fewer than `MaxAttempts` (`PcFits`), and that a pointer is that of a widget.
* `EachActsOnce`: `DoneInv` says more than the property: the commands that acted are those before the current one
  and, between `Act` and `Return`, the current one too; so a retry never follows an action, and `Succeed` never
  leaves behind a command that did not act. `SucceedKeeps`, `RetryKeeps` and `GotoKeeps` are the three
  ways in which a step goes on, and each step cites them.
* `CrashExplained`: `PointerFits`, with `FoundIsAlive`: a look-up returns null or a widget that is alive; and with
  `FaultHasReason`: a `Fault` can be traced back through `FindNext` to a piece that stands for an object that is no widget.
* `NamesLeadBack`: what the application can do to its objects keeps `TreeInv`: no two have the same place, and none
  outlives its parent. When no object on the line to a widget `ReadsOtherwise`, its name has one piece for each of them (`SpelledOn`,
  `NameElements`): this is where a dot would do harm. Then the name leads down the line: the outermost element finds the outermost
  object (`OutermostFound`), and each further one the next object and no `Fault` (`ChildFound`), because the number in the element is
  that of the usable children before the right one that the element may stand for; `LookUp` puts the steps together.
* `CommandsLeadBack`: `ClickRecorded` says which commands can come of a click, from "the first analyzer that answers"
  (`FirstOfIs`); for each of them it is shown that it does the same again, or is misread, and not both. What is misread
  covers what the quotes do to texts, names and keys (`parses`, `Garbled`). For views the
  columns and rows of an index lead to it and to no other item (`PosLeads`: an item is found from any list of which its own
  position is the beginning, by induction on the number of the item); for the keyboard the keys are the
  modifiers in their order and one more (`HeldFacts`, `KeyRight`).
* `ReplaysRepeat` has two parts. While the application is as it was, everything about its widgets is (the lemmas `Same...`), so each
  command of a script that is not misleading is as good as when it was recorded (`FaithfulReplayed`): it names a usable
  widget, finds it and repeats what was asked for. `ReplayInv` adds where the agent thread stands: what
  was done is the beginning of what was asked for, and a pointer that is used is that of the right widget, or null because
  the screen hid it. For an application that changes, `PointerRight` says that a look-up whose name leads straight to the widget that it was
  made for has found this one or nothing; `AskedFit`, that each command fits the event it was recorded for, which
  needs neither the numbers nor the names of the time of recording; and what a command does to the right widget is then
  the event, or it is misread (`ActsRight`).
* The invariant for all of them is `PlayInv`, where the agent thread stands, with `TreeInv` and `AskedFit`.

`MonkeyGuiProofs` proves, for any scripts and bounds:

* `TypeCorrect`.
* `OutputInOrder`: `OutputInv` says that the kept end and the pipe together are the halves of the elements that
  were printed and not shown, in order. `HandlingKeepsOrder` shows it for any cut: from `n` halves come `n \div 2`
  elements, and what is left over is the first half of the next.
* `OwnFinishOnly`: `BoxFits`: an open box tells what became of the process, or there is no controller any more.
* `SplitRight`, for every text: `LoopKeeps` is the invariant of the loop of `splitToExecutableParts`: the parts found so far,
  joined, and the text from `prevPos` on are the text up to the loop's position, and `curLine` counts its lines.
* `CommandsTaken`: `InputInv` is for stdin what `OutputInv` is for stdout, and says that the commands before those in the pipe are
  settled: the list has their parts in order. `BatchTaken` shows it for all that one call of the slot takes, with the
  command behind which the rest is dropped.
* `WaitsForTheEnd`: inductive is that one script at most is on its way, as a command, in the queue, with the agent or as an
  end that is not yet shown, and none when the window is idle (`OneAtATime`). That a command makes at most one part of the queue
  comes from `SplitRight` and `InputInv`; scripts of several parts are the exception that the property names.

Induction over data. The library's induction theorems take an operator as a parameter, which the installed provers cannot
instantiate. `Induction` has them in first-order form, from the well-foundedness of `<`: a property is a set of numbers
(`UpTo`, `LeastNat`), a recursive definition is a function of the number and the value before it (`RecursionExists`). With these the
recursive functions of the models are unfolded once each (`LineSteps`, `UsableSteps`, `PosSteps`, `IndexSteps`,
`JoinedSteps`, `LoopRuns`, `AllPartsSteps`), and the rest is an ordinary induction on sets of numbers.

Assumptions: those named in the modules, which TLC evaluates on each run. Constants are
naturals, Booleans, or sets of naturals; views and tree widgets are different trees; scripts are sequences of pieces. Three
say how an application is described. `ScenesAssumption`: an object has a higher number than its parent, which for a widget is a
widget, and classes have names; any tree can be numbered so. `LiteralAssumption`: an empty literal is read as an empty text. `ItemsAssumption`: an item has a higher number than the one it is under, and no
two items have the same parent, column and row, as with a `QModelIndex`. What the user does, and the calls written by
hand, are for usable widgets when they are recorded (`Possible`, in `Init`); nothing else is assumed of scripts. No theorem assumes
anything about the magic number: a packet that has it in a field is among the exceptions of `NothingMadeUp`.

Only checked by TLC: liveness (`QuitEndsOrHangs`, `ScriptsEnd`, `PlayingEnds`, `TimedCallReturns`, `ScriptEnds`,
`EachIsReceived`), since fairness and `ENABLED` are beyond the prover. Every other property of a run that passes is a theorem.

## Plan

In order; what is done is described above.

1. Done: the composition of the monkey and the agent; the GUI calls; the byte stream.
2. Done: the recorder of keys and clicks.
3. Done: the tree watchers.
4. Done: names, commands and their replay; the window, the two JSON streams, the reader of stdin and the
   splitting of scripts.
5. Not begun: the demonstration mode of the mouse (`moveMouseTo`), preferences of the window.
6. Done: proofs of each module's types, of all invariants and action properties the runs check, and of the two refinements.
   Left is liveness, which the prover cannot reach.

## Not modelled

Of the recorder: the keyboard's auto-repeat, events without a widget under the focus or the
mouse, an event loop run by the application between two deliveries of one event, the watcher
of the macOS menu.

Of the program's ends: `userAppFinished` when it is called in the nested event loop of `onScriptError` (`qtmonkey.cpp:275`, `:339`). The
outer 300 ms are over before its own, so that the throw of `onScriptError` follows at once. At most it starts the
application again just before the exit: without a connection it sends no script.

Of the replay: geometry, scrolling and the Qt events a click is made of; the demonstration mode, in which the mouse is
moved in steps (`moveMouseTo` divides by the horizontal distance); properties of objects; time-outs of `Test.wait`
and their change by a script; extensions of the script by the application.

Of the window: preferences, file dialogs, the splitting of the command line, colours of the log, the editor, and
`QProcess::WriteError`, which would end the controller of a process that still runs; of qtmonkey_app: a user application
that outlives it when it is killed. An element from qtmonkey_app that the window does not understand is left
out, since all of them are made by functions of `qtmonkey_app_api.cpp`.

Time: time-outs may end at any moment after they began. The 300 ms for the last
packets of a dead application are taken to be enough. That a timed GUI call gives up cannot be told from success by
its caller (`agent.cpp:390`); `CallsSpec` has it so. The Qt library, the script engine and the JSON parser appear through
what the code uses of them. Screenshots, the text of messages, and the reading of files and command lines are
formatting, widget code or plain I/O.
