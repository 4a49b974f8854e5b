------------------------------ MODULE QtMonkey ------------------------------
(***************************************************************************)
(* qtmonkey_app: class QtMonkey and its end of the connection              *)
(* (CommunicationMonkeyPart).  One thread runs an event loop: every action *)
(* is one handler, or the part of a handler up to the nested event loop of *)
(* processEventsFor, in which the other handlers may run.                  *)
(***************************************************************************)
EXTENDS Wire

CONSTANTS
    FileParts,          \* executable parts of the --script files
    PrefsCode,          \* BOOLEAN: is there code to run before all scripts
    ExitOnScriptError,  \* BOOLEAN: --exit-on-script-error
    MaxScripts,         \* bound: scripts ever queued
    MaxRestarts         \* bound: restarts of the user application

ASSUME FilePartsAssumption == FileParts \in Nat
ASSUME FlagsAssumption     == PrefsCode \in BOOLEAN /\ ExitOnScriptError \in BOOLEAN
ASSUME BoundsAssumption    == MaxScripts \in Nat /\ MaxRestarts \in Nat

VARIABLES
    toRunList,      \* the queue of scripts, records of id and runAfterAppStart
    scriptRunning,  \* QtMonkey::scriptRunning_
    restartDone,    \* QtMonkey::restartDone_
    status,         \* "running"; "draining": in the nested event loop of
                    \* userAppFinished; "failing": in that of onScriptError;
                    \* "success" and "fatal": the monkey's process is over
    nextId,         \* number of scripts queued so far; their ids are 1..nextId
    handled,        \* history: packets handled since the user app was started
    started,        \* history: the scripts sent to the agent, with the number
                    \* of restarts before
    afterStarted,   \* history: how many of them asked for a restart
    restarts        \* history: restarts of the user application

queueVars   == <<toRunList, nextId>>
runVars     == <<scriptRunning, restartDone, started, afterStarted>>
monkeyVars  == <<queueVars, runVars, status, handled, restarts>>

ScriptRec  == [id : Nat, after : BOOLEAN]
StartedRec == [id : Nat, after : BOOLEAN, session : Nat]

MonkeyTypeOK ==
    /\ toRunList \in Seq(ScriptRec)
    /\ scriptRunning \in BOOLEAN
    /\ restartDone \in BOOLEAN
    /\ status \in {"running", "draining", "failing", "success", "fatal"}
    /\ nextId \in Nat
    /\ handled \in Seq(MonkeyPacket)
    /\ started \in Seq(StartedRec)
    /\ afterStarted \in Nat
    /\ restarts \in Nat

\* runScriptFromFile, over the parts of all files.  With preferences code
\* each part is preceded by a script of its own, and it is that one which is
\* marked; in both cases the first of the queue is not.
FileScripts ==
    [i \in 1..(IF PrefsCode THEN 2 * FileParts ELSE FileParts) |->
        [id |-> i, after |-> i > 1 /\ (PrefsCode => i % 2 = 1)]]

MonkeyInit ==
    /\ toRunList = FileScripts
    /\ scriptRunning = FALSE
    /\ restartDone = FALSE
    /\ status = "running"
    /\ nextId = Len(FileScripts)
    /\ handled = <<>>
    /\ started = <<>>
    /\ afterStarted = 0
    /\ restarts = 0

\* Is some event loop of the monkey's main thread running?
Looping == status \in {"running", "draining", "failing"}

-----------------------------------------------------------------------------
(* The operators named ...Bug are mistakes the code does not make: each one *)
(* takes the place of the definition after it to show that a property of    *)
(* the system would notice.                                                  *)

\* Packets are read in the nested event loop of onScriptError, too.
ReadInErrorBug == status \in {"running", "draining", "failing"}

\* The event loop that delivers readyRead: in "failing" the socket's own
\* readyRead is still being handled, and Qt does not emit it recursively.
Reading == status \in {"running", "draining"}

\* scriptRunning_ is not looked at.
BusyIgnoredBug(connected, running, q) ==
    connected /\ q # <<>> /\ (Head(q).after => restartDone)

\* The early returns of onAgentReadyToRunScript, when isConnectedState() =
\* connected, scriptRunning_ = running and the queue is q
CanSend(connected, running, q) ==
    connected /\ ~running /\ q # <<>> /\ (Head(q).after => restartDone)

\* The file name is sent after the script.
NameAfterBug(id) ==
    <<Packet("RunScript", id), Packet("SetScriptFileName", id)>>

ScriptPackets(id) ==
    <<Packet("SetScriptFileName", id), Packet("RunScript", id)>>

\* The script stays at the head of the queue.
NotPoppedBug(q) ==
    /\ toRunList' = q
    /\ toAgent' = toAgent \o ScriptPackets(Head(q).id)
    /\ scriptRunning' = TRUE
    /\ UNCHANGED <<restartDone, started, afterStarted>>

\* restartDone_ is not reset.
RestartKeptBug(q) ==
    /\ toRunList' = Tail(q)
    /\ toAgent' = toAgent \o ScriptPackets(Head(q).id)
    /\ scriptRunning' = TRUE
    /\ afterStarted' = afterStarted + (IF Head(q).after THEN 1 ELSE 0)
    /\ UNCHANGED <<restartDone, started>>

\* The rest of onAgentReadyToRunScript
SendScript(q) ==
    /\ toRunList' = Tail(q)
    /\ toAgent' = toAgent \o ScriptPackets(Head(q).id)
    /\ scriptRunning' = TRUE
    /\ restartDone' = (restartDone /\ ~Head(q).after)
    /\ started' = Append(started, [id |-> Head(q).id, after |-> Head(q).after,
                                   session |-> restarts])
    /\ afterStarted' = afterStarted + (IF Head(q).after THEN 1 ELSE 0)

AgentReadyToRunScript(connected, running, q) ==
    \/ CanSend(connected, running, q) /\ SendScript(q)
    \/ /\ ~CanSend(connected, running, q)
       /\ toRunList' = q
       /\ scriptRunning' = running
       /\ UNCHANGED <<toAgent, restartDone, started, afterStarted>>

\* setScriptRunningState(false)
ScriptNotRunning == AgentReadyToRunScript(IsConnected, FALSE, toRunList)

\* CommunicationMonkeyPart::handleNewConnection
HandleNewConnection ==
    /\ Looping
    /\ link = "pending"
    /\ link' = "accepted"
    /\ AgentReadyToRunScript(TRUE, scriptRunning, toRunList)
    /\ UNCHANGED <<app, toMonkey, nextId, status, handled, restarts>>

\* CommunicationMonkeyPart::readDataFromClientSocket takes the next packet,
\* of one of the types ts, and its handler is run: the text it prints, or
\* the answer it sends, is what "handled" records.
Extract(ts) ==
    /\ Reading
    /\ IsConnected
    /\ toMonkey # <<>>
    /\ Head(toMonkey).type \in ts
    /\ toMonkey' = Tail(toMonkey)
    /\ handled' = Append(handled, Head(toMonkey))
    /\ UNCHANGED <<app, link, nextId, restarts>>

\* onNewUserAppEvent and onScriptLog only print.
PrintReport ==
    /\ Extract({"NewUserAppEvent", "ScriptLog"})
    /\ UNCHANGED <<toAgent, toRunList, runVars, status>>

OnScriptEnd ==
    /\ Extract({"ScriptEnd"})
    /\ ScriptNotRunning
    /\ UNCHANGED status

\* The next script is sent before the error is printed, and before
\* --exit-on-script-error has its say.
OnScriptError ==
    /\ Extract({"ScriptError"})
    /\ ScriptNotRunning
    /\ status' = IF ExitOnScriptError THEN "failing" ELSE status

\* Close is answered only when no script runs.
BusyNoAckBug ==
    /\ Extract({"Close"})
    /\ toAgent' = IF scriptRunning THEN toAgent ELSE Append(toAgent, Packet("CloseAck", 0))
    /\ UNCHANGED <<toRunList, runVars, status>>

\* The packet Close is answered at once.
AnswerClose ==
    /\ Extract({"Close"})
    /\ toAgent' = Append(toAgent, Packet("CloseAck", 0))
    /\ UNCHANGED <<toRunList, runVars, status>>

\* The throw after the nested event loop of onScriptError: notify turns it
\* into qFatal, and the message handler into exit(EXIT_FAILURE).
ScriptErrorExit ==
    /\ status = "failing"
    /\ status' = "fatal"
    /\ UNCHANGED <<wireVars, queueVars, runVars, handled, restarts>>

\* CommunicationMonkeyPart::clientDisconnected, after the process at the
\* other end is gone.  Data the peer sent is read first, unless the peer died
\* with unread data: then the connection is reset and the rest is lost.
ClientDisconnected ==
    /\ Looping
    /\ app # "alive"
    /\ IsConnected
    /\ toMonkey = <<>> \/ toAgent # <<>>
    /\ link' = "none"
    /\ toAgent' = <<>>
    /\ toMonkey' = <<>>
    /\ UNCHANGED <<app, monkeyVars>>

\* The scripts are queued and nobody looks at the queue.
QueuedOnlyBug ==
    /\ Looping
    /\ \E n \in 1..2 :
         /\ nextId + n <= MaxScripts
         /\ nextId' = nextId + n
         /\ toRunList' = toRunList
                \o [i \in 1..n |-> [id |-> nextId + i, after |-> FALSE]]
    /\ UNCHANGED <<wireVars, runVars, status, handled, restarts>>

\* stdinDataReady: one "run script" of n executable parts arrived.  None of
\* them is marked to wait for a restart.
StdinRunScript ==
    /\ Looping
    /\ \E n \in 1..2 :
         /\ nextId + n <= MaxScripts
         /\ nextId' = nextId + n
         /\ AgentReadyToRunScript(IsConnected, scriptRunning,
                toRunList \o [i \in 1..n |-> [id |-> nextId + i, after |-> FALSE]])
    /\ UNCHANGED <<app, link, toMonkey, status, handled, restarts>>

\* userAppError: a crash, or the application did not start.
UserAppError ==
    /\ Looping
    /\ app = "crash"
    /\ status' = "fatal"
    /\ UNCHANGED <<wireVars, queueVars, runVars, handled, restarts>>

\* userAppFinished up to its nested event loop of 300 ms.  The call in "failing"
\* is left out: the 300 ms of onScriptError are over before its own, and the
\* throw follows at once, in which time there is no link to send a script by.
UserAppFinished ==
    /\ status = "running"
    /\ app \in {"ok", "error"}
    /\ status' = "draining"
    /\ UNCHANGED <<wireVars, queueVars, runVars, handled, restarts>>

\* The rest of userAppFinished.  The 300 ms are enough for what the dead
\* process left in the connection, and for its end, to be handled.
FinishedBadly ==
    /\ status = "draining"
    /\ link = "none"
    /\ app = "error"
    /\ status' = "fatal"
    /\ UNCHANGED <<wireVars, queueVars, runVars, handled, restarts>>

FinishedLast ==
    /\ status = "draining"
    /\ link = "none"
    /\ app = "ok"
    /\ ScriptNotRunning
    /\ toRunList = <<>>
    /\ status' = "success"
    /\ UNCHANGED <<app, link, toMonkey, nextId, handled, restarts>>

\* The rest of userAppFinished when scripts are left: the application is
\* started again.
RestartUserApp ==
    /\ status = "draining"
    /\ link = "none"
    /\ app = "ok"
    /\ toRunList # <<>>
    /\ restarts < MaxRestarts
    /\ scriptRunning' = FALSE
    /\ restartDone' = TRUE
    /\ app' = "alive"
    /\ status' = "running"
    /\ handled' = <<>>
    /\ restarts' = restarts + 1
    /\ UNCHANGED <<link, toAgent, toMonkey, queueVars, started, afterStarted>>

\* What the event loop does by itself, and what the user at stdin does
MonkeyHandler ==
    \/ HandleNewConnection \/ PrintReport \/ OnScriptEnd \/ OnScriptError
    \/ AnswerClose \/ ScriptErrorExit \/ ClientDisconnected
    \/ UserAppError \/ UserAppFinished \/ FinishedBadly \/ FinishedLast

MonkeyStep == MonkeyHandler \/ StdinRunScript
=============================================================================
