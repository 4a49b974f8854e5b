----------------------------- MODULE AgentSide -----------------------------
(***************************************************************************)
(* The agent inside the user's application: class Agent, which lives in    *)
(* the GUI thread, and its AgentThread, whose event loop owns the          *)
(* connection (CommunicationAgentPart) and runs the scripts.               *)
(*                                                                         *)
(* A script runs on the agent thread's stack, inside readCommands.  It may *)
(* run code in the GUI thread and wait for it, and some of its waiting     *)
(* polls the agent thread's event loop.  Qt does not emit readyRead        *)
(* recursively: what such a poll takes from the connection stays in the    *)
(* socket's buffer until more data arrives in the thread's own loop.       *)
(***************************************************************************)
EXTENDS Wire

CONSTANT MaxReports     \* bound: logs, user events and GUI calls of a session

ASSUME MaxReportsAssumption == MaxReports \in Nat

VARIABLES
    pc,         \* the agent thread: see AgentPc
    gui,        \* the GUI thread: see GuiPc
    quit,       \* thread->quit() was called
    sendBuf,    \* CommunicationAgentPart::sendBuf_, shared under its lock
    sockBuf,    \* received, left in the socket because readyRead is busy
    recvBuf,    \* CommunicationAgentPart::recvBuf_, in packets
    closeAck,   \* CommunicationAgentPart::close_ack_
    curFile,    \* CommunicationAgentPart::currentScriptFileName_, 0 if empty
    current,    \* the script that runs or ran last in this session
    timed,      \* the GUI call under way is the WithTimeout one
    final,      \* the GUI call under way is the one after the script
    calls,      \* history: GUI calls and reports of this session
    emitted,    \* history: all packets appended to sendBuf in this session
    ran         \* history: ids of the scripts that began to run

threadVars  == <<pc, current, timed, final>>
bufferVars  == <<sockBuf, recvBuf, curFile>>
sendVars    == <<sendBuf, emitted>>
guiVars     == <<gui, quit>>
agentVars   == <<threadVars, bufferVars, sendVars, guiVars, closeAck, calls, ran>>

AgentPc == {"off",      \* the process is not running
            "loop",     \* in its event loop
            "read",     \* in readCommands, between two packets
            "script",   \* in a script, or in a poll of one
            "blocked",  \* in guiRunSem_.acquire() of runCodeInGuiThreadSync
            "waiting",  \* waits for func of the WithTimeout variant
            "failed",   \* the script is over with an error
            "ended",    \* ScriptEnd is to be sent
            "done"}     \* run() returned

GuiPc == {"off",
          "loop",       \* the application's event loop
          "closing",    \* in the loop of onAppAboutToQuit
          "dtor",       \* in ~Agent, before thread->quit()
          "join"}       \* in thread->wait()

AgentTypeOK ==
    /\ pc \in AgentPc
    /\ gui \in GuiPc
    /\ quit \in BOOLEAN
    /\ sendBuf \in Seq(MonkeyPacket)
    /\ sockBuf \in Seq(AgentPacket)
    /\ recvBuf \in Seq(AgentPacket)
    /\ closeAck \in Nat
    /\ curFile \in Nat
    /\ current \in Nat
    /\ timed \in BOOLEAN
    /\ final \in BOOLEAN
    /\ calls \in Nat
    /\ emitted \in Seq(MonkeyPacket)
    /\ ran \in Seq(Nat)

AgentInit ==
    /\ pc = "loop"
    /\ gui = "loop"
    /\ quit = FALSE
    /\ sendBuf = <<>>
    /\ sockBuf = <<>>
    /\ recvBuf = <<>>
    /\ closeAck = 0
    /\ curFile = 0
    /\ current = 0
    /\ timed = FALSE
    /\ final = FALSE
    /\ calls = 0
    /\ emitted = <<>>
    /\ ran = <<>>

\* A new process of the user application: Agent::Agent and AgentThread::run
AgentRestart ==
    /\ pc' = "loop"
    /\ gui' = "loop"
    /\ emitted' = <<>>
    /\ calls' = 0
    /\ UNCHANGED <<quit, sendBuf, bufferVars, closeAck, current, timed, final, ran>>

\* CommunicationAgentPart::sendCommand only appends; any thread may call it.
SendCommand(type, id) ==
    /\ sendBuf' = Append(sendBuf, Packet(type, id))
    /\ emitted' = Append(emitted, Packet(type, id))

InBound == calls < MaxReports /\ calls' = calls + 1

\* Does the agent thread process its events: in its own loop, or in a poll
\* of the script or of the WithTimeout variant?
Polling == pc \in {"loop", "script", "waiting"}

-----------------------------------------------------------------------------
(* The connection *)

\* connectToMonkey, up to connected()
ConnectToMonkey ==
    /\ pc = "loop"
    /\ link = "none"
    /\ link' = "pending"
    /\ toMonkey' = sendBuf
    /\ sendBuf' = <<>>
    /\ UNCHANGED <<app, toAgent, threadVars, bufferVars, emitted, guiVars,
                   closeAck, calls, ran>>

\* (A ...Bug stands for a mistake the code does not make, as in QtMonkey.)
\* What was written is not removed from sendBuf_.
SentTwiceBug ==
    /\ Polling
    /\ link # "none"
    /\ sendBuf # <<>> /\ Len(toMonkey) < 3
    /\ toMonkey' = toMonkey \o sendBuf
    /\ UNCHANGED <<app, link, toAgent, threadVars, bufferVars, sendVars, guiVars,
                   closeAck, calls, ran>>

\* sendData, called by the 200 ms timer and by bytesWritten
SendData ==
    /\ Polling
    /\ link # "none"
    /\ sendBuf # <<>>
    /\ toMonkey' = toMonkey \o sendBuf
    /\ sendBuf' = <<>>
    /\ UNCHANGED <<app, link, toAgent, threadVars, bufferVars, emitted, guiVars,
                   closeAck, calls, ran>>

\* readCommands gets all the socket has: what an earlier poll left there and
\* the n packets that have come in now.  After quit() the iteration of the
\* event loop that is under way may still deliver it.
ReadyRead ==
    /\ pc = "loop"
    /\ \E n \in 1..Len(toAgent) :
         /\ recvBuf' = recvBuf \o sockBuf \o SubSeq(toAgent, 1, n)
         /\ toAgent' = SubSeq(toAgent, n + 1, Len(toAgent))
    /\ sockBuf' = <<>>
    /\ pc' = "read"
    /\ UNCHANGED <<app, link, toMonkey, current, timed, final, curFile, sendVars,
                   guiVars, closeAck, calls, ran>>

\* The same event in a poll while readCommands is on the stack: external,
\* the rule of QAbstractSocket that readyRead is not emitted recursively
NestedReadyRead ==
    /\ pc \in {"script", "waiting"}
    /\ toAgent # <<>>
    /\ sockBuf' = sockBuf \o toAgent
    /\ toAgent' = <<>>
    /\ UNCHANGED <<app, link, toMonkey, threadVars, recvBuf, curFile, sendVars,
                   guiVars, closeAck, calls, ran>>

\* The three commands of the loop of readCommands.  A script is run before
\* the next packet is looked at.
SetScriptFileName ==
    /\ pc = "read"
    /\ recvBuf # <<>> /\ Head(recvBuf).type = "SetScriptFileName"
    /\ curFile' = Head(recvBuf).id
    /\ recvBuf' = Tail(recvBuf)
    /\ UNCHANGED <<wireVars, threadVars, sockBuf, sendVars, guiVars, closeAck,
                   calls, ran>>

RunScript ==
    /\ pc = "read"
    /\ recvBuf # <<>> /\ Head(recvBuf).type = "RunScript"
    /\ current' = Head(recvBuf).id
    /\ ran' = Append(ran, Head(recvBuf).id)
    /\ recvBuf' = Tail(recvBuf)
    /\ pc' = "script"
    /\ UNCHANGED <<wireVars, timed, final, sockBuf, curFile, sendVars, guiVars,
                   closeAck, calls>>

CloseAck ==
    /\ pc = "read"
    /\ recvBuf # <<>> /\ Head(recvBuf).type = "CloseAck"
    /\ closeAck' = closeAck + 1
    /\ recvBuf' = Tail(recvBuf)
    /\ UNCHANGED <<wireVars, threadVars, sockBuf, curFile, sendVars, guiVars,
                   calls, ran>>

\* readCommands returns when recvBuf_ is empty
ReadDone ==
    /\ pc = "read"
    /\ recvBuf = <<>>
    /\ pc' = "loop"
    /\ UNCHANGED <<wireVars, current, timed, final, bufferVars, sendVars, guiVars,
                   closeAck, calls, ran>>

-----------------------------------------------------------------------------
(* A script on the agent thread: onRunScriptCommand *)

\* Test.log, or the trace of scriptCheckPoint: sendToLog
ScriptLog ==
    /\ pc = "script"
    /\ InBound
    /\ SendCommand("ScriptLog", current)
    /\ UNCHANGED <<wireVars, threadVars, bufferVars, guiVars, closeAck, ran>>

\* The script needs the GUI thread.  The WithTimeout variant, too, begins
\* with a plain call, which has no timeout.
CallGui ==
    /\ pc = "script"
    /\ InBound
    /\ timed' \in BOOLEAN
    /\ final' = FALSE
    /\ pc' = "blocked"
    /\ UNCHANGED <<wireVars, current, bufferVars, sendVars, guiVars, closeAck, ran>>

\* The script is over without an error: one more WithTimeout call
ScriptOk ==
    /\ pc = "script"
    /\ timed' = TRUE
    /\ final' = TRUE
    /\ pc' = "blocked"
    /\ UNCHANGED <<wireVars, current, bufferVars, sendVars, guiVars, closeAck,
                   calls, ran>>

ScriptThrows ==
    /\ pc = "script"
    /\ pc' = "failed"
    /\ UNCHANGED <<wireVars, current, timed, final, bufferVars, sendVars, guiVars,
                   closeAck, calls, ran>>

\* A script with an error has no end.
NoEndAfterErrorBug ==
    /\ pc = "failed"
    /\ SendCommand("ScriptError", current)
    /\ curFile' = 0
    /\ pc' = "read"
    /\ UNCHANGED <<wireVars, current, timed, final, sockBuf, recvBuf, guiVars, closeAck,
                   calls, ran>>

\* A script with an error is reported twice: ScriptError, then ScriptEnd.
SendScriptError ==
    /\ pc = "failed"
    /\ SendCommand("ScriptError", current)
    /\ pc' = "ended"
    /\ UNCHANGED <<wireVars, current, timed, final, bufferVars, guiVars, closeAck,
                   calls, ran>>

\* The last statement of onRunScriptCommand, and the clear of the file name
\* when the signal runScript returns to readCommands
SendScriptEnd ==
    /\ pc = "ended"
    /\ SendCommand("ScriptEnd", current)
    /\ curFile' = 0
    /\ pc' = "read"
    /\ UNCHANGED <<wireVars, current, timed, final, sockBuf, recvBuf, guiVars,
                   closeAck, calls, ran>>

\* The agent thread's own loop ends after thread->quit().
ThreadExit ==
    /\ pc = "loop"
    /\ quit
    /\ pc' = "done"
    /\ UNCHANGED <<wireVars, current, timed, final, bufferVars, sendVars, guiVars,
                   closeAck, calls, ran>>

-----------------------------------------------------------------------------
(* The GUI thread *)

\* Does the GUI thread process posted events?
GuiLoops == gui \in {"loop", "closing", "dtor"}

\* customEvent: the code of runCodeInGuiThreadSync is run and guiRunSem_
\* released, or the code of the WithTimeout variant and its waitSem
ServeAgent ==
    /\ GuiLoops
    /\ \/ pc = "blocked" /\ timed  /\ pc' = "waiting"
       \/ pc = "blocked" /\ ~timed /\ pc' = "script"
       \/ pc = "waiting" /\ pc' = IF final THEN "ended" ELSE "script"
    /\ UNCHANGED <<wireVars, current, timed, final, bufferVars, sendVars, guiVars,
                   closeAck, calls, ran>>

\* onUserEventInScriptForm: an event of the user, seen by the event filter
UserEvent ==
    /\ GuiLoops
    /\ InBound
    /\ SendCommand("NewUserAppEvent", 0)
    /\ UNCHANGED <<wireVars, threadVars, bufferVars, guiVars, closeAck, ran>>

\* onAppAboutToQuit up to its loop
AppAboutToQuit ==
    /\ gui = "loop"
    /\ SendCommand("Close", 0)
    /\ gui' = "closing"
    /\ UNCHANGED <<wireVars, threadVars, bufferVars, quit, closeAck, calls, ran>>

\* close_ack_ is decremented without a test.
AckNotTestedBug ==
    /\ gui = "closing"
    /\ closeAck' = closeAck - 1
    /\ gui' = "dtor"
    /\ UNCHANGED <<wireVars, threadVars, bufferVars, sendVars, quit, calls, ran>>

\* The wait for CloseAck gives up after a while.
AckTimeoutBug ==
    /\ gui = "closing"
    /\ closeAck' = 0
    /\ gui' = "dtor"
    /\ UNCHANGED <<wireVars, threadVars, bufferVars, sendVars, quit, calls, ran>>

\* hasCloseAck() is true: the loop of onAppAboutToQuit ends
HasCloseAck ==
    /\ gui = "closing"
    /\ closeAck = 1
    /\ closeAck' = 0
    /\ gui' = "dtor"
    /\ UNCHANGED <<wireVars, threadVars, bufferVars, sendVars, quit, calls, ran>>

\* ~Agent: thread->quit().  The flush it posted before may or may not have
\* been run by then: SendData stands for it.
QuitThread ==
    /\ gui = "dtor"
    /\ quit' = TRUE
    /\ gui' = "join"
    /\ UNCHANGED <<wireVars, threadVars, bufferVars, sendVars, closeAck, calls, ran>>

\* What is left of the process when it ends
ProcessGone ==
    /\ pc' = "off"
    /\ gui' = "off"
    /\ quit' = FALSE
    /\ sendBuf' = <<>>
    /\ sockBuf' = <<>>
    /\ recvBuf' = <<>>
    /\ closeAck' = 0
    /\ curFile' = 0
    /\ current' = 0
    /\ timed' = FALSE
    /\ final' = FALSE
    /\ UNCHANGED <<link, toAgent, toMonkey, calls, emitted, ran>>

\* thread->wait() returns and main() with it
AppExits ==
    /\ gui = "join"
    /\ pc = "done"
    /\ app' \in {"ok", "error"}
    /\ ProcessGone

\* The application ends in any other way: exit() in its own code, a signal.
AppDies ==
    /\ app = "alive"
    /\ app' \in {"ok", "error", "crash"}
    /\ ProcessGone

\* onCommunicationError, when the monkey's process is gone: qFatal.  A poll
\* of the event loop is enough to notice.
CommunicationError ==
    /\ Polling
    /\ app' = "crash"
    /\ ProcessGone

AgentThreadStep ==
    \/ ReadyRead \/ SetScriptFileName \/ RunScript \/ CloseAck \/ ReadDone
    \/ SendScriptError \/ SendScriptEnd \/ ThreadExit

GuiThreadStep == ServeAgent \/ HasCloseAck \/ QuitThread \/ AppExits

AgentStep ==
    \/ SendData \/ NestedReadyRead \/ AgentThreadStep
    \/ ScriptLog \/ CallGui \/ ScriptOk \/ ScriptThrows
    \/ GuiThreadStep \/ UserEvent \/ AppAboutToQuit \/ AppDies
=============================================================================
