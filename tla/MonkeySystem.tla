---------------------------- MODULE MonkeySystem ----------------------------
(***************************************************************************)
(* qtmonkey_app, the user application with its agent, and the connection:  *)
(* the composition of QtMonkey and AgentSide over Wire, and what the two   *)
(* promise together.                                                       *)
(***************************************************************************)
EXTENDS QtMonkey, AgentSide, FiniteSets

vars == <<wireVars, monkeyVars, agentVars>>

Init == WireInit /\ MonkeyInit /\ AgentInit

\* The listening socket exists as long as the monkey's process.
Connect ==
    /\ Looping
    /\ ConnectToMonkey
    /\ UNCHANGED monkeyVars

MonkeyGone ==
    /\ ~Looping
    /\ CommunicationError
    /\ UNCHANGED monkeyVars

Restart == RestartUserApp /\ AgentRestart

Next ==
    \/ MonkeyStep /\ UNCHANGED agentVars
    \/ AgentStep /\ UNCHANGED monkeyVars
    \/ Connect
    \/ MonkeyGone
    \/ Restart

Spec == Init /\ [][Next]_vars

-----------------------------------------------------------------------------
(* Invariants *)

\* Every variable has its type.
TypeOK == WireTypeOK /\ MonkeyTypeOK /\ AgentTypeOK

\* A script runs at most once, and scripts run in the order in which they
\* were queued, whatever restarts, errors and lost connections happen
\* between them (toRunList_, the packets of one script, readCommands).
RunsInOrder == \A i, j \in 1..Len(ran) : i < j => ran[i] < ran[j]

\* onAgentReadyToRunScript starts a script marked runAfterAppStart only on
\* account of a restart of its own: no restart is used twice.
RestartCredit == afterStarted + (IF restartDone THEN 1 ELSE 0) <= restarts

\* setScriptRunningState, handleNewConnection and stdinDataReady all look at
\* the queue: with the agent connected and no script running, a script stays
\* in the queue only if it waits for a restart.
NoMissedScript ==
    Looping /\ IsConnected /\ ~scriptRunning /\ toRunList # <<>>
        => Head(toRunList).after /\ ~restartDone

\* SetScriptFileName and RunScript are two packets.  The name the agent holds
\* when it runs a script is that of the script, also when packets were left
\* in the socket by a poll or two scripts were sent in a row.
FileNameOfScript ==
    pc \in {"script", "blocked", "waiting", "failed", "ended"} => curFile = current

\* What the agent has sent and the monkey handled is in the order in which
\* the two threads of the agent produced it, without gaps.
ReportsInOrder ==
    /\ Len(handled) <= Len(emitted)
    /\ \A i \in 1..Len(handled) : handled[i] = emitted[i]

\* onAppAboutToQuit waits for CloseAck so that the user gets every report:
\* once the wait is over, the monkey has handled all that either thread of
\* the agent had sent before Close.
CloseFlushed ==
    gui \in {"dtor", "join"} =>
        \E k \in 1..Len(handled) :
            /\ handled[k].type = "Close"
            /\ \A i \in 1..k : handled[i] = emitted[i]

\* The number of packets of a type in a sequence
NumberOf(type, s) == Cardinality({i \in 1..Len(s) : s[i].type = type})

\* The scripts sent to the agent and not over
InFlight ==
    NumberOf("RunScript", toAgent) + NumberOf("RunScript", sockBuf)
      + NumberOf("RunScript", recvBuf)
      + (IF pc \in {"script", "blocked", "waiting", "failed", "ended"} THEN 1 ELSE 0)

\* scriptRunning_ keeps one script at a time on its way, except that each
\* ScriptError frees the way for one more: the ScriptEnd that follows it is
\* taken for the end of the next script.
OneScriptAtATime == InFlight <= 1 + NumberOf("ScriptError", handled)

\* --exit-on-script-error: the error is looked at after the next script was
\* sent, so one more script may begin before the monkey ends, and no second
\* one (onScriptError, and stdinDataReady in its nested event loop).
OneScriptAfterError ==
    status = "failing" =>
        LET wrong == handled[Len(handled)].id
        IN  \A i, j \in 1..Len(started) :
                started[i].id > wrong /\ started[j].id > wrong => i = j

\* The separator of two parts of a file is <<<RESTART FROM HERE>>>: the
\* second part is to run in an application started after the first part.
RestartBetween ==
    \A i \in 2..Len(started) :
        started[i].after => started[i].session > started[i - 1].session

-----------------------------------------------------------------------------
(* Liveness.  The event loops serve what is pending (each WF below is one   *)
(* event source of one thread), and scripts terminate.  Nothing is assumed  *)
(* of the user, who may type, send scripts, quit or kill the application    *)
(* at any time or never.                                                    *)

FairSpec ==
    /\ Spec
    /\ WF_vars(MonkeyHandler /\ UNCHANGED agentVars)
    /\ WF_vars(Connect)
    /\ WF_vars(MonkeyGone)
    /\ WF_vars(Restart)
    /\ WF_vars(SendData /\ UNCHANGED monkeyVars)
    /\ WF_vars(AgentThreadStep /\ UNCHANGED monkeyVars)
    /\ WF_vars(GuiThreadStep /\ UNCHANGED monkeyVars)
    /\ SF_vars(ScriptOk /\ UNCHANGED monkeyVars)

\* CloseAck is in the socket's buffer, put there by a poll of a script that is
\* over, and nothing will come in any more to make the agent look for it.
CloseAckStuck ==
    /\ gui = "closing"
    /\ pc = "loop"
    /\ toAgent = <<>>
    /\ \E i \in 1..Len(sockBuf) : sockBuf[i].type = "CloseAck"

\* ~Agent waits for a thread that waits for the GUI thread.
JoinDeadlock == gui = "join" /\ pc \in {"blocked", "waiting"}

\* An application that is asked to quit does quit, or it hangs in one of two
\* ways: CloseAckStuck, or JoinDeadlock after a script that was sent behind
\* CloseAck (onAppAboutToQuit, ~Agent).
QuitEndsOrHangs ==
    gui = "closing" ~> (gui = "off" \/ CloseAckStuck \/ JoinDeadlock)

\* A RunScript is stuck in the socket's buffer in the same way.
RunScriptStuck(n) ==
    /\ pc = "loop"
    /\ toAgent = <<>>
    /\ \E i \in 1..Len(sockBuf) : sockBuf[i] = Packet("RunScript", n)

\* The end of every script that was sent to the agent is reported, unless the
\* monkey or the application ends first, or one of the two hangs gets in the
\* way: the report needs the timer that flushes sendBuf_, the GUI calls of
\* the script, and all packets before it (sendData, onRunScriptCommand).
ScriptsEnd ==
    \A n \in 1..MaxScripts :
        (\E i \in 1..Len(started) : started[i].id = n /\ started[i].session = restarts)
            ~> \/ \E i \in 1..Len(handled) : handled[i] = Packet("ScriptEnd", n)
               \/ app # "alive" \/ ~Looping
               \/ RunScriptStuck(n) \/ JoinDeadlock

\* What tests/gui_restart_test.py expects of the first part of a script that
\* quits the application: the application ends.
QuitEnds == gui = "closing" ~> gui = "off"
=============================================================================
