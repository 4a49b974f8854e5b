-------------------------- MODULE MonkeySystemProofs --------------------------
(***************************************************************************)
(* Theorems about MonkeySystem for every value of its constants.           *)
(***************************************************************************)
EXTENDS MonkeySystem, SequenceTheorems, TLAPS

-----------------------------------------------------------------------------
(* Type correctness *)

\* The queue made from the --script files is a queue of scripts.
LEMMA FileScriptsType == FileScripts \in Seq(ScriptRec)
<1> DEFINE n == IF PrefsCode THEN 2 * FileParts ELSE FileParts
<1>1. n \in Nat
  BY FilePartsAssumption
<1>2. \A i \in 1..n :
          [id |-> i, after |-> i > 1 /\ (PrefsCode => i % 2 = 1)] \in ScriptRec
  BY <1>1 DEF ScriptRec
<1>3. FileScripts \in [1..n -> ScriptRec]
  BY <1>2 DEF FileScripts
<1> QED
  BY <1>1, <1>3, SeqDef

\* onAgentReadyToRunScript keeps the types of what it changes.
LEMMA AgentReadyType ==
    ASSUME TypeOK, NEW connected \in BOOLEAN, NEW running \in BOOLEAN,
           NEW q \in Seq(ScriptRec),
           AgentReadyToRunScript(connected, running, q)
    PROVE  /\ toRunList' \in Seq(ScriptRec)
           /\ toAgent' \in Seq(AgentPacket)
           /\ scriptRunning' \in BOOLEAN
           /\ restartDone' \in BOOLEAN
           /\ started' \in Seq(StartedRec)
           /\ afterStarted' \in Nat
<1>1. CASE CanSend(connected, running, q) /\ SendScript(q)
  <2>1. Head(q) \in ScriptRec /\ Tail(q) \in Seq(ScriptRec)
    BY <1>1 DEF CanSend
  <2>2. Head(q).id \in Nat /\ Head(q).after \in BOOLEAN
    BY <2>1 DEF ScriptRec
  <2>3. ScriptPackets(Head(q).id) \in Seq(AgentPacket)
    BY <2>2 DEF ScriptPackets, Packet, AgentPacket, PacketTypeForAgent
  <2>4. toAgent' \in Seq(AgentPacket)
    BY <1>1, <2>3, ConcatProperties DEF SendScript, TypeOK, WireTypeOK
  <2>5. started' \in Seq(StartedRec)
    BY <1>1, <2>2 DEF SendScript, TypeOK, MonkeyTypeOK, StartedRec
  <2> QED
    BY <1>1, <2>1, <2>2, <2>4, <2>5 DEF SendScript, TypeOK, MonkeyTypeOK
<1>2. CASE UNCHANGED <<toAgent, restartDone, started, afterStarted>>
           /\ toRunList' = q /\ scriptRunning' = running
  BY <1>2 DEF TypeOK, WireTypeOK, MonkeyTypeOK
<1> QED
  BY <1>1, <1>2 DEF AgentReadyToRunScript

LEMMA EmptyIsSeq ==
    /\ <<>> \in Seq(AgentPacket)
    /\ <<>> \in Seq(MonkeyPacket)
    /\ <<>> \in Seq(StartedRec)
    /\ <<>> \in Seq(Nat)
BY EmptySeq

LEMMA TypeInit == Init => TypeOK
<1> SUFFICES ASSUME Init PROVE TypeOK
  OBVIOUS
<1>1. WireTypeOK
  BY DEF Init, WireInit, WireTypeOK, AppState
<1>2. MonkeyTypeOK
  <2>1. Len(FileScripts) \in Nat
    BY FileScriptsType
  <2> QED
    BY <2>1, FileScriptsType, EmptyIsSeq DEF Init, MonkeyInit, MonkeyTypeOK
<1>3. AgentTypeOK
  BY EmptyIsSeq DEF Init, AgentInit, AgentTypeOK, AgentPc, GuiPc
<1> QED
  BY <1>1, <1>2, <1>3 DEF TypeOK

\* What readDataFromClientSocket does before the handler of the packet is run
LEMMA ExtractType ==
    ASSUME TypeOK, NEW ts, Extract(ts)
    PROVE  /\ toMonkey' \in Seq(MonkeyPacket)
           /\ handled' \in Seq(MonkeyPacket)
BY DEF Extract, TypeOK, WireTypeOK, MonkeyTypeOK

LEMMA SendCommandType ==
    ASSUME TypeOK, NEW type \in PacketTypeForMonkey, NEW id \in Nat,
           SendCommand(type, id)
    PROVE  /\ sendBuf' \in Seq(MonkeyPacket)
           /\ emitted' \in Seq(MonkeyPacket)
BY DEF SendCommand, Packet, MonkeyPacket, TypeOK, AgentTypeOK

LEMMA MonkeyStepType ==
    ASSUME TypeOK, MonkeyStep, UNCHANGED agentVars
    PROVE  TypeOK'
<1> USE DEF TypeOK, WireTypeOK, MonkeyTypeOK, queueVars, runVars, monkeyVars
<1>a. AgentTypeOK'
  BY DEF AgentTypeOK, agentVars, threadVars, bufferVars, sendVars, guiVars
<1>1. CASE HandleNewConnection
  BY <1>1, <1>a, AgentReadyType DEF HandleNewConnection
<1>2. CASE PrintReport
  BY <1>2, <1>a, ExtractType DEF PrintReport, Extract
<1>3. CASE OnScriptEnd
  BY <1>3, <1>a, ExtractType, AgentReadyType
     DEF OnScriptEnd, Extract, ScriptNotRunning, IsConnected
<1>4. CASE OnScriptError
  BY <1>4, <1>a, ExtractType, AgentReadyType
     DEF OnScriptError, Extract, ScriptNotRunning, IsConnected
<1>5. CASE AnswerClose
  BY <1>5, <1>a, ExtractType
     DEF AnswerClose, Extract, Packet, AgentPacket, PacketTypeForAgent
<1>6. CASE ScriptErrorExit \/ UserAppError \/ UserAppFinished \/ FinishedBadly
  BY <1>6, <1>a
     DEF ScriptErrorExit, UserAppError, UserAppFinished, FinishedBadly, wireVars
<1>7. CASE ClientDisconnected
  BY <1>7, <1>a DEF ClientDisconnected
<1>8. CASE StdinRunScript
  <2>1. PICK n \in 1..2 :
          /\ nextId' = nextId + n
          /\ AgentReadyToRunScript(IsConnected, scriptRunning,
               toRunList \o [i \in 1..n |-> [id |-> nextId + i, after |-> FALSE]])
    BY <1>8 DEF StdinRunScript
  <2>2. [i \in 1..n |-> [id |-> nextId + i, after |-> FALSE]] \in [1..n -> ScriptRec]
    BY DEF ScriptRec
  <2>3. [i \in 1..n |-> [id |-> nextId + i, after |-> FALSE]] \in Seq(ScriptRec)
    BY <2>2, 1 \in Nat, 2 \in Nat, n \in Nat, SeqDef
  <2>4. toRunList \o [i \in 1..n |-> [id |-> nextId + i, after |-> FALSE]]
          \in Seq(ScriptRec)
    BY <2>3, ConcatProperties
  <2>5. IsConnected \in BOOLEAN
    BY DEF IsConnected
  <2>6. nextId' \in Nat
    BY <2>1
  <2> HIDE DEF TypeOK
  <2>7. /\ toRunList' \in Seq(ScriptRec)
        /\ toAgent' \in Seq(AgentPacket)
        /\ scriptRunning' \in BOOLEAN
        /\ restartDone' \in BOOLEAN
        /\ started' \in Seq(StartedRec)
        /\ afterStarted' \in Nat
    BY <2>1, <2>4, <2>5, AgentReadyType DEF TypeOK
  <2> QED
    BY <1>8, <1>a, <2>6, <2>7 DEF StdinRunScript, TypeOK
<1>9. CASE FinishedLast
  BY <1>9, <1>a, AgentReadyType DEF FinishedLast, ScriptNotRunning, IsConnected
<1> QED
  BY <1>1, <1>2, <1>3, <1>4, <1>5, <1>6, <1>7, <1>8, <1>9
     DEF MonkeyStep, MonkeyHandler

LEMMA AgentStepType ==
    ASSUME TypeOK, AgentStep, UNCHANGED monkeyVars
    PROVE  TypeOK'
<1> USE DEF TypeOK, WireTypeOK, AgentTypeOK, wireVars, threadVars, bufferVars,
            sendVars, guiVars, agentVars, AgentPc, GuiPc
<1>a. MonkeyTypeOK'
  BY DEF MonkeyTypeOK, monkeyVars, queueVars, runVars
<1>1. CASE SendData
  BY <1>1, <1>a, ConcatProperties DEF SendData
<1>2. CASE NestedReadyRead
  BY <1>2, <1>a, ConcatProperties DEF NestedReadyRead
<1>3. CASE ReadyRead
  <2>1. PICK n \in 1..Len(toAgent) :
          /\ recvBuf' = recvBuf \o sockBuf \o SubSeq(toAgent, 1, n)
          /\ toAgent' = SubSeq(toAgent, n + 1, Len(toAgent))
    BY <1>3 DEF ReadyRead
  <2>2. /\ SubSeq(toAgent, 1, n) \in Seq(AgentPacket)
        /\ SubSeq(toAgent, n + 1, Len(toAgent)) \in Seq(AgentPacket)
    BY SubSeqProperties, ElementOfSeq, LenProperties
  <2>3. recvBuf' \in Seq(AgentPacket)
    BY <2>1, <2>2, ConcatProperties
  <2> QED
    BY <1>3, <1>a, <2>1, <2>2, <2>3 DEF ReadyRead
<1>4. CASE SetScriptFileName \/ RunScript \/ CloseAck \/ ReadDone
  <2>1. recvBuf # <<>> => /\ Head(recvBuf).id \in Nat
                          /\ Tail(recvBuf) \in Seq(AgentPacket)
    <3>1. recvBuf # <<>> => Head(recvBuf) \in AgentPacket
      OBVIOUS
    <3> QED
      BY <3>1 DEF AgentPacket
  <2> QED
    <3>1. CASE SetScriptFileName
      BY <3>1, <1>a, <2>1 DEF SetScriptFileName
    <3>2. CASE RunScript
      BY <3>2, <1>a, <2>1 DEF RunScript
    <3>3. CASE CloseAck
      BY <3>3, <1>a, <2>1 DEF CloseAck
    <3>4. CASE ReadDone
      BY <3>4, <1>a DEF ReadDone
    <3> QED
      BY <1>4, <3>1, <3>2, <3>3, <3>4
<1>5. CASE ScriptLog
  BY <1>5, <1>a, SendCommandType DEF ScriptLog, InBound, PacketTypeForMonkey
<1>6. CASE CallGui \/ ScriptOk \/ ScriptThrows \/ ThreadExit
  <2>1. CASE CallGui
    <3>1. calls' \in Nat
      BY <2>1 DEF CallGui, InBound
    <3> QED
      BY <2>1, <3>1, <1>a DEF CallGui
  <2>2. CASE ScriptOk
    BY <2>2, <1>a DEF ScriptOk
  <2>3. CASE ScriptThrows
    BY <2>3, <1>a DEF ScriptThrows
  <2>4. CASE ThreadExit
    BY <2>4, <1>a DEF ThreadExit
  <2> QED
    BY <1>6, <2>1, <2>2, <2>3, <2>4
<1>7. CASE SendScriptError
  BY <1>7, <1>a, SendCommandType DEF SendScriptError, PacketTypeForMonkey
<1>8. CASE SendScriptEnd
  BY <1>8, <1>a, SendCommandType DEF SendScriptEnd, PacketTypeForMonkey
<1>9. CASE ServeAgent
  BY <1>9, <1>a DEF ServeAgent
<1>10. CASE UserEvent
  BY <1>10, <1>a, SendCommandType DEF UserEvent, InBound, PacketTypeForMonkey
<1>11. CASE AppAboutToQuit
  BY <1>11, <1>a, SendCommandType DEF AppAboutToQuit, PacketTypeForMonkey
<1>12. CASE HasCloseAck \/ QuitThread
  <2>1. CASE HasCloseAck
    BY <2>1, <1>a DEF HasCloseAck
  <2>2. CASE QuitThread
    BY <2>2, <1>a DEF QuitThread
  <2> QED
    BY <1>12, <2>1, <2>2
<1>13. CASE AppExits \/ AppDies
  <2>1. app' \in AppState /\ ProcessGone
    BY <1>13 DEF AppExits, AppDies, AppState
  <2> QED
    BY <2>1, <1>a, EmptyIsSeq DEF ProcessGone
<1> QED
  BY <1>1, <1>2, <1>3, <1>4, <1>5, <1>6, <1>7, <1>8, <1>9, <1>10, <1>11, <1>12, <1>13
     DEF AgentStep, AgentThreadStep, GuiThreadStep

LEMMA TypeStep == TypeOK /\ [Next]_vars => TypeOK'
<1> SUFFICES ASSUME TypeOK, [Next]_vars PROVE TypeOK'
  OBVIOUS
<1> USE DEF TypeOK, WireTypeOK, MonkeyTypeOK, AgentTypeOK
<1>1. CASE Connect
  BY <1>1 DEF Connect, ConnectToMonkey, monkeyVars, queueVars, runVars, threadVars,
              bufferVars, guiVars
<1>2. CASE MonkeyGone
  BY <1>2, EmptyIsSeq DEF MonkeyGone, CommunicationError, ProcessGone, monkeyVars, queueVars,
              runVars, AppState, AgentPc, GuiPc
<1>3. CASE Restart
  <2>1. WireTypeOK'
    BY <1>3 DEF Restart, RestartUserApp, AppState
  <2>2. restarts' \in Nat
    BY <1>3 DEF Restart, RestartUserApp
  <2>3. MonkeyTypeOK'
    BY <1>3, <2>2, EmptyIsSeq DEF Restart, RestartUserApp, queueVars
  <2>4. AgentTypeOK'
    BY <1>3, EmptyIsSeq DEF Restart, AgentRestart, bufferVars, AgentPc, GuiPc
  <2> QED
    BY <2>1, <2>3, <2>4
<1>4. CASE UNCHANGED vars
  BY <1>4 DEF vars, wireVars, monkeyVars, agentVars, queueVars, runVars, threadVars,
              bufferVars, sendVars, guiVars
<1> QED
  BY <1>1, <1>2, <1>3, <1>4, MonkeyStepType, AgentStepType DEF Next

\* Every variable always has its type (all actions of the two processes).
THEOREM TypeCorrect == Spec => []TypeOK
<1> QED
  BY TypeInit, TypeStep, PTL DEF Spec

-----------------------------------------------------------------------------
(* The queue: RestartCredit and NoMissedScript are inductive as they stand  *)
(* (given the types).  Everything that changes the variables they speak of  *)
(* goes through onAgentReadyToRunScript, or is the restart.                 *)

QueueInv == RestartCredit /\ NoMissedScript

LEMMA AgentReadyQueue ==
    ASSUME TypeOK, QueueInv, NEW connected \in BOOLEAN, NEW running \in BOOLEAN,
           NEW q \in Seq(ScriptRec),
           AgentReadyToRunScript(connected, running, q),
           restarts' = restarts, IsConnected' => connected
    PROVE  QueueInv'
<1>1. CASE CanSend(connected, running, q) /\ SendScript(q)
  <2>1. Head(q) \in ScriptRec
    BY <1>1 DEF CanSend
  <2>2. Head(q).after \in BOOLEAN
    BY <2>1 DEF ScriptRec
  <2>3. RestartCredit'
    BY <1>1, <2>2
       DEF CanSend, SendScript, QueueInv, RestartCredit, TypeOK, MonkeyTypeOK
  <2>4. NoMissedScript'
    BY <1>1 DEF SendScript, NoMissedScript
  <2> QED
    BY <2>3, <2>4 DEF QueueInv
<1>2. CASE /\ ~CanSend(connected, running, q)
           /\ toRunList' = q
           /\ scriptRunning' = running
           /\ UNCHANGED <<restartDone, afterStarted>>
  <2>1. RestartCredit'
    BY <1>2 DEF QueueInv, RestartCredit
  <2>2. NoMissedScript'
    BY <1>2 DEF CanSend, NoMissedScript
  <2> QED
    BY <2>1, <2>2 DEF QueueInv
<1> QED
  BY <1>1, <1>2 DEF AgentReadyToRunScript

\* A step that leaves the queue alone and does not connect
LEMMA QueueUnchanged ==
    ASSUME QueueInv, UNCHANGED <<toRunList, scriptRunning, restartDone, afterStarted,
                                 restarts>>,
           Looping' => Looping, IsConnected' => IsConnected
    PROVE  QueueInv'
BY DEF QueueInv, RestartCredit, NoMissedScript

LEMMA QueueStep == TypeOK /\ QueueInv /\ [Next]_vars => QueueInv'
<1> SUFFICES ASSUME TypeOK, QueueInv, [Next]_vars PROVE QueueInv'
  OBVIOUS
<1>0. toRunList \in Seq(ScriptRec) /\ scriptRunning \in BOOLEAN /\ IsConnected \in BOOLEAN
  BY DEF TypeOK, MonkeyTypeOK, IsConnected
<1>1. CASE HandleNewConnection
  <2>1. AgentReadyToRunScript(TRUE, scriptRunning, toRunList) /\ restarts' = restarts
    BY <1>1 DEF HandleNewConnection
  <2> QED
    BY <1>0, <2>1, AgentReadyQueue
<1>2. CASE OnScriptEnd \/ OnScriptError \/ FinishedLast
  <2>1. /\ AgentReadyToRunScript(IsConnected, FALSE, toRunList)
        /\ restarts' = restarts
        /\ link' = link
    BY <1>2 DEF OnScriptEnd, OnScriptError, FinishedLast, Extract, ScriptNotRunning
  <2> QED
    BY <1>0, <2>1, AgentReadyQueue DEF IsConnected
<1>3. CASE StdinRunScript
  <2>1. PICK n \in 1..2 :
          AgentReadyToRunScript(IsConnected, scriptRunning,
            toRunList \o [i \in 1..n |-> [id |-> nextId + i, after |-> FALSE]])
    BY <1>3 DEF StdinRunScript
  <2>2. nextId \in Nat
    BY DEF TypeOK, MonkeyTypeOK
  <2>3. [i \in 1..n |-> [id |-> nextId + i, after |-> FALSE]] \in [1..n -> ScriptRec]
    BY <2>2 DEF ScriptRec
  <2>4. [i \in 1..n |-> [id |-> nextId + i, after |-> FALSE]] \in Seq(ScriptRec)
    BY <2>3, 1 \in Nat, 2 \in Nat, n \in Nat, SeqDef
  <2>5. toRunList \o [i \in 1..n |-> [id |-> nextId + i, after |-> FALSE]]
          \in Seq(ScriptRec)
    BY <1>0, <2>4, ConcatProperties
  <2>6. restarts' = restarts /\ link' = link
    BY <1>3 DEF StdinRunScript
  <2> QED
    BY <1>0, <2>1, <2>5, <2>6, AgentReadyQueue DEF IsConnected
<1>4. CASE PrintReport \/ AnswerClose \/ ScriptErrorExit \/ ClientDisconnected
             \/ UserAppError \/ UserAppFinished \/ FinishedBadly
  BY <1>4, QueueUnchanged
     DEF PrintReport, AnswerClose, ScriptErrorExit, ClientDisconnected, UserAppError,
         UserAppFinished, FinishedBadly, Extract, queueVars, runVars, wireVars,
         monkeyVars, Looping, IsConnected
<1>5. CASE AgentStep /\ UNCHANGED monkeyVars
  <2>1. link' = link
    BY <1>5 DEF AgentStep, AgentThreadStep, GuiThreadStep, wireVars, ProcessGone,
         SendData, NestedReadyRead, ReadyRead, SetScriptFileName, RunScript, CloseAck,
         ReadDone, SendScriptError, SendScriptEnd, ThreadExit, ScriptLog, CallGui,
         ScriptOk, ScriptThrows, ServeAgent, HasCloseAck, QuitThread, AppExits,
         UserEvent, AppAboutToQuit, AppDies
  <2> QED
    BY <1>5, <2>1, QueueUnchanged
       DEF monkeyVars, queueVars, runVars, Looping, IsConnected
<1>6. CASE Connect \/ MonkeyGone
  BY <1>6, QueueUnchanged
     DEF Connect, MonkeyGone, ConnectToMonkey, CommunicationError, ProcessGone,
         monkeyVars, queueVars, runVars, Looping, IsConnected
<1>7. CASE Restart
  <2>1. /\ afterStarted' = afterStarted
        /\ restarts' = restarts + 1
        /\ ~IsConnected'
    BY <1>7 DEF Restart, RestartUserApp, IsConnected
  <2>2. RestartCredit'
    BY <2>1 DEF QueueInv, RestartCredit, TypeOK, MonkeyTypeOK
  <2> QED
    BY <2>1, <2>2 DEF QueueInv, NoMissedScript
<1>8. CASE UNCHANGED vars
  BY <1>8, QueueUnchanged
     DEF vars, wireVars, monkeyVars, queueVars, runVars, Looping, IsConnected
<1> QED
  BY <1>1, <1>2, <1>3, <1>4, <1>5, <1>6, <1>7, <1>8
     DEF Next, MonkeyStep, MonkeyHandler

LEMMA QueueInit == Init => QueueInv
BY DEF Init, WireInit, MonkeyInit, QueueInv, RestartCredit, NoMissedScript, IsConnected

THEOREM QueueCorrect == Spec => []QueueInv
<1> QED
  BY TypeInit, TypeStep, QueueInit, QueueStep, PTL DEF Spec

\* No restart of the application is used for two scripts that each asked for
\* one (onAgentReadyToRunScript and userAppFinished).
THEOREM RestartsNotReused == Spec => []RestartCredit
<1>1. QueueInv => RestartCredit
  BY DEF QueueInv
<1> QED
  BY <1>1, QueueCorrect, PTL

\* With the agent connected and no script running, the queue is empty or its
\* first script waits for a restart (no wake-up of the queue is lost).
THEOREM NoScriptMissed == Spec => []NoMissedScript
<1>1. QueueInv => NoMissedScript
  BY DEF QueueInv
<1> QED
  BY <1>1, QueueCorrect, PTL

-----------------------------------------------------------------------------
(* The stream of reports, and what CloseAck means.                          *)
(*                                                                          *)
(* ReportsInOrder is not inductive: it says nothing of the packets under    *)
(* way.  What is: the packets handled, those in the connection and those    *)
(* in sendBuf_ are, one after the other, all that was ever sent; when the   *)
(* process is gone, its sendBuf_ (and with it a tail of the reports) is.    *)

DeadInv ==
    /\ link = "none" => toMonkey = <<>> /\ toAgent = <<>>
    /\ app # "alive" => /\ pc = "off" /\ gui = "off" /\ closeAck = 0
                        /\ sendBuf = <<>> /\ sockBuf = <<>> /\ recvBuf = <<>>
    /\ app = "alive" => pc # "off" /\ gui # "off"

PipeInv ==
    \E rest \in Seq(MonkeyPacket) :
        /\ emitted = (handled \o toMonkey) \o rest
        /\ app = "alive" => rest = sendBuf

\* What a step of the agent does to the stream of reports
Sends(type, id) == SendCommand(type, id) /\ UNCHANGED <<app, link, toMonkey>>
Flushes ==
    /\ link' # "none"
    /\ toMonkey' = toMonkey \o sendBuf
    /\ sendBuf' = <<>>
    /\ UNCHANGED <<app, emitted>>
Dies == app' # "alive" /\ ProcessGone
Quiet == UNCHANGED <<app, link, toMonkey, sendBuf, emitted>>

LEMMA AgentAlive ==
    ASSUME DeadInv, AgentStep \/ Connect \/ MonkeyGone
    PROVE  app = "alive"
BY DEF DeadInv, AgentStep, Connect, MonkeyGone, ConnectToMonkey, CommunicationError,
       AgentThreadStep, GuiThreadStep, Polling, GuiLoops, SendData, NestedReadyRead,
       ReadyRead, SetScriptFileName, RunScript, CloseAck, ReadDone, SendScriptError,
       SendScriptEnd, ThreadExit, ScriptLog, CallGui, ScriptOk, ScriptThrows,
       ServeAgent, HasCloseAck, QuitThread, AppExits, UserEvent, AppAboutToQuit, AppDies

LEMMA AgentStepKinds ==
    ASSUME TypeOK, DeadInv, AgentStep \/ Connect \/ MonkeyGone
    PROVE  \/ \E type \in PacketTypeForMonkey, id \in Nat : Sends(type, id)
           \/ Flushes
           \/ Dies
           \/ Quiet
<1>1. current \in Nat /\ 0 \in Nat
  BY DEF TypeOK, AgentTypeOK
<1>2. CASE ScriptLog \/ SendScriptError \/ SendScriptEnd \/ UserEvent \/ AppAboutToQuit
  BY <1>1, <1>2
     DEF ScriptLog, SendScriptError, SendScriptEnd, UserEvent, AppAboutToQuit, Sends,
         PacketTypeForMonkey, wireVars
<1>3. CASE SendData
  BY <1>3 DEF SendData, Flushes
<1>4. CASE Connect
  <2>1. toMonkey = <<>> /\ sendBuf \in Seq(MonkeyPacket)
    BY <1>4 DEF Connect, ConnectToMonkey, DeadInv, TypeOK, AgentTypeOK
  <2>2. toMonkey \o sendBuf = sendBuf
    BY <2>1, ConcatEmptySeq
  <2> QED
    BY <1>4, <2>2 DEF Connect, ConnectToMonkey, Flushes
<1>5. CASE MonkeyGone \/ AppExits \/ AppDies
  BY <1>5 DEF MonkeyGone, CommunicationError, AppExits, AppDies, Dies
<1>6. CASE NestedReadyRead \/ ReadyRead \/ SetScriptFileName \/ RunScript \/ CloseAck
             \/ ReadDone
  BY <1>6
     DEF NestedReadyRead, ReadyRead, SetScriptFileName, RunScript, CloseAck, ReadDone,
         Quiet, wireVars, sendVars
<1>7. CASE ThreadExit \/ CallGui \/ ScriptOk \/ ScriptThrows \/ ServeAgent
             \/ HasCloseAck \/ QuitThread
  BY <1>7
     DEF ThreadExit, CallGui, ScriptOk, ScriptThrows, ServeAgent, HasCloseAck,
         QuitThread, Quiet, wireVars, sendVars
<1> QED
  BY <1>2, <1>3, <1>4, <1>5, <1>6, <1>7 DEF AgentStep, AgentThreadStep, GuiThreadStep

LEMMA MonkeyDead ==
    ASSUME TypeOK, DeadInv, MonkeyStep, UNCHANGED agentVars
    PROVE  DeadInv'
<1>1. app' = app /\ UNCHANGED <<pc, gui, closeAck, sendBuf, sockBuf, recvBuf>>
  BY DEF MonkeyStep, MonkeyHandler, HandleNewConnection, PrintReport, OnScriptEnd,
     OnScriptError, AnswerClose, ScriptErrorExit, ClientDisconnected, UserAppError,
     UserAppFinished, FinishedBadly, FinishedLast, StdinRunScript, Extract, wireVars,
     agentVars, threadVars, bufferVars, sendVars, guiVars
<1>2. (link = "none" => toMonkey = <<>> /\ toAgent = <<>>)'
  <2>1. CASE HandleNewConnection
    BY <2>1 DEF HandleNewConnection
  <2>2. CASE PrintReport \/ OnScriptEnd \/ OnScriptError \/ AnswerClose
    BY <2>2 DEF PrintReport, OnScriptEnd, OnScriptError, AnswerClose, Extract, IsConnected
  <2>3. CASE ScriptErrorExit \/ UserAppError \/ UserAppFinished \/ FinishedBadly
    BY <2>3 DEF ScriptErrorExit, UserAppError, UserAppFinished, FinishedBadly,
                wireVars, DeadInv
  <2>4. CASE ClientDisconnected
    BY <2>4 DEF ClientDisconnected
  <2>5. CASE StdinRunScript \/ FinishedLast
    BY <2>5 DEF StdinRunScript, FinishedLast, ScriptNotRunning, AgentReadyToRunScript,
                CanSend, IsConnected, DeadInv
  <2> QED
    BY <2>1, <2>2, <2>3, <2>4, <2>5 DEF MonkeyStep, MonkeyHandler
<1> QED
  BY <1>1, <1>2 DEF DeadInv

LEMMA AgentDead ==
    ASSUME TypeOK, DeadInv, AgentStep \/ Connect \/ MonkeyGone
    PROVE  DeadInv'
<1>1. app = "alive" /\ pc # "off" /\ gui # "off"
  BY AgentAlive DEF DeadInv
<1>2. CASE Dies
  BY <1>2 DEF Dies, ProcessGone, DeadInv
<1>3. CASE ~Dies
  <2>1. app' = "alive"
    BY <1>1, <1>3, AgentStepKinds DEF Sends, Flushes, Quiet
  <2>2. pc' # "off" /\ gui' # "off"
    BY <1>1, <2>1 DEF AgentStep, Connect, MonkeyGone, ConnectToMonkey,
       CommunicationError, ProcessGone, AgentThreadStep, GuiThreadStep, SendData,
       NestedReadyRead, ReadyRead, SetScriptFileName, RunScript, CloseAck, ReadDone,
       SendScriptError, SendScriptEnd, ThreadExit, ScriptLog, CallGui, ScriptOk,
       ScriptThrows, ServeAgent, HasCloseAck, QuitThread, AppExits, UserEvent,
       AppAboutToQuit, AppDies, threadVars, guiVars
  <2>3. (link = "none" => toMonkey = <<>> /\ toAgent = <<>>)'
    <3>1. CASE Flushes
      BY <3>1 DEF Flushes
    <3>2. CASE ReadyRead
      <4>1. link' = link /\ toMonkey' = toMonkey /\ link # "none"
        BY <3>2, EmptySeq DEF ReadyRead, DeadInv
      <4> QED
        BY <4>1
    <3>3. CASE ~ReadyRead /\ ~Flushes
      <4>1. UNCHANGED <<link, toMonkey>>
        BY <1>3, <3>3, AgentStepKinds DEF Sends, Quiet
      <4>2. toAgent' = toAgent \/ toAgent' = <<>>
        BY <1>3, <3>3 DEF AgentStep, Connect, MonkeyGone, ConnectToMonkey,
           CommunicationError, ProcessGone, AgentThreadStep, GuiThreadStep, SendData,
           NestedReadyRead, SetScriptFileName, RunScript, CloseAck, ReadDone,
           SendScriptError, SendScriptEnd, ThreadExit, ScriptLog, CallGui, ScriptOk,
           ScriptThrows, ServeAgent, HasCloseAck, QuitThread, AppExits, UserEvent,
           AppAboutToQuit, AppDies, wireVars
      <4> QED
        BY <4>1, <4>2 DEF DeadInv
    <3> QED
      BY <3>1, <3>2, <3>3
  <2> QED
    BY <2>1, <2>2, <2>3 DEF DeadInv
<1> QED
  BY <1>2, <1>3

LEMMA DeadStep == TypeOK /\ DeadInv /\ [Next]_vars => DeadInv'
<1> SUFFICES ASSUME TypeOK, DeadInv, [Next]_vars PROVE DeadInv'
  OBVIOUS
<1>1. CASE Restart
  BY <1>1 DEF Restart, RestartUserApp, AgentRestart, DeadInv
<1>2. CASE UNCHANGED vars
  BY <1>2 DEF vars, wireVars, agentVars, threadVars, bufferVars, sendVars, guiVars, DeadInv
<1> QED
  BY <1>1, <1>2, MonkeyDead, AgentDead DEF Next

\* Moving the head of one sequence to the end of the one before it
LEMMA MoveHead ==
    ASSUME NEW S, NEW s \in Seq(S), NEW t \in Seq(S), t # <<>>
    PROVE  Append(s, Head(t)) \o Tail(t) = s \o t
<1>1. Head(t) \in S /\ Tail(t) \in Seq(S) /\ <<Head(t)>> \in Seq(S)
  BY HeadTailProperties
<1>2. Append(s, Head(t)) = s \o <<Head(t)>>
  BY <1>1, AppendIsConcat
<1>3. <<Head(t)>> \o Tail(t) = t
  <2> DEFINE u == <<Head(t)>> \o Tail(t)
  <2>1. u \in Seq(S) /\ Len(u) = Len(t)
    BY <1>1, ConcatProperties, HeadTailProperties, LenProperties
  <2>2. \A i \in 1..Len(u) : u[i] = t[i]
    <3>1. /\ Len(<<Head(t)>>) = 1 /\ <<Head(t)>>[1] = t[1]
          /\ Len(Tail(t)) = Len(t) - 1
          /\ \A i \in 1..Len(Tail(t)) : Tail(t)[i] = t[i + 1]
      BY HeadTailProperties
    <3>2. \A i \in 1..1 + Len(Tail(t)) :
             u[i] = IF i <= 1 THEN <<Head(t)>>[i] ELSE Tail(t)[i - 1]
      BY <1>1, <3>1, ConcatProperties
    <3> QED
      BY <2>1, <3>1, <3>2, LenProperties
  <2> QED
    BY <2>1, <2>2, SeqEqual
<1>4. (s \o <<Head(t)>>) \o Tail(t) = s \o (<<Head(t)>> \o Tail(t))
  BY <1>1, ConcatAssociative
<1> QED
  BY <1>2, <1>3, <1>4

LEMMA MonkeyPipe ==
    ASSUME TypeOK, DeadInv, PipeInv, MonkeyStep, UNCHANGED agentVars
    PROVE  PipeInv'
<1>1. UNCHANGED <<emitted, sendBuf>>
  BY DEF agentVars, sendVars
<1>2. PICK rest \in Seq(MonkeyPacket) :
        /\ emitted = (handled \o toMonkey) \o rest
        /\ app = "alive" => rest = sendBuf
  BY DEF PipeInv
<1>3. handled \in Seq(MonkeyPacket) /\ toMonkey \in Seq(MonkeyPacket)
  BY DEF TypeOK, WireTypeOK, MonkeyTypeOK
<1>4. CASE PrintReport \/ OnScriptEnd \/ OnScriptError \/ AnswerClose
  <2>1. /\ toMonkey # <<>>
        /\ toMonkey' = Tail(toMonkey)
        /\ handled' = Append(handled, Head(toMonkey))
        /\ app' = app
    BY <1>4 DEF PrintReport, OnScriptEnd, OnScriptError, AnswerClose, Extract
  <2>2. handled' \o toMonkey' = handled \o toMonkey
    BY <1>3, <2>1, MoveHead
  <2> QED
    BY <1>1, <1>2, <2>1, <2>2 DEF PipeInv
<1>5. CASE ClientDisconnected
  <2>1. toMonkey' = <<>> /\ handled' = handled /\ app' = app /\ app # "alive"
    BY <1>5 DEF ClientDisconnected, monkeyVars
  <2>2. handled' \o toMonkey' = handled
    BY <1>3, <2>1, ConcatEmptySeq
  <2>3. emitted = handled \o (toMonkey \o rest) /\ toMonkey \o rest \in Seq(MonkeyPacket)
    BY <1>2, <1>3, ConcatAssociative, ConcatProperties
  <2> QED
    BY <1>1, <2>1, <2>2, <2>3 DEF PipeInv
<1>6. CASE \/ HandleNewConnection \/ StdinRunScript \/ ScriptErrorExit \/ UserAppError
           \/ UserAppFinished \/ FinishedBadly \/ FinishedLast
  <2>1. UNCHANGED <<app, toMonkey, handled>>
    BY <1>6 DEF HandleNewConnection, StdinRunScript, ScriptErrorExit, UserAppError,
                UserAppFinished, FinishedBadly, FinishedLast, wireVars
  <2> QED
    BY <1>1, <1>2, <2>1 DEF PipeInv
<1> QED
  BY <1>4, <1>5, <1>6 DEF MonkeyStep, MonkeyHandler

LEMMA AgentPipe ==
    ASSUME TypeOK, DeadInv, PipeInv, AgentStep \/ Connect \/ MonkeyGone,
           handled' = handled
    PROVE  PipeInv'
<1>1. app = "alive"
  BY AgentAlive
<1>2. emitted = (handled \o toMonkey) \o sendBuf
  BY <1>1 DEF PipeInv
<1>3. /\ handled \in Seq(MonkeyPacket) /\ toMonkey \in Seq(MonkeyPacket)
      /\ sendBuf \in Seq(MonkeyPacket) /\ handled \o toMonkey \in Seq(MonkeyPacket)
      /\ <<>> \in Seq(MonkeyPacket)
  BY ConcatProperties, EmptyIsSeq DEF TypeOK, WireTypeOK, MonkeyTypeOK, AgentTypeOK
<1>4. ASSUME NEW type \in PacketTypeForMonkey, NEW id \in Nat, Sends(type, id)
      PROVE  PipeInv'
  <2> DEFINE p == Packet(type, id)
  <2>1. p \in MonkeyPacket
    BY DEF Packet, MonkeyPacket
  <2>2. /\ sendBuf' = Append(sendBuf, p)
        /\ emitted' = Append(emitted, p)
        /\ UNCHANGED <<app, toMonkey>>
    BY <1>4 DEF Sends, SendCommand
  <2>3. <<p>> \in Seq(MonkeyPacket)
    BY <2>1
  <2>4. emitted \in Seq(MonkeyPacket)
    BY DEF TypeOK, AgentTypeOK
  <2>5. emitted' = emitted \o <<p>> /\ sendBuf' = sendBuf \o <<p>>
    BY <1>3, <2>1, <2>2, <2>4, AppendIsConcat
  <2>6. emitted' = (handled \o toMonkey) \o (sendBuf \o <<p>>)
    <3> DEFINE X == handled \o toMonkey
    <3>1. X \in Seq(MonkeyPacket) /\ emitted' = (X \o sendBuf) \o <<p>>
      BY <1>2, <1>3, <2>5
    <3> HIDE DEF X, p
    <3>2. (X \o sendBuf) \o <<p>> = X \o (sendBuf \o <<p>>)
      BY <1>3, <2>3, <3>1, ConcatAssociative
    <3>3. emitted' = X \o (sendBuf \o <<p>>)
      BY <3>1, <3>2
    <3> QED
      BY <3>3 DEF X
  <2>7. sendBuf' \in Seq(MonkeyPacket)
    BY <1>3, <2>3, <2>5, ConcatProperties
  <2> QED
    BY <2>2, <2>5, <2>6, <2>7 DEF PipeInv
<1>5. CASE Flushes
  <2>1. emitted' = (handled \o toMonkey') \o <<>>
    <3>1. (handled \o toMonkey) \o sendBuf = handled \o (toMonkey \o sendBuf)
      BY <1>3, ConcatAssociative
    <3>2. toMonkey' \in Seq(MonkeyPacket) /\ handled \o toMonkey' \in Seq(MonkeyPacket)
      BY <1>3, <1>5, ConcatProperties DEF Flushes
    <3> QED
      BY <1>2, <1>5, <3>1, <3>2, ConcatEmptySeq DEF Flushes
  <2>2. sendBuf' = <<>>
    BY <1>5 DEF Flushes
  <2> QED
    BY <1>3, <2>1, <2>2 DEF PipeInv
<1>6. CASE Dies
  BY <1>2, <1>3, <1>6 DEF Dies, ProcessGone, PipeInv
<1>7. CASE Quiet
  BY <1>2, <1>3, <1>7 DEF Quiet, PipeInv
<1> QED
  BY <1>4, <1>5, <1>6, <1>7, AgentStepKinds

LEMMA PipeStep == TypeOK /\ DeadInv /\ PipeInv /\ [Next]_vars => PipeInv'
<1> SUFFICES ASSUME TypeOK, DeadInv, PipeInv, [Next]_vars PROVE PipeInv'
  OBVIOUS
<1>1. CASE Restart
  <2>1. /\ emitted' = <<>> /\ handled' = <<>> /\ toMonkey' = <<>> /\ sendBuf' = <<>>
    BY <1>1 DEF Restart, RestartUserApp, AgentRestart, DeadInv
  <2>2. emitted' = (handled' \o toMonkey') \o sendBuf' /\ sendBuf' \in Seq(MonkeyPacket)
    BY <2>1, EmptyIsSeq, ConcatEmptySeq
  <2> QED
    BY <2>2 DEF PipeInv
<1>2. CASE UNCHANGED vars
  BY <1>2 DEF vars, wireVars, monkeyVars, agentVars, sendVars, PipeInv
<1>3. CASE MonkeyStep /\ UNCHANGED agentVars
  BY <1>3, MonkeyPipe
<1>4. CASE (AgentStep \/ Connect \/ MonkeyGone) /\ handled' = handled
  BY <1>4, AgentPipe
<1> QED
  BY <1>1, <1>2, <1>3, <1>4 DEF Next, Connect, MonkeyGone, monkeyVars

LEMMA PipeInit == Init => DeadInv /\ PipeInv
<1> SUFFICES ASSUME Init PROVE DeadInv /\ PipeInv
  OBVIOUS
<1>1. DeadInv
  BY DEF Init, WireInit, AgentInit, DeadInv
<1>2. /\ emitted = <<>> /\ handled = <<>> /\ toMonkey = <<>> /\ sendBuf = <<>>
  BY DEF Init, WireInit, AgentInit, MonkeyInit
<1>3. emitted = (handled \o toMonkey) \o sendBuf /\ sendBuf \in Seq(MonkeyPacket)
  BY <1>2, EmptyIsSeq, ConcatEmptySeq
<1> QED
  BY <1>1, <1>3 DEF PipeInv

LEMMA PipeCorrect == Spec => [](TypeOK /\ DeadInv /\ PipeInv)
<1> QED
  BY TypeInit, TypeStep, PipeInit, DeadStep, PipeStep, PTL DEF Spec

LEMMA PipeGivesOrder ==
    ASSUME TypeOK, PipeInv
    PROVE  ReportsInOrder
<1>1. PICK rest \in Seq(MonkeyPacket) : emitted = (handled \o toMonkey) \o rest
  BY DEF PipeInv
<1>2. /\ handled \in Seq(MonkeyPacket) /\ toMonkey \in Seq(MonkeyPacket)
      /\ handled \o toMonkey \in Seq(MonkeyPacket)
  BY ConcatProperties DEF TypeOK, WireTypeOK, MonkeyTypeOK
<1>3. /\ Len(emitted) = (Len(handled) + Len(toMonkey)) + Len(rest)
      /\ Len(handled) \in Nat /\ Len(toMonkey) \in Nat /\ Len(rest) \in Nat
  BY <1>1, <1>2, ConcatProperties, LenProperties
<1>4. ASSUME NEW i \in 1..Len(handled)
      PROVE  handled[i] = emitted[i]
  <2>1. (handled \o toMonkey)[i] = handled[i]
    BY <1>2, <1>3, ConcatProperties
  <2>2. ((handled \o toMonkey) \o rest)[i] = (handled \o toMonkey)[i]
    BY <1>2, <1>3, ConcatProperties
  <2> QED
    BY <1>1, <2>1, <2>2
<1> QED
  BY <1>3, <1>4 DEF ReportsInOrder

\* The monkey prints the agent's reports in the order in which the agent's two
\* threads made them, and none before the one that came first (sendBuf_, the
\* connection, readDataFromClientSocket).
THEOREM ReportsNeverReordered == Spec => []ReportsInOrder
<1> QED
  BY PipeCorrect, PipeGivesOrder, PTL

-----------------------------------------------------------------------------
(* Wherever a CloseAck is, on its way or taken by the GUI thread, the       *)
(* monkey has handled Close.                                                *)

HasAck(s) == \E i \in 1..Len(s) : s[i].type = "CloseAck"
Closed == \E k \in 1..Len(handled) : handled[k].type = "Close"

Acked ==
    \/ HasAck(toAgent) \/ HasAck(sockBuf) \/ HasAck(recvBuf)
    \/ closeAck # 0
    \/ gui \in {"dtor", "join"}

AckInv == Acked => Closed

LEMMA NoAckInEmpty == ~HasAck(<<>>)
BY EmptySeq DEF HasAck

LEMMA AckOfConcat ==
    ASSUME NEW s \in Seq(AgentPacket), NEW t \in Seq(AgentPacket), HasAck(s \o t)
    PROVE  HasAck(s) \/ HasAck(t)
<1>1. PICK i \in 1..Len(s \o t) : (s \o t)[i].type = "CloseAck"
  BY DEF HasAck
<1>2. /\ Len(s \o t) = Len(s) + Len(t) /\ Len(s) \in Nat /\ Len(t) \in Nat
      /\ (s \o t)[i] = IF i <= Len(s) THEN s[i] ELSE t[i - Len(s)]
  BY <1>1, ConcatProperties, LenProperties
<1>3. CASE i <= Len(s)
  BY <1>1, <1>2, <1>3 DEF HasAck
<1>4. CASE ~(i <= Len(s))
  <2>1. i - Len(s) \in 1..Len(t)
    BY <1>1, <1>2, <1>4
  <2> QED
    BY <1>1, <1>2, <1>4, <2>1 DEF HasAck
<1> QED
  BY <1>3, <1>4

LEMMA AckOfTail ==
    ASSUME NEW s \in Seq(AgentPacket), s # <<>>, HasAck(Tail(s))
    PROVE  HasAck(s)
<1>1. PICK i \in 1..Len(Tail(s)) : Tail(s)[i].type = "CloseAck"
  BY DEF HasAck
<1>2. Len(Tail(s)) = Len(s) - 1 /\ Tail(s)[i] = s[i + 1] /\ Len(s) \in Nat
  BY <1>1, HeadTailProperties, LenProperties
<1>3. i + 1 \in 1..Len(s)
  BY <1>1, <1>2
<1> QED
  BY <1>1, <1>2, <1>3 DEF HasAck

LEMMA AckOfSubSeq ==
    ASSUME NEW s \in Seq(AgentPacket), NEW m \in 1..Len(s) + 1, NEW n \in 0..Len(s),
           HasAck(SubSeq(s, m, n))
    PROVE  HasAck(s)
<1>0. Len(s) \in Nat /\ \A i \in m..n : s[i] \in AgentPacket
  BY ElementOfSeq, LenProperties
<1>1. PICK i \in 1..Len(SubSeq(s, m, n)) : SubSeq(s, m, n)[i].type = "CloseAck"
  BY DEF HasAck
<1>2. /\ Len(SubSeq(s, m, n)) = IF m <= n THEN n - m + 1 ELSE 0
      /\ \A j \in 1..n - m + 1 : SubSeq(s, m, n)[j] = s[m + j - 1]
  BY <1>0, SubSeqProperties
<1>3. i \in 1..n - m + 1 /\ m + i - 1 \in 1..Len(s)
  BY <1>0, <1>1, <1>2
<1> QED
  BY <1>1, <1>2, <1>3 DEF HasAck

LEMMA ClosedStays ==
    ASSUME TypeOK, Closed,
           \/ handled' = handled
           \/ toMonkey # <<>> /\ handled' = Append(handled, Head(toMonkey))
    PROVE  Closed'
<1>1. CASE handled' = handled
  BY <1>1 DEF Closed
<1>2. CASE toMonkey # <<>> /\ handled' = Append(handled, Head(toMonkey))
  <2>1. Head(toMonkey) \in MonkeyPacket /\ handled \in Seq(MonkeyPacket)
    BY <1>2 DEF TypeOK, WireTypeOK, MonkeyTypeOK
  <2>2. /\ Len(handled') = Len(handled) + 1 /\ Len(handled) \in Nat
        /\ \A i \in 1..Len(handled) : handled'[i] = handled[i]
    BY <1>2, <2>1, AppendProperties, LenProperties
  <2>3. PICK k \in 1..Len(handled) : handled[k].type = "Close"
    BY DEF Closed
  <2>4. k \in 1..Len(handled') /\ handled'[k].type = "Close"
    BY <2>2, <2>3
  <2> QED
    BY <2>4 DEF Closed
<1> QED
  BY <1>1, <1>2

\* Sending a script puts no CloseAck on its way.
LEMMA AgentReadyAck ==
    ASSUME TypeOK, NEW connected \in BOOLEAN, NEW running \in BOOLEAN,
           NEW q \in Seq(ScriptRec), AgentReadyToRunScript(connected, running, q),
           HasAck(toAgent')
    PROVE  HasAck(toAgent)
<1>1. CASE toAgent' = toAgent
  BY <1>1
<1>2. CASE CanSend(connected, running, q) /\ SendScript(q)
  <2> DEFINE two == ScriptPackets(Head(q).id)
  <2>1. Head(q) \in ScriptRec
    BY <1>2 DEF CanSend
  <2>2. Head(q).id \in Nat
    BY <2>1 DEF ScriptRec
  <2>3. two \in Seq(AgentPacket)
    BY <2>2 DEF ScriptPackets, Packet, AgentPacket, PacketTypeForAgent
  <2>4. ~HasAck(two)
    BY DEF ScriptPackets, HasAck, Packet
  <2>5. toAgent \in Seq(AgentPacket)
    BY DEF TypeOK, WireTypeOK
  <2> QED
    BY <1>2, <2>3, <2>4, <2>5, AckOfConcat DEF SendScript
<1> QED
  BY <1>1, <1>2 DEF AgentReadyToRunScript

LEMMA MonkeyAck ==
    ASSUME TypeOK, AckInv, MonkeyStep, UNCHANGED agentVars
    PROVE  AckInv'
<1>1. UNCHANGED <<sockBuf, recvBuf, closeAck, gui>>
  BY DEF agentVars, bufferVars, guiVars
<1>2. \/ handled' = handled
      \/ toMonkey # <<>> /\ handled' = Append(handled, Head(toMonkey))
  BY DEF MonkeyStep, MonkeyHandler, HandleNewConnection, PrintReport, OnScriptEnd,
     OnScriptError, AnswerClose, ScriptErrorExit, ClientDisconnected, UserAppError,
     UserAppFinished, FinishedBadly, FinishedLast, StdinRunScript, Extract, monkeyVars
<1>3. SUFFICES ASSUME HasAck(toAgent'), ~HasAck(toAgent)
               PROVE  Closed'
  <2>1. Closed => Closed'
    BY <1>2, ClosedStays
  <2> QED
    BY <1>1, <1>3, <2>1 DEF AckInv, Acked, HasAck
<1>4. toAgent \in Seq(AgentPacket) /\ toRunList \in Seq(ScriptRec)
        /\ scriptRunning \in BOOLEAN /\ IsConnected \in BOOLEAN
  BY DEF TypeOK, WireTypeOK, MonkeyTypeOK, IsConnected
<1>5. CASE PrintReport \/ ScriptErrorExit \/ UserAppError \/ UserAppFinished
             \/ FinishedBadly
  BY <1>3, <1>5 DEF PrintReport, ScriptErrorExit, UserAppError, UserAppFinished,
                    FinishedBadly, wireVars
<1>6. CASE ClientDisconnected
  BY <1>3, <1>6, NoAckInEmpty DEF ClientDisconnected
<1>7. CASE HandleNewConnection
  BY <1>3, <1>4, <1>7, AgentReadyAck DEF HandleNewConnection
<1>8. CASE OnScriptEnd \/ OnScriptError \/ FinishedLast
  BY <1>3, <1>4, <1>8, AgentReadyAck
     DEF OnScriptEnd, OnScriptError, FinishedLast, ScriptNotRunning
<1>9. CASE StdinRunScript
  <2>1. PICK n \in 1..2 :
          AgentReadyToRunScript(IsConnected, scriptRunning,
            toRunList \o [i \in 1..n |-> [id |-> nextId + i, after |-> FALSE]])
    BY <1>9 DEF StdinRunScript
  <2>2. nextId \in Nat
    BY DEF TypeOK, MonkeyTypeOK
  <2>3. [i \in 1..n |-> [id |-> nextId + i, after |-> FALSE]] \in [1..n -> ScriptRec]
    BY <2>2 DEF ScriptRec
  <2>4. [i \in 1..n |-> [id |-> nextId + i, after |-> FALSE]] \in Seq(ScriptRec)
    BY <2>3, 1 \in Nat, 2 \in Nat, n \in Nat, SeqDef
  <2>5. toRunList \o [i \in 1..n |-> [id |-> nextId + i, after |-> FALSE]]
          \in Seq(ScriptRec)
    BY <1>4, <2>4, ConcatProperties
  <2> QED
    BY <1>3, <1>4, <2>1, <2>5, AgentReadyAck
<1>10. CASE AnswerClose
  <2>1. /\ toMonkey # <<>> /\ Head(toMonkey).type = "Close"
        /\ handled' = Append(handled, Head(toMonkey))
    BY <1>10 DEF AnswerClose, Extract
  <2>2. Head(toMonkey) \in MonkeyPacket /\ handled \in Seq(MonkeyPacket)
    BY <2>1 DEF TypeOK, WireTypeOK, MonkeyTypeOK
  <2>3. /\ Len(handled') = Len(handled) + 1 /\ Len(handled) \in Nat
        /\ handled'[Len(handled) + 1] = Head(toMonkey)
    BY <2>1, <2>2, AppendProperties, LenProperties
  <2>4. Len(handled) + 1 \in 1..Len(handled')
    BY <2>3
  <2> QED
    BY <2>1, <2>3, <2>4 DEF Closed
<1> QED
  BY <1>5, <1>6, <1>7, <1>8, <1>9, <1>10 DEF MonkeyStep, MonkeyHandler

LEMMA AgentAck ==
    ASSUME TypeOK, DeadInv, AckInv, AgentStep \/ Connect \/ MonkeyGone,
           handled' = handled
    PROVE  AckInv'
<1>1. Closed' <=> Closed
  BY DEF Closed
<1>2. /\ toAgent \in Seq(AgentPacket) /\ sockBuf \in Seq(AgentPacket)
      /\ recvBuf \in Seq(AgentPacket) /\ closeAck \in Nat
  BY DEF TypeOK, WireTypeOK, AgentTypeOK
<1>3. CASE Connect \/ SendData \/ ThreadExit \/ ScriptLog \/ CallGui \/ ScriptOk
             \/ ScriptThrows \/ SendScriptError \/ SendScriptEnd \/ ServeAgent
  <2>1. UNCHANGED <<toAgent, sockBuf, recvBuf, closeAck, gui>>
    BY <1>3 DEF Connect, ConnectToMonkey, SendData, ThreadExit, ScriptLog, CallGui,
         ScriptOk, ScriptThrows, SendScriptError, SendScriptEnd, ServeAgent,
         wireVars, bufferVars, guiVars
  <2> QED
    BY <1>1, <2>1 DEF AckInv, Acked, HasAck
<1>4. CASE UserEvent \/ AppAboutToQuit \/ HasCloseAck \/ QuitThread
  <2>1. UNCHANGED <<toAgent, sockBuf, recvBuf>>
    BY <1>4 DEF UserEvent, AppAboutToQuit, HasCloseAck, QuitThread, wireVars, bufferVars
  <2>2. closeAck' # 0 \/ gui' \in {"dtor", "join"} =>
             closeAck # 0 \/ gui \in {"dtor", "join"}
    BY <1>4 DEF UserEvent, AppAboutToQuit, HasCloseAck, QuitThread, guiVars
  <2> QED
    BY <1>1, <2>1, <2>2 DEF AckInv, Acked, HasAck
<1>5. CASE NestedReadyRead
  <2>1. /\ sockBuf' = sockBuf \o toAgent /\ toAgent' = <<>>
        /\ UNCHANGED <<recvBuf, closeAck, gui>>
    BY <1>5 DEF NestedReadyRead, guiVars
  <2>2. HasAck(sockBuf') => HasAck(sockBuf) \/ HasAck(toAgent)
    BY <1>2, <2>1, AckOfConcat
  <2>3. ~HasAck(toAgent')
    BY <2>1, NoAckInEmpty
  <2>4. HasAck(recvBuf') <=> HasAck(recvBuf)
    BY <2>1
  <2>5. Acked' <=> \/ HasAck(toAgent') \/ HasAck(sockBuf') \/ HasAck(recvBuf')
                   \/ closeAck' # 0 \/ gui' \in {"dtor", "join"}
    BY DEF Acked, HasAck
  <2> QED
    BY <1>1, <2>1, <2>2, <2>3, <2>4, <2>5 DEF AckInv, Acked
<1>6. CASE ReadyRead
  <2>1. PICK n \in 1..Len(toAgent) :
          /\ recvBuf' = recvBuf \o sockBuf \o SubSeq(toAgent, 1, n)
          /\ toAgent' = SubSeq(toAgent, n + 1, Len(toAgent))
    BY <1>6 DEF ReadyRead
  <2>2. /\ sockBuf' = <<>> /\ UNCHANGED <<closeAck, gui>>
    BY <1>6 DEF ReadyRead, guiVars
  <2>3. Len(toAgent) \in Nat
    BY <1>2, LenProperties
  <2>4. HasAck(toAgent') => HasAck(toAgent)
    <3>1. n + 1 \in 1..Len(toAgent) + 1 /\ Len(toAgent) \in 0..Len(toAgent)
      BY <2>3
    <3>2. HasAck(SubSeq(toAgent, n + 1, Len(toAgent))) => HasAck(toAgent)
      BY <1>2, <3>1, AckOfSubSeq
    <3> QED
      BY <2>1, <3>2
  <2>5. HasAck(SubSeq(toAgent, 1, n)) => HasAck(toAgent)
    BY <1>2, <2>1, <2>3, AckOfSubSeq
  <2>6. SubSeq(toAgent, 1, n) \in Seq(AgentPacket)
    BY <1>2, <2>1, <2>3, SubSeqProperties, ElementOfSeq
  <2>7. recvBuf \o sockBuf \in Seq(AgentPacket)
    BY <1>2, ConcatProperties
  <2>8. HasAck(recvBuf') =>
           HasAck(recvBuf) \/ HasAck(sockBuf) \/ HasAck(toAgent)
    BY <1>2, <2>1, <2>5, <2>6, <2>7, AckOfConcat
  <2>9. ~HasAck(sockBuf')
    BY <2>2, NoAckInEmpty
  <2>10. Acked' <=> \/ HasAck(toAgent') \/ HasAck(sockBuf') \/ HasAck(recvBuf')
                   \/ closeAck' # 0 \/ gui' \in {"dtor", "join"}
    BY DEF Acked, HasAck
  <2> QED
    BY <1>1, <2>2, <2>4, <2>8, <2>9, <2>10 DEF AckInv, Acked
<1>7. CASE SetScriptFileName \/ RunScript \/ CloseAck \/ ReadDone
  <2>1. /\ UNCHANGED <<toAgent, sockBuf, gui>>
        /\ \/ recvBuf' = recvBuf
           \/ recvBuf # <<>> /\ recvBuf' = Tail(recvBuf)
    BY <1>7 DEF SetScriptFileName, RunScript, CloseAck, ReadDone, wireVars, bufferVars,
                guiVars
  <2>2. HasAck(recvBuf') => HasAck(recvBuf)
    BY <1>2, <2>1, AckOfTail
  <2>3. closeAck' # 0 => closeAck # 0 \/ HasAck(recvBuf)
    <3>1. CASE CloseAck
      <4>1. recvBuf # <<>> /\ Head(recvBuf).type = "CloseAck"
        BY <3>1 DEF CloseAck
      <4>2. 1 \in 1..Len(recvBuf) /\ recvBuf[1].type = "CloseAck"
        BY <1>2, <4>1, EmptySeq
      <4> QED
        BY <4>2 DEF HasAck
    <3>2. CASE SetScriptFileName \/ RunScript \/ ReadDone
      BY <3>2 DEF SetScriptFileName, RunScript, ReadDone
    <3> QED
      BY <1>7, <3>1, <3>2
  <2>4. Acked' <=> \/ HasAck(toAgent') \/ HasAck(sockBuf') \/ HasAck(recvBuf')
                   \/ closeAck' # 0 \/ gui' \in {"dtor", "join"}
    BY DEF Acked, HasAck
  <2>5. (HasAck(toAgent') <=> HasAck(toAgent)) /\ (HasAck(sockBuf') <=> HasAck(sockBuf))
    BY <2>1
  <2> QED
    BY <1>1, <2>1, <2>2, <2>3, <2>4, <2>5 DEF AckInv, Acked
<1>8. CASE MonkeyGone \/ AppExits \/ AppDies
  <2>1. ProcessGone
    BY <1>8 DEF MonkeyGone, CommunicationError, AppExits, AppDies
  <2>2. /\ toAgent' = toAgent /\ sockBuf' = <<>> /\ recvBuf' = <<>>
        /\ closeAck' = 0 /\ gui' = "off"
    BY <2>1 DEF ProcessGone
  <2>3. ~HasAck(sockBuf') /\ ~HasAck(recvBuf') /\ (HasAck(toAgent') <=> HasAck(toAgent))
    BY <2>2, NoAckInEmpty
  <2>4. Acked' <=> \/ HasAck(toAgent') \/ HasAck(sockBuf') \/ HasAck(recvBuf')
                   \/ closeAck' # 0 \/ gui' \in {"dtor", "join"}
    BY DEF Acked, HasAck
  <2> QED
    BY <1>1, <2>2, <2>3, <2>4 DEF AckInv, Acked
<1> QED
  BY <1>3, <1>4, <1>5, <1>6, <1>7, <1>8 DEF AgentStep, AgentThreadStep, GuiThreadStep

LEMMA AckStep == TypeOK /\ DeadInv /\ AckInv /\ [Next]_vars => AckInv'
<1> SUFFICES ASSUME TypeOK, DeadInv, AckInv, [Next]_vars PROVE AckInv'
  OBVIOUS
<1>1. CASE Restart
  <2>1. /\ toAgent' = <<>> /\ sockBuf' = <<>> /\ recvBuf' = <<>>
        /\ closeAck' = 0 /\ gui' = "loop"
    BY <1>1 DEF Restart, RestartUserApp, AgentRestart, DeadInv, bufferVars
  <2>2. ~HasAck(toAgent') /\ ~HasAck(sockBuf') /\ ~HasAck(recvBuf')
    BY <2>1, NoAckInEmpty
  <2>3. Acked' <=> \/ HasAck(toAgent') \/ HasAck(sockBuf') \/ HasAck(recvBuf')
                   \/ closeAck' # 0 \/ gui' \in {"dtor", "join"}
    BY DEF Acked, HasAck
  <2> QED
    BY <2>1, <2>2, <2>3 DEF AckInv
<1>2. CASE UNCHANGED vars
  BY <1>2 DEF vars, wireVars, monkeyVars, agentVars, bufferVars, guiVars, AckInv, Acked, HasAck,
              Closed
<1> QED
  BY <1>1, <1>2, MonkeyAck, AgentAck DEF Next, Connect, MonkeyGone, monkeyVars

LEMMA AckInit == Init => AckInv
<1> SUFFICES ASSUME Init PROVE AckInv
  OBVIOUS
<1>1. /\ toAgent = <<>> /\ sockBuf = <<>> /\ recvBuf = <<>> /\ closeAck = 0
      /\ gui = "loop"
  BY DEF Init, WireInit, AgentInit
<1> QED
  BY <1>1, NoAckInEmpty DEF AckInv, Acked

LEMMA AckGivesFlushed ==
    ASSUME TypeOK, DeadInv, PipeInv, AckInv
    PROVE  CloseFlushed
<1> SUFFICES ASSUME gui \in {"dtor", "join"}
             PROVE  \E k \in 1..Len(handled) :
                        /\ handled[k].type = "Close"
                        /\ \A i \in 1..k : handled[i] = emitted[i]
  BY DEF CloseFlushed
<1>1. PICK k \in 1..Len(handled) : handled[k].type = "Close"
  BY DEF AckInv, Acked, Closed
<1>2. \A i \in 1..Len(handled) : handled[i] = emitted[i]
  BY PipeGivesOrder DEF ReportsInOrder
<1>3. Len(handled) \in Nat /\ \A i \in 1..k : i \in 1..Len(handled)
  BY DEF TypeOK, MonkeyTypeOK
<1> QED
  BY <1>1, <1>2, <1>3

\* When onAppAboutToQuit lets the application go, the monkey has printed every
\* report that was sent before Close.
THEOREM CloseMeansFlushed == Spec => []CloseFlushed
<1>1. TypeOK /\ DeadInv /\ PipeInv /\ AckInv => CloseFlushed
  BY AckGivesFlushed
<1> QED
  BY <1>1, TypeInit, TypeStep, PipeInit, DeadStep, PipeStep, AckInit, AckStep, PTL
     DEF Spec
=============================================================================
