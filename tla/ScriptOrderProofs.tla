-------------------------- MODULE ScriptOrderProofs --------------------------
(***************************************************************************)
(* Theorems about MonkeySystem for every value of its constants: which     *)
(* scripts run, in what order, and under which file name.                  *)
(***************************************************************************)
EXTENDS MonkeySystemProofs, FiniteSetTheorems

IsRun(p) == p.type = "RunScript"

-----------------------------------------------------------------------------
(* The line of packets to the agent: what it has buffered, then what is in  *)
(* the socket, then what is in the connection.                              *)

Line == recvBuf \o sockBuf \o toAgent

\* A line to a process that is gone leads nowhere.
Lane == IF app = "alive" THEN Line ELSE <<>>

Busy == {"script", "blocked", "waiting", "failed", "ended"}

LEMMA LineType ==
    ASSUME TypeOK
    PROVE  /\ recvBuf \in Seq(AgentPacket) /\ sockBuf \in Seq(AgentPacket)
           /\ toAgent \in Seq(AgentPacket)
           /\ recvBuf \o sockBuf \in Seq(AgentPacket)
           /\ Line \in Seq(AgentPacket) /\ Lane \in Seq(AgentPacket)
<1>1. /\ recvBuf \in Seq(AgentPacket) /\ sockBuf \in Seq(AgentPacket)
      /\ toAgent \in Seq(AgentPacket)
  BY DEF TypeOK, WireTypeOK, AgentTypeOK
<1>2. recvBuf \o sockBuf \in Seq(AgentPacket)
  BY <1>1, ConcatProperties
<1>3. Line \in Seq(AgentPacket)
  BY <1>1, <1>2, ConcatProperties DEF Line
<1> QED
  BY <1>1, <1>2, <1>3, EmptyIsSeq DEF Lane

\* Taking the head of the first of two sequences
LEMMA TailOfConcat ==
    ASSUME NEW S, NEW s \in Seq(S), NEW t \in Seq(S), s # <<>>
    PROVE  /\ s \o t # <<>>
           /\ Head(s \o t) = Head(s)
           /\ Tail(s) \o t = Tail(s \o t)
<1>1. /\ s \o t \in Seq(S) /\ Len(s \o t) = Len(s) + Len(t)
      /\ Len(s) \in Nat /\ Len(t) \in Nat /\ Len(s) # 0
      /\ \A i \in 1..Len(s) + Len(t) :
            (s \o t)[i] = IF i <= Len(s) THEN s[i] ELSE t[i - Len(s)]
  BY ConcatProperties, LenProperties, EmptySeq
<1>2. s \o t # <<>>
  BY <1>1, EmptySeq
<1>3. Head(s \o t) = Head(s)
  BY <1>1, <1>2
<1>4. /\ Tail(s) \in Seq(S) /\ Len(Tail(s)) = Len(s) - 1
      /\ \A i \in 1..Len(s) - 1 : Tail(s)[i] = s[i + 1]
  BY HeadTailProperties
<1>5. /\ Tail(s \o t) \in Seq(S) /\ Len(Tail(s \o t)) = Len(s) + Len(t) - 1
      /\ \A i \in 1..Len(s) + Len(t) - 1 : Tail(s \o t)[i] = (s \o t)[i + 1]
  BY <1>1, <1>2, HeadTailProperties
<1>6. PICK u : u = Tail(s)
  OBVIOUS
<1>7. /\ u \o t \in Seq(S) /\ Len(u \o t) = Len(s) - 1 + Len(t)
      /\ \A i \in 1..Len(s) - 1 + Len(t) :
            (u \o t)[i] = IF i <= Len(s) - 1 THEN u[i] ELSE t[i - (Len(s) - 1)]
  BY <1>1, <1>4, <1>6, ConcatProperties
<1>8. Len(u \o t) = Len(Tail(s \o t))
  BY <1>1, <1>5, <1>7
<1>9. ASSUME NEW i \in 1..Len(u \o t)
      PROVE  (u \o t)[i] = Tail(s \o t)[i]
  <2>1. i \in 1..Len(s) + Len(t) - 1 /\ i + 1 \in 1..Len(s) + Len(t)
    BY <1>1, <1>7
  <2>2. Tail(s \o t)[i] = IF i + 1 <= Len(s) THEN s[i + 1] ELSE t[i + 1 - Len(s)]
    BY <1>1, <1>5, <2>1
  <2>3. CASE i <= Len(s) - 1
    BY <1>1, <1>4, <1>6, <1>7, <2>1, <2>2, <2>3
  <2>4. CASE ~(i <= Len(s) - 1)
    <3>1. i + 1 - Len(s) = i - (Len(s) - 1)
      BY <1>1
    <3> QED
      BY <1>1, <1>7, <2>1, <2>2, <2>4, <3>1
  <2> QED
    BY <2>3, <2>4
<1>10. u \o t = Tail(s \o t)
  BY <1>5, <1>7, <1>8, <1>9, SeqEqual
<1> QED
  BY <1>2, <1>3, <1>6, <1>10

-----------------------------------------------------------------------------
(* What a step does to the line.                                            *)

\* onAgentReadyToRunScript with the queue q, which may be longer by what came
\* from stdin
Queues(q) ==
    \/ q = toRunList /\ nextId' = nextId
    \/ \E n \in 1..2 :
         /\ nextId' = nextId + n
         /\ q = toRunList \o [i \in 1..n |-> [id |-> nextId + i, after |-> FALSE]]

Sent(q) ==
    /\ q # <<>>
    /\ toRunList' = Tail(q)
    /\ Line' = Line \o ScriptPackets(Head(q).id)

AgentStill == UNCHANGED <<app, agentVars>>
QueueStill == UNCHANGED queueVars

SendsOne    == AgentStill /\ \E q \in Seq(ScriptRec) : Queues(q) /\ Sent(q)
SendsNone   == /\ AgentStill /\ Line' = Line
               /\ \E q \in Seq(ScriptRec) : Queues(q) /\ toRunList' = q
Acks        == /\ AgentStill /\ QueueStill
               /\ Line' = Line \o <<Packet("CloseAck", 0)>>
Cuts        == AgentStill /\ QueueStill /\ Line' = <<>> /\ app # "alive"
Takes       == /\ QueueStill /\ app' = app
               /\ Line # <<>> /\ Line' = Tail(Line)
               /\ pc = "read" /\ current' \in Nat
               /\ \/ /\ IsRun(Head(Line))
                     /\ pc' = "script" /\ curFile' = curFile
                     /\ current' = Head(Line).id
                     /\ ran' = Append(ran, Head(Line).id)
                  \/ /\ Head(Line).type = "SetScriptFileName"
                     /\ curFile' = Head(Line).id
                     /\ UNCHANGED <<pc, current, ran>>
                  \/ /\ Head(Line).type = "CloseAck"
                     /\ UNCHANGED <<pc, curFile, current, ran>>
Ends        == /\ QueueStill /\ UNCHANGED <<app, Line, ran>>
               /\ pc = "ended" /\ pc' = "read" /\ curFile' = 0
Goes        == /\ QueueStill /\ UNCHANGED <<app, Line, ran, curFile, current>>
               /\ pc' \in Busy => pc \in Busy
Falls       == /\ QueueStill /\ app' # "alive" /\ ran' = ran /\ pc' = "off"
               /\ recvBuf' = <<>> /\ sockBuf' = <<>> /\ toAgent' = toAgent
Begins      == /\ QueueStill /\ Line' = <<>> /\ app' = "alive" /\ ran' = ran
               /\ pc' = "loop"

LineStep == \/ SendsOne \/ SendsNone \/ Acks \/ Cuts \/ Takes \/ Ends \/ Goes
            \/ Falls \/ Begins

\* What is put into the connection is at the end of the line.
LEMMA LineGrows ==
    ASSUME TypeOK, NEW new \in Seq(AgentPacket), toAgent' = toAgent \o new,
           UNCHANGED <<recvBuf, sockBuf>>
    PROVE  Line' = Line \o new
<1>1. PICK front : front = recvBuf \o sockBuf
  OBVIOUS
<1>2. front \in Seq(AgentPacket) /\ toAgent \in Seq(AgentPacket)
  BY <1>1, LineType
<1>3. (front \o toAgent) \o new = front \o (toAgent \o new)
  BY <1>2, ConcatAssociative
<1>4. Line' = front \o (toAgent \o new) /\ Line = front \o toAgent
  BY <1>1 DEF Line
<1> QED
  BY <1>3, <1>4

LEMMA ReadyLine ==
    ASSUME TypeOK, AgentStill, NEW connected \in BOOLEAN, NEW running \in BOOLEAN,
           NEW q \in Seq(ScriptRec), Queues(q),
           AgentReadyToRunScript(connected, running, q)
    PROVE  SendsOne \/ SendsNone
<1>1. UNCHANGED <<recvBuf, sockBuf>>
  BY DEF AgentStill, agentVars, bufferVars
<1>2. CASE CanSend(connected, running, q) /\ SendScript(q)
  <2>1. Head(q) \in ScriptRec
    BY <1>2 DEF CanSend
  <2>2. ScriptPackets(Head(q).id) \in Seq(AgentPacket)
    BY <2>1 DEF ScriptRec, ScriptPackets, Packet, AgentPacket, PacketTypeForAgent
  <2>3. Line' = Line \o ScriptPackets(Head(q).id)
    BY <1>1, <1>2, <2>2, LineGrows DEF SendScript
  <2> QED
    BY <1>2, <2>3 DEF SendsOne, Sent, SendScript, CanSend
<1>3. CASE toRunList' = q /\ toAgent' = toAgent
  <2>1. Line' = Line
    BY <1>1, <1>3 DEF Line
  <2> QED
    BY <1>3, <2>1 DEF SendsNone
<1> QED
  BY <1>2, <1>3 DEF AgentReadyToRunScript

LEMMA MonkeyLine ==
    ASSUME TypeOK, DeadInv, MonkeyStep, UNCHANGED agentVars
    PROVE  SendsOne \/ SendsNone \/ Acks \/ Cuts \/ Goes
<1>0. /\ toRunList \in Seq(ScriptRec) /\ scriptRunning \in BOOLEAN
      /\ IsConnected \in BOOLEAN /\ nextId \in Nat /\ toAgent \in Seq(AgentPacket)
  BY DEF TypeOK, WireTypeOK, MonkeyTypeOK, IsConnected
<1>1. AgentStill
  BY DEF MonkeyStep, MonkeyHandler, HandleNewConnection, PrintReport, OnScriptEnd,
     OnScriptError, AnswerClose, ScriptErrorExit, ClientDisconnected, UserAppError,
     UserAppFinished, FinishedBadly, FinishedLast, StdinRunScript, Extract, wireVars,
     AgentStill
<1>2. UNCHANGED <<recvBuf, sockBuf, ran, pc, curFile, current>>
  BY DEF agentVars, bufferVars, threadVars
<1>3. CASE HandleNewConnection
  <2>1. AgentReadyToRunScript(TRUE, scriptRunning, toRunList) /\ nextId' = nextId
    BY <1>3 DEF HandleNewConnection
  <2> QED
    BY <1>0, <1>1, <2>1, ReadyLine DEF Queues
<1>4. CASE OnScriptEnd \/ OnScriptError \/ FinishedLast
  <2>1. AgentReadyToRunScript(IsConnected, FALSE, toRunList) /\ nextId' = nextId
    BY <1>4 DEF OnScriptEnd, OnScriptError, FinishedLast, Extract, ScriptNotRunning
  <2> QED
    BY <1>0, <1>1, <2>1, ReadyLine DEF Queues
<1>5. CASE StdinRunScript
  <2>1. PICK n \in 1..2 :
          /\ nextId' = nextId + n
          /\ AgentReadyToRunScript(IsConnected, scriptRunning,
               toRunList \o [i \in 1..n |-> [id |-> nextId + i, after |-> FALSE]])
    BY <1>5 DEF StdinRunScript
  <2>2. [i \in 1..n |-> [id |-> nextId + i, after |-> FALSE]] \in [1..n -> ScriptRec]
    BY <1>0 DEF ScriptRec
  <2>3. [i \in 1..n |-> [id |-> nextId + i, after |-> FALSE]] \in Seq(ScriptRec)
    BY <2>2, 1 \in Nat, 2 \in Nat, n \in Nat, SeqDef
  <2>4. PICK q : q = toRunList \o [i \in 1..n |-> [id |-> nextId + i, after |-> FALSE]]
    OBVIOUS
  <2>5. q \in Seq(ScriptRec)
    BY <1>0, <2>3, <2>4, ConcatProperties
  <2>6. Queues(q)
    BY <2>1, <2>4 DEF Queues
  <2> QED
    BY <1>0, <1>1, <2>1, <2>4, <2>5, <2>6, ReadyLine
<1>6. CASE AnswerClose
  <2>1. Packet("CloseAck", 0) \in AgentPacket
    BY DEF Packet, AgentPacket, PacketTypeForAgent
  <2>2. toAgent' = toAgent \o <<Packet("CloseAck", 0)>> /\ QueueStill
    BY <1>0, <1>6, <2>1, AppendIsConcat DEF AnswerClose, Extract, QueueStill, queueVars
  <2>3. <<Packet("CloseAck", 0)>> \in Seq(AgentPacket)
    BY <2>1
  <2>4. Line' = Line \o <<Packet("CloseAck", 0)>>
    BY <1>2, <2>2, <2>3, LineGrows
  <2> QED
    BY <1>1, <2>2, <2>4 DEF Acks
<1>7. CASE ClientDisconnected
  <2>1. toAgent' = <<>> /\ app # "alive" /\ QueueStill
    BY <1>7 DEF ClientDisconnected, monkeyVars, QueueStill
  <2>2. recvBuf' = <<>> /\ sockBuf' = <<>>
    BY <1>2, <2>1 DEF DeadInv
  <2>3. Line' = <<>>
    BY <2>1, <2>2, EmptyIsSeq, ConcatEmptySeq DEF Line
  <2> QED
    BY <1>1, <2>1, <2>3 DEF Cuts
<1>8. CASE \/ PrintReport \/ ScriptErrorExit \/ UserAppError \/ UserAppFinished
           \/ FinishedBadly
  <2>1. toAgent' = toAgent /\ app' = app /\ QueueStill
    BY <1>8 DEF PrintReport, Extract, ScriptErrorExit, UserAppError, UserAppFinished,
                FinishedBadly, wireVars, queueVars, QueueStill
  <2> QED
    BY <1>2, <2>1 DEF Goes, Line
<1> QED
  BY <1>3, <1>4, <1>5, <1>6, <1>7, <1>8 DEF MonkeyStep, MonkeyHandler

LEMMA AgentLine ==
    ASSUME TypeOK, DeadInv, AgentStep \/ Connect \/ MonkeyGone, UNCHANGED monkeyVars
    PROVE  Takes \/ Ends \/ Goes \/ Falls
<1>0. QueueStill /\ current \in Nat
  BY DEF monkeyVars, QueueStill, TypeOK, AgentTypeOK
<1>1. CASE \/ Connect \/ SendData \/ ThreadExit \/ ScriptLog \/ CallGui \/ ScriptOk
           \/ ScriptThrows \/ SendScriptError \/ ServeAgent \/ UserEvent
           \/ AppAboutToQuit \/ HasCloseAck \/ QuitThread \/ ReadDone
  <2>1. UNCHANGED <<app, toAgent, sockBuf, recvBuf, ran, curFile, current>>
    BY <1>1 DEF Connect, ConnectToMonkey, SendData, ThreadExit, ScriptLog, CallGui,
         ScriptOk, ScriptThrows, SendScriptError, ServeAgent, UserEvent, AppAboutToQuit,
         HasCloseAck, QuitThread, ReadDone, wireVars, bufferVars, threadVars
  <2>2. pc' \in Busy => pc \in Busy
    BY <1>1 DEF Connect, ConnectToMonkey, SendData, ThreadExit, ScriptLog, CallGui,
         ScriptOk, ScriptThrows, SendScriptError, ServeAgent, UserEvent, AppAboutToQuit,
         HasCloseAck, QuitThread, ReadDone, threadVars, Busy
  <2> QED
    BY <1>0, <2>1, <2>2 DEF Goes, Line
<1>2. CASE SendScriptEnd
  <2>1. /\ UNCHANGED <<app, toAgent, sockBuf, recvBuf, ran>>
        /\ pc = "ended" /\ pc' = "read" /\ curFile' = 0
    BY <1>2 DEF SendScriptEnd, wireVars
  <2> QED
    BY <1>0, <2>1 DEF Ends, Line
<1>3. CASE NestedReadyRead
  <2>1. /\ UNCHANGED <<app, recvBuf, ran, curFile, current, pc>>
        /\ sockBuf' = sockBuf \o toAgent /\ toAgent' = <<>>
    BY <1>3 DEF NestedReadyRead, threadVars
  <2>2. /\ (recvBuf \o sockBuf) \o toAgent = recvBuf \o (sockBuf \o toAgent)
        /\ sockBuf \o toAgent \in Seq(AgentPacket)
    BY LineType, ConcatAssociative, ConcatProperties
  <2>3. recvBuf \o (sockBuf \o toAgent) \in Seq(AgentPacket)
    BY <2>2, LineType, ConcatProperties
  <2>4. (recvBuf \o (sockBuf \o toAgent)) \o <<>> = recvBuf \o (sockBuf \o toAgent)
    BY <2>3, ConcatEmptySeq
  <2>5. Line' = Line
    BY <2>1, <2>2, <2>4 DEF Line
  <2> QED
    BY <1>0, <2>1, <2>5 DEF Goes
<1>4. CASE ReadyRead
  <2>1. PICK n \in 1..Len(toAgent) :
          /\ recvBuf' = recvBuf \o sockBuf \o SubSeq(toAgent, 1, n)
          /\ toAgent' = SubSeq(toAgent, n + 1, Len(toAgent))
    BY <1>4 DEF ReadyRead
  <2>2. /\ UNCHANGED <<app, ran, curFile, current>> /\ sockBuf' = <<>>
        /\ pc' = "read"
    BY <1>4 DEF ReadyRead
  <2>3. Len(toAgent) \in Nat /\ toAgent \in Seq(AgentPacket)
    BY LineType, LenProperties
  <2>4. PICK front, a, b : /\ front = recvBuf \o sockBuf
                           /\ a = SubSeq(toAgent, 1, n)
                           /\ b = SubSeq(toAgent, n + 1, Len(toAgent))
    OBVIOUS
  <2>5. a \o b = toAgent
    <3>1. a \o b = SubSeq(toAgent, 1, Len(toAgent))
      <4>1. /\ 1 \in 1..Len(toAgent) + 1 /\ n \in 1 - 1..Len(toAgent)
            /\ Len(toAgent) \in n..Len(toAgent)
        BY <2>3
      <4> QED
        BY <2>3, <2>4, <4>1, ConcatAdjacentSubSeq
    <3> QED
      BY <2>3, <3>1, SubSeqFull
  <2>6. /\ front \in Seq(AgentPacket)
        /\ a \in Seq(AgentPacket) /\ b \in Seq(AgentPacket)
    BY <2>3, <2>4, LineType, SubSeqProperties, ElementOfSeq
  <2>7. (front \o a) \o b = front \o (a \o b)
    BY <2>6, ConcatAssociative
  <2>8. (front \o a) \o <<>> = front \o a
    BY <2>6, ConcatProperties, ConcatEmptySeq
  <2>9. Line = front \o toAgent /\ Line' = ((front \o a) \o <<>>) \o b
    BY <2>1, <2>2, <2>4 DEF Line
  <2>10. Line' = Line
    BY <2>5, <2>7, <2>8, <2>9
  <2> QED
    BY <1>0, <2>2, <2>10 DEF Goes, Busy
<1>5. CASE SetScriptFileName \/ RunScript \/ CloseAck
  <2>1. /\ recvBuf # <<>> /\ recvBuf' = Tail(recvBuf) /\ pc = "read"
        /\ UNCHANGED <<app, toAgent, sockBuf>>
    BY <1>5 DEF SetScriptFileName, RunScript, CloseAck, wireVars
  <2>2. /\ recvBuf \o sockBuf # <<>>
        /\ Head(recvBuf \o sockBuf) = Head(recvBuf)
        /\ Tail(recvBuf) \o sockBuf = Tail(recvBuf \o sockBuf)
    BY <2>1, LineType, TailOfConcat
  <2>3. PICK front : front = recvBuf \o sockBuf
    OBVIOUS
  <2>4. front \in Seq(AgentPacket) /\ toAgent \in Seq(AgentPacket) /\ front # <<>>
    BY <2>2, <2>3, LineType
  <2>5. /\ front \o toAgent # <<>>
        /\ Head(front \o toAgent) = Head(front)
        /\ Tail(front) \o toAgent = Tail(front \o toAgent)
    BY <2>4, TailOfConcat
  <2>6. Line = front \o toAgent /\ Line' = (Tail(recvBuf) \o sockBuf) \o toAgent
    BY <2>1, <2>3 DEF Line
  <2>7. Line # <<>> /\ Line' = Tail(Line) /\ Head(Line) = Head(recvBuf)
    BY <2>2, <2>3, <2>5, <2>6
  <2>8. Head(recvBuf) \in AgentPacket
    BY <2>1, LineType
  <2>9. Head(recvBuf).id \in Nat
    BY <2>8 DEF AgentPacket
  <2>10. CASE RunScript
    BY <1>0, <2>1, <2>7, <2>9, <2>10 DEF RunScript, Takes, IsRun
  <2>11. CASE SetScriptFileName
    BY <1>0, <2>1, <2>7, <2>11 DEF SetScriptFileName, Takes, threadVars
  <2>12. CASE CloseAck
    BY <1>0, <2>1, <2>7, <2>12 DEF CloseAck, Takes, threadVars
  <2> QED
    BY <1>5, <2>10, <2>11, <2>12
<1>6. CASE MonkeyGone \/ AppExits \/ AppDies
  <2>1. ProcessGone /\ app' # "alive"
    BY <1>6 DEF MonkeyGone, CommunicationError, AppExits, AppDies
  <2> QED
    BY <1>0, <2>1 DEF ProcessGone, Falls
<1> QED
  BY <1>1, <1>2, <1>3, <1>4, <1>5, <1>6 DEF AgentStep, AgentThreadStep, GuiThreadStep

\* Every step does one of these things to the line and the queue.
LEMMA LineKinds ==
    ASSUME TypeOK, DeadInv, [Next]_vars
    PROVE  LineStep
<1>1. CASE MonkeyStep /\ UNCHANGED agentVars
  BY <1>1, MonkeyLine DEF LineStep
<1>2. CASE (AgentStep \/ Connect \/ MonkeyGone) /\ UNCHANGED monkeyVars
  BY <1>2, AgentLine DEF LineStep
<1>3. CASE Restart
  <2>1. /\ recvBuf' = <<>> /\ sockBuf' = <<>> /\ toAgent' = <<>>
        /\ app' = "alive" /\ ran' = ran /\ pc' = "loop" /\ QueueStill
    BY <1>3 DEF Restart, RestartUserApp, AgentRestart, DeadInv, bufferVars, QueueStill
  <2>2. Line' = <<>>
    BY <2>1, EmptyIsSeq, ConcatEmptySeq DEF Line
  <2> QED
    BY <2>1, <2>2 DEF Begins, LineStep
<1>4. CASE UNCHANGED vars
  BY <1>4 DEF vars, wireVars, monkeyVars, agentVars, bufferVars, threadVars, QueueStill,
              Goes, Line, LineStep
<1> QED
  BY <1>1, <1>2, <1>3, <1>4 DEF Next, Connect, MonkeyGone

\* What is appended to a line, seen by its indices
LEMMA ConcatLine ==
    ASSUME NEW w \in Seq(AgentPacket), NEW new \in Seq(AgentPacket), new # <<>>
    PROVE  /\ w \o new \in Seq(AgentPacket) /\ w \o new # <<>>
           /\ Len(w \o new) = Len(w) + Len(new) /\ Len(w) \in Nat /\ Len(new) \in Nat
           /\ \A i \in 1..Len(w) : (w \o new)[i] = w[i]
           /\ \A i \in 1..Len(new) : (w \o new)[Len(w) + i] = new[i]
           /\ Head(w \o new) = IF w = <<>> THEN Head(new) ELSE Head(w)
<1>1. /\ w \o new \in Seq(AgentPacket) /\ Len(w \o new) = Len(w) + Len(new)
      /\ Len(w) \in Nat /\ Len(new) \in Nat /\ Len(new) # 0
      /\ \A i \in 1..Len(w) + Len(new) :
            (w \o new)[i] = IF i <= Len(w) THEN w[i] ELSE new[i - Len(w)]
  BY ConcatProperties, LenProperties, EmptySeq
<1>2. w \o new # <<>>
  BY <1>1, EmptySeq
<1>3. ASSUME NEW i \in 1..Len(new)
      PROVE  (w \o new)[Len(w) + i] = new[i]
  <2>1. Len(w) + i \in 1..Len(w) + Len(new) /\ ~(Len(w) + i <= Len(w))
        /\ Len(w) + i - Len(w) = i
    BY <1>1
  <2> QED
    BY <1>1, <2>1
<1>4. Head(w \o new) = IF w = <<>> THEN Head(new) ELSE Head(w)
  <2>1. CASE w = <<>>
    BY <2>1, ConcatEmptySeq
  <2>2. CASE w # <<>>
    BY <2>2, TailOfConcat
  <2> QED
    BY <2>1, <2>2
<1> QED
  BY <1>1, <1>2, <1>3, <1>4

LEMMA TwoPackets ==
    ASSUME NEW id \in Nat
    PROVE  /\ ScriptPackets(id) \in Seq(AgentPacket)
           /\ ScriptPackets(id) # <<>> /\ Len(ScriptPackets(id)) = 2
           /\ ScriptPackets(id)[1] = Packet("SetScriptFileName", id)
           /\ ScriptPackets(id)[2] = Packet("RunScript", id)
           /\ Head(ScriptPackets(id)) = Packet("SetScriptFileName", id)
BY DEF ScriptPackets, Packet, AgentPacket, PacketTypeForAgent

LEMMA OneAck ==
    /\ <<Packet("CloseAck", 0)>> \in Seq(AgentPacket)
    /\ <<Packet("CloseAck", 0)>> # <<>> /\ Len(<<Packet("CloseAck", 0)>>) = 1
    /\ <<Packet("CloseAck", 0)>>[1] = Packet("CloseAck", 0)
    /\ Head(<<Packet("CloseAck", 0)>>) = Packet("CloseAck", 0)
BY DEF Packet, AgentPacket, PacketTypeForAgent

-----------------------------------------------------------------------------
(* The names of the scripts: in the line a script comes right behind its    *)
(* name; at the head of the line it stands only when the agent holds the    *)
(* name already and runs no other script.                                   *)

Named(w) ==
    \A i \in 1..Len(w) :
        i # 1 /\ IsRun(w[i]) => w[i - 1] = Packet("SetScriptFileName", w[i].id)

NameInv ==
    /\ Named(Lane)
    /\ Lane # <<>> /\ IsRun(Head(Lane)) => curFile = Head(Lane).id /\ pc \notin Busy
    /\ pc \in Busy => curFile = current

LEMMA NamedSend ==
    ASSUME NEW w \in Seq(AgentPacket), NEW id \in Nat, Named(w)
    PROVE  Named(w \o ScriptPackets(id))
<1>1. PICK new : new = ScriptPackets(id)
  OBVIOUS
<1>2. /\ Len(w \o new) = Len(w) + 2 /\ Len(w) \in Nat
      /\ \A i \in 1..Len(w) : (w \o new)[i] = w[i]
      /\ (w \o new)[Len(w) + 1] = Packet("SetScriptFileName", id)
      /\ (w \o new)[Len(w) + 2] = Packet("RunScript", id)
  <2>1. /\ new \in Seq(AgentPacket) /\ new # <<>> /\ Len(new) = 2
        /\ new[1] = Packet("SetScriptFileName", id) /\ new[2] = Packet("RunScript", id)
    BY <1>1, TwoPackets
  <2>2. /\ Len(w \o new) = Len(w) + Len(new) /\ Len(w) \in Nat
        /\ \A i \in 1..Len(w) : (w \o new)[i] = w[i]
        /\ \A i \in 1..Len(new) : (w \o new)[Len(w) + i] = new[i]
    BY <2>1, ConcatLine
  <2>3. 1 \in 1..Len(new) /\ 2 \in 1..Len(new)
    BY <2>1
  <2> QED
    BY <2>1, <2>2, <2>3
<1>3. PICK u : u = w \o new
  OBVIOUS
<1>4. SUFFICES ASSUME NEW i \in 1..Len(u), i # 1, IsRun(u[i])
               PROVE  u[i - 1] = Packet("SetScriptFileName", u[i].id)
  BY <1>1, <1>3 DEF Named
<1>5. CASE i \in 1..Len(w)
  <2>1. i - 1 \in 1..Len(w) /\ u[i] = w[i] /\ u[i - 1] = w[i - 1]
    BY <1>2, <1>3, <1>4, <1>5
  <2> QED
    BY <1>4, <1>5, <2>1 DEF Named
<1>6. CASE i = Len(w) + 1
  BY <1>2, <1>3, <1>4, <1>6 DEF IsRun, Packet
<1>7. CASE i = Len(w) + 2
  <2>1. i - 1 = Len(w) + 1
    BY <1>2, <1>7
  <2> QED
    BY <1>2, <1>3, <1>7, <2>1 DEF Packet
<1> QED
  BY <1>2, <1>3, <1>4, <1>5, <1>6, <1>7

LEMMA NamedAck ==
    ASSUME NEW w \in Seq(AgentPacket), Named(w)
    PROVE  Named(w \o <<Packet("CloseAck", 0)>>)
<1>1. PICK new : new = <<Packet("CloseAck", 0)>>
  OBVIOUS
<1>2. /\ Len(w \o new) = Len(w) + 1 /\ Len(w) \in Nat
      /\ \A i \in 1..Len(w) : (w \o new)[i] = w[i]
      /\ (w \o new)[Len(w) + 1] = Packet("CloseAck", 0)
  BY <1>1, OneAck, ConcatLine
<1>3. PICK u : u = w \o new
  OBVIOUS
<1>4. SUFFICES ASSUME NEW i \in 1..Len(u), i # 1, IsRun(u[i])
               PROVE  u[i - 1] = Packet("SetScriptFileName", u[i].id)
  BY <1>1, <1>3 DEF Named
<1>5. i # Len(w) + 1
  BY <1>2, <1>3, <1>4 DEF IsRun, Packet
<1>6. i \in 1..Len(w) /\ i - 1 \in 1..Len(w)
  BY <1>2, <1>3, <1>4, <1>5
<1>7. u[i] = w[i] /\ u[i - 1] = w[i - 1]
  BY <1>2, <1>3, <1>6
<1> QED
  BY <1>4, <1>6, <1>7 DEF Named

LEMMA NamedTail ==
    ASSUME NEW w \in Seq(AgentPacket), w # <<>>, Named(w)
    PROVE  /\ Named(Tail(w))
           /\ Tail(w) # <<>> /\ IsRun(Head(Tail(w))) =>
                Head(w) = Packet("SetScriptFileName", Head(Tail(w)).id)
<1>1. /\ Tail(w) \in Seq(AgentPacket) /\ Len(Tail(w)) = Len(w) - 1 /\ Len(w) \in Nat
      /\ \A i \in 1..Len(Tail(w)) : Tail(w)[i] = w[i + 1]
      /\ Head(w) = w[1]
  BY HeadTailProperties, LenProperties
<1>2. ASSUME NEW i \in 1..Len(Tail(w)), IsRun(Tail(w)[i])
      PROVE  w[i] = Packet("SetScriptFileName", Tail(w)[i].id)
  <2>1. i + 1 \in 1..Len(w) /\ i + 1 # 1 /\ i + 1 - 1 = i
    BY <1>1
  <2> QED
    BY <1>1, <1>2, <2>1 DEF Named
<1>3. ASSUME NEW i \in 1..Len(Tail(w)), i # 1, IsRun(Tail(w)[i])
      PROVE  Tail(w)[i - 1] = Packet("SetScriptFileName", Tail(w)[i].id)
  <2>1. i - 1 \in 1..Len(Tail(w)) /\ i - 1 + 1 = i
    BY <1>1, <1>3
  <2> QED
    BY <1>1, <1>2, <1>3, <2>1
<1>4. ASSUME Tail(w) # <<>>, IsRun(Head(Tail(w)))
      PROVE  Head(w) = Packet("SetScriptFileName", Head(Tail(w)).id)
  <2>1. 1 \in 1..Len(Tail(w)) /\ Head(Tail(w)) = Tail(w)[1]
    BY <1>1, <1>4, EmptySeq, LenProperties
  <2> QED
    BY <1>1, <1>2, <1>4, <2>1
<1> QED
  BY <1>3, <1>4 DEF Named

LEMMA NameStep == TypeOK /\ DeadInv /\ NameInv /\ [Next]_vars => NameInv'
<1> SUFFICES ASSUME TypeOK, DeadInv, NameInv, [Next]_vars PROVE NameInv'
  OBVIOUS
<1>0. Line \in Seq(AgentPacket) /\ toRunList \in Seq(ScriptRec) /\ nextId \in Nat
      /\ Named(<<>>)
  BY LineType DEF TypeOK, MonkeyTypeOK, Named
<1>a. /\ app = "alive" => Lane = Line
      /\ app # "alive" => Lane = <<>>
      /\ app' = "alive" => Lane' = Line'
      /\ app' # "alive" => Lane' = <<>>
  BY DEF Lane
<1>b. ASSUME Lane' = Lane, UNCHANGED <<curFile, current>>, pc' \in Busy => pc \in Busy
      PROVE  NameInv'
  BY <1>b DEF NameInv, Named
<1>c. ASSUME Lane' = <<>>, pc' \in Busy => pc \in Busy /\ UNCHANGED <<curFile, current>>
      PROVE  NameInv'
  BY <1>0, <1>c DEF NameInv, Named
<1>1. CASE SendsOne
  <2>1. PICK q \in Seq(ScriptRec) : Sent(q)
    BY <1>1 DEF SendsOne
  <2>2. Head(q) \in ScriptRec /\ app' = app /\ UNCHANGED <<pc, curFile, current>>
    BY <1>1, <2>1 DEF Sent, SendsOne, AgentStill, agentVars, threadVars, bufferVars
  <2>3. PICK id \in Nat : Line' = Line \o ScriptPackets(id)
    BY <2>1, <2>2 DEF Sent, ScriptRec
  <2>4. CASE app = "alive"
    <3>1. Named(Line')
      BY <1>0, <1>a, <2>3, <2>4, NamedSend DEF NameInv
    <3>2. Head(Line') = IF Line = <<>> THEN Packet("SetScriptFileName", id) ELSE Head(Line)
      BY <1>0, <2>3, TwoPackets, ConcatLine
    <3>3. IsRun(Head(Line')) => Line # <<>> /\ Head(Line') = Head(Line)
      BY <3>2 DEF IsRun, Packet
    <3> QED
      BY <1>a, <2>2, <2>4, <3>1, <3>3 DEF NameInv, Named
  <2>5. CASE app # "alive"
    BY <1>a, <1>c, <2>2, <2>5
  <2> QED
    BY <2>4, <2>5
<1>2. CASE SendsNone
  <2>1. Line' = Line /\ app' = app /\ UNCHANGED <<pc, curFile, current>>
    BY <1>2 DEF SendsNone, AgentStill, agentVars, threadVars, bufferVars
  <2> QED
    BY <1>a, <1>b, <2>1
<1>3. CASE Acks
  <2>1. /\ Line' = Line \o <<Packet("CloseAck", 0)>> /\ app' = app
        /\ UNCHANGED <<pc, curFile, current>>
    BY <1>3 DEF Acks, AgentStill, agentVars, threadVars, bufferVars
  <2>2. CASE app = "alive"
    <3>1. Named(Line')
      BY <1>0, <1>a, <2>1, <2>2, NamedAck DEF NameInv
    <3>2. Head(Line') = IF Line = <<>> THEN Packet("CloseAck", 0) ELSE Head(Line)
      BY <1>0, <2>1, OneAck, ConcatLine
    <3>3. IsRun(Head(Line')) => Line # <<>> /\ Head(Line') = Head(Line)
      BY <3>2 DEF IsRun, Packet
    <3> QED
      BY <1>a, <2>1, <2>2, <3>1, <3>3 DEF NameInv, Named
  <2>3. CASE app # "alive"
    BY <1>a, <1>c, <2>1, <2>3
  <2> QED
    BY <2>2, <2>3
<1>4. CASE Cuts
  BY <1>4, <1>a, <1>c DEF Cuts, AgentStill, agentVars, threadVars, bufferVars
<1>5. CASE Takes
  <2>1. CASE app # "alive"
    BY <1>5, <2>1 DEF Takes, DeadInv
  <2>2. CASE app = "alive"
    <3>1. /\ Lane = Line /\ Lane' = Tail(Line) /\ Line # <<>>
          /\ Named(Line)
          /\ IsRun(Head(Line)) => curFile = Head(Line).id
      BY <1>5, <1>a, <2>2 DEF Takes, NameInv
    <3>2. /\ Named(Tail(Line))
          /\ Tail(Line) # <<>> /\ IsRun(Head(Tail(Line))) =>
                Head(Line) = Packet("SetScriptFileName", Head(Tail(Line)).id)
      BY <1>0, <3>1, NamedTail
    <3>3. Named(Lane')
      BY <3>1, <3>2
    <3>4. CASE /\ IsRun(Head(Line))
               /\ pc' = "script" /\ curFile' = curFile /\ current' = Head(Line).id
      <4>1. ~(Tail(Line) # <<>> /\ IsRun(Head(Tail(Line))))
        BY <3>2, <3>4 DEF IsRun, Packet
      <4> QED
        BY <3>1, <3>3, <3>4, <4>1 DEF NameInv, Named
    <3>5. CASE /\ Head(Line).type = "SetScriptFileName"
               /\ curFile' = Head(Line).id
               /\ UNCHANGED <<pc, current>>
      <4>1. pc' \notin Busy
        BY <1>5, <3>5 DEF Takes, Busy
      <4>2. Tail(Line) # <<>> /\ IsRun(Head(Tail(Line))) =>
               curFile' = Head(Tail(Line)).id
        BY <3>2, <3>5 DEF Packet
      <4> QED
        BY <3>1, <3>3, <4>1, <4>2 DEF NameInv, Named
    <3>6. CASE Head(Line).type = "CloseAck" /\ UNCHANGED <<pc, curFile, current>>
      <4>1. pc' \notin Busy
        BY <1>5, <3>6 DEF Takes, Busy
      <4>2. ~(Tail(Line) # <<>> /\ IsRun(Head(Tail(Line))))
        BY <3>2, <3>6 DEF Packet
      <4> QED
        BY <3>1, <3>3, <4>1, <4>2 DEF NameInv, Named
    <3> QED
      BY <1>5, <3>4, <3>5, <3>6 DEF Takes
  <2> QED
    BY <2>1, <2>2
<1>6. CASE Ends
  <2>1. Lane' = Lane /\ pc \in Busy /\ pc' \notin Busy
    BY <1>6, <1>a DEF Ends, Busy
  <2>2. ~(Lane # <<>> /\ IsRun(Head(Lane)))
    BY <2>1 DEF NameInv
  <2> QED
    BY <2>1, <2>2 DEF NameInv, Named
<1>7. CASE Goes
  BY <1>7, <1>a, <1>b DEF Goes
<1>8. CASE Falls
  BY <1>8, <1>a, <1>c DEF Falls, Busy
<1>9. CASE Begins
  BY <1>9, <1>a, <1>c DEF Begins, Busy
<1> QED
  BY <1>1, <1>2, <1>3, <1>4, <1>5, <1>6, <1>7, <1>8, <1>9, LineKinds DEF LineStep

LEMMA NameInit == Init => NameInv
<1> SUFFICES ASSUME Init PROVE NameInv
  OBVIOUS
<1>1. /\ recvBuf = <<>> /\ sockBuf = <<>> /\ toAgent = <<>> /\ pc = "loop"
  BY DEF Init, WireInit, AgentInit
<1>2. Lane = <<>>
  BY <1>1, EmptyIsSeq, ConcatEmptySeq DEF Lane, Line
<1> QED
  BY <1>1, <1>2 DEF NameInv, Named, Busy

\* The agent runs a script under its own name, however the packets of scripts,
\* names and acknowledgements were left in the socket, or followed each other
\* (readCommands, sendCommand of the two packets of a script).
THEOREM NameOfItsOwn == Spec => []FileNameOfScript
<1>1. NameInv => FileNameOfScript
  BY DEF NameInv, FileNameOfScript, Busy
<1> QED
  BY <1>1, TypeInit, TypeStep, PipeInit, DeadStep, NameInit, NameStep, PTL DEF Spec

-----------------------------------------------------------------------------
(* The order of the scripts: those that ran have ids up to h, those in the  *)
(* line ids up to k, those in the queue ids up to n, each part in order.    *)

Increasing(r)   == \A i, j \in 1..Len(r) : i < j => r[i] < r[j]
RunsIncrease(w) ==
    \A i, j \in 1..Len(w) :
        i < j /\ IsRun(w[i]) /\ IsRun(w[j]) => w[i].id < w[j].id
QueueIncreases(q) == \A i, j \in 1..Len(q) : i < j => q[i].id < q[j].id

RanUpTo(r, h)     == \A i \in 1..Len(r) : r[i] <= h
LineFits(w, h, k) == \A i \in 1..Len(w) : IsRun(w[i]) => h < w[i].id /\ w[i].id <= k
QueueFits(q, k, n) == \A i \in 1..Len(q) : k < q[i].id /\ q[i].id <= n

Between(r, w, q, h, k, n) ==
    /\ h <= k /\ k <= n
    /\ RanUpTo(r, h) /\ LineFits(w, h, k) /\ QueueFits(q, k, n)

Ordered(r, w, q, n) ==
    /\ Increasing(r) /\ RunsIncrease(w) /\ QueueIncreases(q)
    /\ \E h, k \in Nat : Between(r, w, q, h, k, n)

OrderInv == Ordered(ran, Lane, toRunList, nextId)

LEMMA QueueTail ==
    ASSUME NEW q \in Seq(ScriptRec), q # <<>>, QueueIncreases(q),
           NEW k \in Nat, NEW n \in Nat, QueueFits(q, k, n)
    PROVE  /\ Head(q).id \in Nat /\ k < Head(q).id /\ Head(q).id <= n
           /\ QueueIncreases(Tail(q)) /\ QueueFits(Tail(q), Head(q).id, n)
<1>1. /\ Tail(q) \in Seq(ScriptRec) /\ Len(Tail(q)) = Len(q) - 1 /\ Len(q) \in Nat
      /\ \A i \in 1..Len(Tail(q)) : Tail(q)[i] = q[i + 1]
      /\ Head(q) = q[1] /\ Head(q) \in ScriptRec
  BY HeadTailProperties, LenProperties
<1>2. 1 \in 1..Len(q) /\ \A i \in 1..Len(Tail(q)) : i + 1 \in 1..Len(q)
  BY <1>1, EmptySeq
<1>3. Head(q).id \in Nat /\ k < Head(q).id /\ Head(q).id <= n
  BY <1>1, <1>2 DEF QueueFits, ScriptRec
<1>4. QueueIncreases(Tail(q))
  <2> SUFFICES ASSUME NEW i \in 1..Len(Tail(q)), NEW j \in 1..Len(Tail(q)), i < j
               PROVE  Tail(q)[i].id < Tail(q)[j].id
    BY DEF QueueIncreases
  <2>1. i + 1 < j + 1
    BY <1>1
  <2> QED
    BY <1>1, <1>2, <2>1 DEF QueueIncreases
<1>5. QueueFits(Tail(q), Head(q).id, n)
  <2> SUFFICES ASSUME NEW i \in 1..Len(Tail(q))
               PROVE  Head(q).id < Tail(q)[i].id /\ Tail(q)[i].id <= n
    BY DEF QueueFits
  <2>1. 1 < i + 1
    BY <1>1
  <2> QED
    BY <1>1, <1>2, <2>1 DEF QueueIncreases, QueueFits
<1> QED
  BY <1>3, <1>4, <1>5

LEMMA OrderedQueue ==
    ASSUME NEW r \in Seq(Nat), NEW w \in Seq(AgentPacket), NEW q \in Seq(ScriptRec),
           NEW n \in Nat, Ordered(r, w, q, n), NEW m \in 1..2
    PROVE  Ordered(r, w, q \o [i \in 1..m |-> [id |-> n + i, after |-> FALSE]], n + m)
<1>1. PICK h \in Nat, k \in Nat : Between(r, w, q, h, k, n)
  BY DEF Ordered
<1>2. PICK new : new = [i \in 1..m |-> [id |-> n + i, after |-> FALSE]]
  OBVIOUS
<1>3. new \in [1..m -> ScriptRec] /\ m \in Nat
  BY <1>2 DEF ScriptRec
<1>4. new \in Seq(ScriptRec) /\ Len(new) = m
  BY <1>3, SeqDef, LenProperties
<1>5. PICK u : u = q \o new
  OBVIOUS
<1>6. /\ u \in Seq(ScriptRec) /\ Len(u) = Len(q) + m /\ Len(q) \in Nat
      /\ \A i \in 1..Len(q) + m : u[i] = IF i <= Len(q) THEN q[i] ELSE new[i - Len(q)]
  BY <1>4, <1>5, ConcatProperties, LenProperties
<1>7. \A i \in 1..Len(q) : u[i] = q[i] /\ q[i] \in ScriptRec /\ q[i].id \in Nat
  <2> TAKE i \in 1..Len(q)
  <2>1. q[i] \in ScriptRec
    BY ElementOfSeq
  <2>2. u[i] = q[i]
    BY <1>6
  <2> QED
    BY <2>1, <2>2 DEF ScriptRec
<1>8. ASSUME NEW i \in Len(q) + 1..Len(q) + m
      PROVE  u[i].id = n + (i - Len(q))
  <2>1. i \in 1..Len(q) + m /\ ~(i <= Len(q)) /\ i - Len(q) \in 1..m
    BY <1>6
  <2>2. u[i] = new[i - Len(q)]
    BY <1>6, <2>1
  <2> QED
    BY <1>2, <2>1, <2>2
<1>9. QueueFits(u, k, n + m)
  <2> SUFFICES ASSUME NEW i \in 1..Len(u) PROVE k < u[i].id /\ u[i].id <= n + m
    BY DEF QueueFits
  <2>1. CASE i \in 1..Len(q)
    BY <1>1, <1>7, <2>1 DEF Between, QueueFits
  <2>2. CASE i \notin 1..Len(q)
    <3>1. i \in Len(q) + 1..Len(q) + m
      BY <1>6, <2>2
    <3>2. u[i].id = n + (i - Len(q)) /\ k <= n
      BY <1>1, <1>8, <3>1 DEF Between
    <3> QED
      BY <1>6, <3>1, <3>2
  <2> QED
    BY <2>1, <2>2
<1>10. QueueIncreases(u)
  <2> SUFFICES ASSUME NEW i \in 1..Len(u), NEW j \in 1..Len(u), i < j
               PROVE  u[i].id < u[j].id
    BY DEF QueueIncreases
  <2>1. CASE j \in 1..Len(q)
    <3>1. i \in 1..Len(q)
      BY <1>6, <2>1
    <3> QED
      BY <1>7, <2>1, <3>1 DEF Ordered, QueueIncreases
  <2>2. CASE j \notin 1..Len(q)
    <3>1. j \in Len(q) + 1..Len(q) + m /\ u[j].id = n + (j - Len(q))
      BY <1>6, <1>8, <2>2
    <3>2. CASE i \in 1..Len(q)
      <4>1. u[i].id \in Nat /\ u[i].id <= n
        BY <1>1, <1>7, <3>2 DEF Between, QueueFits
      <4> QED
        BY <1>6, <3>1, <4>1
    <3>3. CASE i \notin 1..Len(q)
      <4>1. i \in Len(q) + 1..Len(q) + m /\ u[i].id = n + (i - Len(q))
        BY <1>6, <1>8, <3>3
      <4> QED
        BY <1>6, <3>1, <4>1
    <3> QED
      BY <3>2, <3>3
  <2> QED
    BY <2>1, <2>2
<1>11. Between(r, w, u, h, k, n + m)
  BY <1>1, <1>3, <1>9 DEF Between
<1> QED
  BY <1>2, <1>5, <1>10, <1>11 DEF Ordered

\* A script is sent: it leaves the queue for the line, if there is one.
LEMMA OrderedSend ==
    ASSUME NEW r \in Seq(Nat), NEW w \in Seq(AgentPacket), NEW q \in Seq(ScriptRec),
           q # <<>>, NEW n \in Nat, Ordered(r, w, q, n)
    PROVE  /\ Ordered(r, w, Tail(q), n)
           /\ Ordered(r, w \o ScriptPackets(Head(q).id), Tail(q), n)
<1>1. PICK h \in Nat, k \in Nat : Between(r, w, q, h, k, n)
  BY DEF Ordered
<1>2. PICK id : id = Head(q).id
  OBVIOUS
<1>3. /\ id \in Nat /\ k < id /\ id <= n
      /\ QueueIncreases(Tail(q)) /\ QueueFits(Tail(q), id, n)
  BY <1>1, <1>2, QueueTail DEF Ordered, Between
<1>4. Increasing(r) /\ RunsIncrease(w) /\ h <= id /\ RanUpTo(r, h) /\ h <= k
  BY <1>1, <1>3 DEF Between, Ordered
<1>5. \A i \in 1..Len(w) : w[i].id \in Nat
  <2> TAKE i \in 1..Len(w)
  <2>1. w[i] \in AgentPacket
    BY ElementOfSeq
  <2> QED
    BY <2>1 DEF AgentPacket
<1>6. \A i \in 1..Len(w) : IsRun(w[i]) => h < w[i].id /\ w[i].id <= k
  BY <1>1 DEF Between, LineFits
<1>7. LineFits(w, h, id)
  BY <1>3, <1>5, <1>6 DEF LineFits
<1>8. Ordered(r, w, Tail(q), n)
  BY <1>3, <1>4, <1>7 DEF Ordered, Between
<1>9. PICK new : new = ScriptPackets(id)
  OBVIOUS
<1>10. PICK u : u = w \o new
  OBVIOUS
<1>11. /\ Len(u) = Len(w) + 2 /\ Len(w) \in Nat
       /\ \A i \in 1..Len(w) : u[i] = w[i]
       /\ u[Len(w) + 1] = Packet("SetScriptFileName", id)
       /\ u[Len(w) + 2] = Packet("RunScript", id)
  <2>1. /\ new \in Seq(AgentPacket) /\ new # <<>> /\ Len(new) = 2
        /\ new[1] = Packet("SetScriptFileName", id) /\ new[2] = Packet("RunScript", id)
    BY <1>3, <1>9, TwoPackets
  <2>2. /\ Len(u) = Len(w) + Len(new) /\ Len(w) \in Nat
        /\ \A i \in 1..Len(w) : u[i] = w[i]
        /\ \A i \in 1..Len(new) : u[Len(w) + i] = new[i]
    BY <1>10, <2>1, ConcatLine
  <2>3. 1 \in 1..Len(new) /\ 2 \in 1..Len(new)
    BY <2>1
  <2> QED
    BY <2>1, <2>2, <2>3
<1>12. ASSUME NEW i \in 1..Len(u), IsRun(u[i])
       PROVE  \/ i \in 1..Len(w) /\ u[i] = w[i]
              \/ i = Len(w) + 2 /\ u[i].id = id
  <2>1. i # Len(w) + 1
    BY <1>11, <1>12 DEF IsRun, Packet
  <2> QED
    BY <1>11, <2>1 DEF Packet
<1>13. LineFits(u, h, id)
  <2> SUFFICES ASSUME NEW i \in 1..Len(u), IsRun(u[i])
               PROVE  h < u[i].id /\ u[i].id <= id
    BY DEF LineFits
  <2>1. CASE i \in 1..Len(w) /\ u[i] = w[i]
    BY <1>7, <2>1 DEF LineFits
  <2>2. CASE u[i].id = id
    BY <1>3, <1>4, <2>2
  <2> QED
    BY <1>12, <2>1, <2>2
<1>14. RunsIncrease(u)
  <2> SUFFICES ASSUME NEW i \in 1..Len(u), NEW j \in 1..Len(u), i < j,
                      IsRun(u[i]), IsRun(u[j])
               PROVE  u[i].id < u[j].id
    BY DEF RunsIncrease
  <2>1. i \in 1..Len(w) /\ u[i] = w[i]
    BY <1>11, <1>12
  <2>2. CASE j \in 1..Len(w) /\ u[j] = w[j]
    BY <1>4, <2>1, <2>2 DEF RunsIncrease
  <2>3. CASE u[j].id = id
    BY <1>3, <1>5, <1>6, <2>1, <2>3
  <2> QED
    BY <1>12, <2>2, <2>3
<1>15. Ordered(r, u, Tail(q), n)
  BY <1>3, <1>4, <1>13, <1>14 DEF Ordered, Between
<1> QED
  BY <1>2, <1>8, <1>9, <1>10, <1>15

LEMMA OrderedAck ==
    ASSUME NEW r \in Seq(Nat), NEW w \in Seq(AgentPacket), NEW q \in Seq(ScriptRec),
           NEW n \in Nat, Ordered(r, w, q, n)
    PROVE  Ordered(r, w \o <<Packet("CloseAck", 0)>>, q, n)
<1>1. PICK h \in Nat, k \in Nat : Between(r, w, q, h, k, n)
  BY DEF Ordered
<1>2. PICK u : u = w \o <<Packet("CloseAck", 0)>>
  OBVIOUS
<1>3. /\ Len(u) = Len(w) + 1 /\ Len(w) \in Nat
      /\ \A i \in 1..Len(w) : u[i] = w[i]
      /\ u[Len(w) + 1] = Packet("CloseAck", 0)
  BY <1>2, OneAck, ConcatLine
<1>4. ASSUME NEW i \in 1..Len(u), IsRun(u[i])
      PROVE  i \in 1..Len(w) /\ u[i] = w[i]
  <2>1. i # Len(w) + 1
    BY <1>3, <1>4 DEF IsRun, Packet
  <2> QED
    BY <1>3, <2>1
<1>5. LineFits(u, h, k)
  BY <1>1, <1>4 DEF LineFits, Between
<1>6. RunsIncrease(u)
  BY <1>4 DEF RunsIncrease, Ordered
<1> QED
  BY <1>1, <1>2, <1>5, <1>6 DEF Ordered, Between

LEMMA OrderedDrop ==
    ASSUME NEW r \in Seq(Nat), NEW w \in Seq(AgentPacket), NEW q \in Seq(ScriptRec),
           NEW n \in Nat, Ordered(r, w, q, n)
    PROVE  Ordered(r, <<>>, q, n)
BY DEF Ordered, Between, LineFits, RunsIncrease

\* The head of the line is taken, and run if it is a script.
LEMMA OrderedTake ==
    ASSUME NEW r \in Seq(Nat), NEW w \in Seq(AgentPacket), w # <<>>,
           NEW q \in Seq(ScriptRec), NEW n \in Nat, Ordered(r, w, q, n)
    PROVE  /\ Ordered(r, Tail(w), q, n)
           /\ IsRun(Head(w)) => Ordered(Append(r, Head(w).id), Tail(w), q, n)
<1>1. PICK h \in Nat, k \in Nat : Between(r, w, q, h, k, n)
  BY DEF Ordered
<1>2. /\ Tail(w) \in Seq(AgentPacket) /\ Len(Tail(w)) = Len(w) - 1 /\ Len(w) \in Nat
      /\ \A i \in 1..Len(Tail(w)) : Tail(w)[i] = w[i + 1]
      /\ Head(w) = w[1] /\ Head(w) \in AgentPacket
  BY HeadTailProperties, LenProperties
<1>3. 1 \in 1..Len(w) /\ \A i \in 1..Len(Tail(w)) : i + 1 \in 1..Len(w) /\ 1 < i + 1
  BY <1>2, EmptySeq
<1>4. RunsIncrease(Tail(w))
  <2> SUFFICES ASSUME NEW i \in 1..Len(Tail(w)), NEW j \in 1..Len(Tail(w)), i < j,
                      IsRun(Tail(w)[i]), IsRun(Tail(w)[j])
               PROVE  Tail(w)[i].id < Tail(w)[j].id
    BY DEF RunsIncrease
  <2>1. i + 1 < j + 1
    BY <1>2
  <2> QED
    BY <1>2, <1>3, <2>1 DEF RunsIncrease, Ordered
<1>5. LineFits(Tail(w), h, k)
  BY <1>1, <1>2, <1>3 DEF LineFits, Between
<1>6. Ordered(r, Tail(w), q, n)
  BY <1>1, <1>4, <1>5 DEF Ordered, Between
<1>7. ASSUME IsRun(Head(w))
      PROVE  Ordered(Append(r, Head(w).id), Tail(w), q, n)
  <2>1. PICK id \in Nat : id = Head(w).id
    BY <1>2 DEF AgentPacket
  <2>2. h < id /\ id <= k
    BY <1>1, <1>2, <1>3, <1>7, <2>1 DEF Between, LineFits
  <2>3. LineFits(Tail(w), id, k)
    <3> SUFFICES ASSUME NEW i \in 1..Len(Tail(w)), IsRun(Tail(w)[i])
                 PROVE  id < Tail(w)[i].id
      BY <1>5 DEF LineFits
    <3> QED
      BY <1>2, <1>3, <1>7, <2>1 DEF RunsIncrease, Ordered
  <2>4. PICK s : s = Append(r, id)
    OBVIOUS
  <2>5. /\ Len(s) = Len(r) + 1 /\ Len(r) \in Nat /\ s[Len(r) + 1] = id
        /\ \A i \in 1..Len(r) : s[i] = r[i] /\ r[i] \in Nat /\ r[i] <= h
    BY <1>1, <2>1, <2>4, AppendProperties, LenProperties, ElementOfSeq
       DEF Between, RanUpTo
  <2>6. RanUpTo(s, id)
    <3> SUFFICES ASSUME NEW i \in 1..Len(s) PROVE s[i] <= id
      BY DEF RanUpTo
    <3>1. CASE i \in 1..Len(r)
      <4>1. s[i] \in Nat /\ s[i] <= h
        BY <2>5, <3>1
      <4> QED
        BY <2>2, <4>1
    <3>2. CASE i \notin 1..Len(r)
      <4>1. i = Len(r) + 1
        BY <2>5, <3>2
      <4> QED
        BY <2>5, <4>1
    <3> QED
      BY <3>1, <3>2
  <2>7. Increasing(s)
    <3> SUFFICES ASSUME NEW i \in 1..Len(s), NEW j \in 1..Len(s), i < j
                 PROVE  s[i] < s[j]
      BY DEF Increasing
    <3>0. PICK m \in Nat : m = Len(r) /\ Len(s) = m + 1
      BY <2>5
    <3>1. i \in 1..Len(r) /\ (j \in 1..Len(r) \/ j = Len(r) + 1)
      <4>1. i \in 1..m + 1 /\ j \in 1..m + 1 /\ i < j
        BY <3>0
      <4>2. i \in 1..m /\ (j \in 1..m \/ j = m + 1)
        BY <4>1
      <4> QED
        BY <3>0, <4>2
    <3>2. s[i] = r[i] /\ s[i] \in Nat /\ s[i] <= h
      BY <2>5, <3>1
    <3>3. CASE j \in 1..Len(r)
      <4>1. s[j] = r[j]
        BY <2>5, <3>3
      <4> QED
        BY <3>1, <3>2, <3>3, <4>1 DEF Increasing, Ordered
    <3>4. CASE j = Len(r) + 1
      <4>1. s[j] = id
        BY <2>5, <3>4
      <4> QED
        BY <2>2, <3>2, <4>1
    <3> QED
      BY <3>1, <3>3, <3>4
  <2>8. Between(s, Tail(w), q, id, k, n)
    BY <1>1, <2>2, <2>3, <2>6 DEF Between
  <2> QED
    BY <1>4, <2>1, <2>4, <2>7, <2>8 DEF Ordered
<1> QED
  BY <1>6, <1>7

LEMMA OrderStep == TypeOK /\ DeadInv /\ OrderInv /\ [Next]_vars => OrderInv'
<1> SUFFICES ASSUME TypeOK, DeadInv, OrderInv, [Next]_vars PROVE OrderInv'
  OBVIOUS
<1>0. /\ Line \in Seq(AgentPacket) /\ Lane \in Seq(AgentPacket)
      /\ toRunList \in Seq(ScriptRec) /\ nextId \in Nat /\ ran \in Seq(Nat)
  BY LineType DEF TypeOK, MonkeyTypeOK, AgentTypeOK
<1>a. /\ app = "alive" => Lane = Line
      /\ app # "alive" => Lane = <<>>
      /\ app' = "alive" => Lane' = Line'
      /\ app' # "alive" => Lane' = <<>>
  BY DEF Lane
<1>b. ASSUME NEW q \in Seq(ScriptRec), Queues(q)
      PROVE  Ordered(ran, Lane, q, nextId') /\ nextId' \in Nat
  <2>1. CASE q = toRunList /\ nextId' = nextId
    BY <1>0, <2>1 DEF OrderInv
  <2>2. CASE \E n \in 1..2 :
               /\ nextId' = nextId + n
               /\ q = toRunList \o [i \in 1..n |-> [id |-> nextId + i, after |-> FALSE]]
    <3>1. PICK n \in 1..2 :
            /\ nextId' = nextId + n
            /\ q = toRunList \o [i \in 1..n |-> [id |-> nextId + i, after |-> FALSE]]
      BY <2>2
    <3>2. Ordered(ran, Lane, toRunList, nextId)
      BY DEF OrderInv
    <3>3. Ordered(ran, Lane,
            toRunList \o [i \in 1..n |-> [id |-> nextId + i, after |-> FALSE]], nextId + n)
      BY <1>0, <3>2, OrderedQueue
    <3> QED
      BY <1>0, <3>1, <3>3
  <2> QED
    BY <1>b, <2>1, <2>2 DEF Queues
<1>c. ASSUME Lane' \in {Lane, <<>>}, QueueStill, ran' = ran
      PROVE  OrderInv'
  <2>1. Ordered(ran, Lane', toRunList, nextId)
    BY <1>0, <1>c, OrderedDrop DEF OrderInv
  <2> QED
    BY <1>c, <2>1 DEF OrderInv, QueueStill, queueVars
<1>1. CASE SendsOne
  <2>1. PICK q \in Seq(ScriptRec) : Queues(q) /\ Sent(q)
    BY <1>1 DEF SendsOne
  <2>2. Ordered(ran, Lane, q, nextId') /\ nextId' \in Nat /\ q # <<>>
    BY <1>b, <2>1 DEF Sent
  <2>3. /\ Ordered(ran, Lane, Tail(q), nextId')
        /\ Ordered(ran, Lane \o ScriptPackets(Head(q).id), Tail(q), nextId')
    BY <1>0, <2>2, OrderedSend
  <2>4. /\ ran' = ran /\ app' = app /\ toRunList' = Tail(q)
        /\ Line' = Line \o ScriptPackets(Head(q).id)
    BY <1>1, <2>1 DEF SendsOne, Sent, AgentStill, agentVars
  <2>5. Lane' = Lane \o ScriptPackets(Head(q).id) \/ Lane' = Lane
    BY <1>a, <2>4
  <2> QED
    BY <2>3, <2>4, <2>5 DEF OrderInv
<1>2. CASE SendsNone
  <2>1. PICK q \in Seq(ScriptRec) : Queues(q) /\ toRunList' = q
    BY <1>2 DEF SendsNone
  <2>2. ran' = ran /\ Lane' = Lane
    BY <1>2, <1>a DEF SendsNone, AgentStill, agentVars
  <2>3. Ordered(ran, Lane, q, nextId')
    BY <1>b, <2>1
  <2> QED
    BY <2>1, <2>2, <2>3 DEF OrderInv
<1>3. CASE Acks
  <2>1. /\ ran' = ran /\ app' = app /\ QueueStill
        /\ Line' = Line \o <<Packet("CloseAck", 0)>>
    BY <1>3 DEF Acks, AgentStill, agentVars
  <2>2. CASE app = "alive"
    <3>1. Ordered(ran, Lane', toRunList, nextId)
      BY <1>0, <1>a, <2>1, <2>2, OrderedAck DEF OrderInv
    <3> QED
      BY <2>1, <3>1 DEF OrderInv, QueueStill, queueVars
  <2>3. CASE app # "alive"
    BY <1>a, <1>c, <2>1, <2>3
  <2> QED
    BY <2>2, <2>3
<1>4. CASE Cuts
  BY <1>4, <1>a, <1>c DEF Cuts, AgentStill, agentVars
<1>5. CASE Takes
  <2>1. CASE app # "alive"
    BY <1>5, <2>1 DEF Takes, DeadInv
  <2>2. CASE app = "alive"
    <3>1. Lane = Line /\ Lane' = Tail(Line) /\ Line # <<>> /\ QueueStill
      BY <1>5, <1>a, <2>2 DEF Takes
    <3>2. /\ Ordered(ran, Tail(Line), toRunList, nextId)
          /\ IsRun(Head(Line)) =>
               Ordered(Append(ran, Head(Line).id), Tail(Line), toRunList, nextId)
      BY <1>0, <3>1, OrderedTake DEF OrderInv
    <3>3. \/ ran' = ran
          \/ IsRun(Head(Line)) /\ ran' = Append(ran, Head(Line).id)
      BY <1>5 DEF Takes
    <3> QED
      BY <3>1, <3>2, <3>3 DEF OrderInv, QueueStill, queueVars
  <2> QED
    BY <2>1, <2>2
<1>6. CASE Ends
  BY <1>6, <1>a, <1>c DEF Ends
<1>7. CASE Goes
  BY <1>7, <1>a, <1>c DEF Goes
<1>8. CASE Falls
  BY <1>8, <1>a, <1>c DEF Falls
<1>9. CASE Begins
  BY <1>9, <1>a, <1>c DEF Begins
<1> QED
  BY <1>1, <1>2, <1>3, <1>4, <1>5, <1>6, <1>7, <1>8, <1>9, LineKinds DEF LineStep

LEMMA OrderInit == Init => OrderInv
<1> SUFFICES ASSUME Init PROVE OrderInv
  OBVIOUS
<1>1. /\ recvBuf = <<>> /\ sockBuf = <<>> /\ toAgent = <<>> /\ ran = <<>>
      /\ toRunList = FileScripts /\ nextId = Len(FileScripts)
  BY DEF Init, WireInit, AgentInit, MonkeyInit
<1>2. Lane = <<>>
  BY <1>1, EmptyIsSeq, ConcatEmptySeq DEF Lane, Line
<1>3. PICK n \in Nat : FileScripts = [i \in 1..n |->
          [id |-> i, after |-> i > 1 /\ (PrefsCode => i % 2 = 1)]]
  <2>1. (IF PrefsCode THEN 2 * FileParts ELSE FileParts) \in Nat
    BY FilePartsAssumption
  <2> QED
    BY <2>1 DEF FileScripts
<1>4. FileScripts \in Seq(ScriptRec) /\ Len(FileScripts) = n
  BY <1>3, FileScriptsType, LenProperties
<1>5. QueueIncreases(FileScripts) /\ QueueFits(FileScripts, 0, n)
  BY <1>3, <1>4 DEF QueueIncreases, QueueFits
<1>6. Between(<<>>, <<>>, FileScripts, 0, 0, n)
  BY <1>5 DEF Between, RanUpTo, LineFits
<1> QED
  BY <1>1, <1>2, <1>4, <1>5, <1>6 DEF OrderInv, Ordered, Increasing, RunsIncrease

\* A script runs at most once, and scripts run in the order in which they were
\* queued, through restarts, errors and lost connections (toRunList_, the
\* packets of a script, readCommands).
THEOREM RunInOrder == Spec => []RunsInOrder
<1>1. OrderInv => RunsInOrder
  BY DEF OrderInv, Ordered, Increasing, RunsInOrder
<1> QED
  BY <1>1, TypeInit, TypeStep, PipeInit, DeadStep, OrderInit, OrderStep, PTL DEF Spec

-----------------------------------------------------------------------------
(* Counting packets                                                         *)

LEMMA NumberType ==
    ASSUME NEW S, NEW s \in Seq(S), NEW type
    PROVE  /\ IsFiniteSet({i \in 1..Len(s) : s[i].type = type})
           /\ NumberOf(type, s) \in Nat
           /\ NumberOf(type, s) = 0 <=> \A i \in 1..Len(s) : s[i].type # type
<1>1. PICK A : A = {i \in 1..Len(s) : s[i].type = type}
  OBVIOUS
<1>2. Len(s) \in Nat /\ A \in SUBSET (1..Len(s))
  BY <1>1, LenProperties
<1>3. IsFiniteSet(1..Len(s))
  BY <1>2, FS_Interval
<1>4. IsFiniteSet(A)
  BY <1>2, <1>3, FS_Subset
<1>5. Cardinality(A) \in Nat /\ (Cardinality(A) = 0 <=> A = {})
  BY <1>4, FS_CardinalityType, FS_EmptySet
<1> QED
  BY <1>1, <1>4, <1>5 DEF NumberOf

LEMMA NumberConcat ==
    ASSUME NEW S, NEW s \in Seq(S), NEW t \in Seq(S), NEW type
    PROVE  NumberOf(type, s \o t) = NumberOf(type, s) + NumberOf(type, t)
<1>1. PICK m \in Nat, n \in Nat : m = Len(s) /\ n = Len(t)
  BY LenProperties
<1>2. PICK u : u = s \o t
  OBVIOUS
<1>3. /\ Len(u) = m + n
      /\ \A i \in 1..m + n : u[i] = IF i <= m THEN s[i] ELSE t[i - m]
  BY <1>1, <1>2, ConcatProperties
<1>4. PICK A, B, C : /\ A = {i \in 1..m : s[i].type = type}
                     /\ B = {i \in 1..n : t[i].type = type}
                     /\ C = {i \in m + 1..m + n : t[i - m].type = type}
  OBVIOUS
<1>5. IsFiniteSet(A) /\ IsFiniteSet(B)
  BY <1>1, <1>4, NumberType
<1>6. ExistsBijection(B, C)
  <2>1. PICK f : f = [i \in B |-> m + i]
    OBVIOUS
  <2>2. f \in [B -> C]
    <3>1. ASSUME NEW i \in B PROVE m + i \in C
      <4>1. i \in 1..n /\ t[i].type = type
        BY <1>4
      <4>2. m + i \in m + 1..m + n /\ m + i - m = i
        BY <4>1
      <4> QED
        BY <1>4, <4>1, <4>2
    <3> QED
      BY <2>1, <3>1
  <2>3. \A a, b \in B : f[a] = f[b] => a = b
    BY <1>4, <2>1
  <2>4. \A c \in C : \E b \in B : f[b] = c
    <3> TAKE c \in C
    <3>1. c \in m + 1..m + n /\ t[c - m].type = type
      BY <1>4
    <3>2. c - m \in 1..n /\ m + (c - m) = c
      BY <3>1
    <3>3. c - m \in B
      BY <1>4, <3>1, <3>2
    <3> QED
      BY <2>1, <3>2, <3>3
  <2>5. f \in Bijection(B, C)
    BY <2>2, <2>3, <2>4 DEF Bijection, Injection, Surjection, IsInjective
  <2> QED
    BY <2>5 DEF ExistsBijection
<1>7. IsFiniteSet(C) /\ Cardinality(C) = Cardinality(B)
  BY <1>5, <1>6, FS_Bijection
<1>8. A \cap C = {}
  BY <1>4
<1>9. PICK D : D = {i \in 1..m + n : u[i].type = type}
  OBVIOUS
<1>10. D = A \cup C
  <2>1. ASSUME NEW i \in 1..m + n
        PROVE  i \in D <=> i \in A \cup C
    <3>1. CASE i <= m
      <4>1. i \in 1..m /\ u[i] = s[i] /\ i \notin m + 1..m + n
        BY <1>3, <3>1
      <4> QED
        BY <1>4, <1>9, <4>1
    <3>2. CASE ~(i <= m)
      <4>1. i \notin 1..m /\ u[i] = t[i - m] /\ i \in m + 1..m + n
        BY <1>3, <3>2
      <4> QED
        BY <1>4, <1>9, <4>1
    <3> QED
      BY <3>1, <3>2
  <2>2. D \subseteq 1..m + n /\ A \cup C \subseteq 1..m + n
    BY <1>4, <1>9
  <2> QED
    BY <2>1, <2>2
<1>11. Cardinality(A \cup C) = Cardinality(A) + Cardinality(C) - Cardinality({})
  BY <1>5, <1>7, <1>8, FS_Union
<1>12. Cardinality(A) \in Nat /\ Cardinality(C) \in Nat /\ Cardinality({}) = 0
  BY <1>5, <1>7, FS_CardinalityType, FS_EmptySet
<1>13. Cardinality(D) = Cardinality(A) + Cardinality(B)
  BY <1>7, <1>10, <1>11, <1>12
<1> QED
  BY <1>1, <1>2, <1>3, <1>4, <1>9, <1>13 DEF NumberOf

OneIf(c) == IF c THEN 1 ELSE 0

LEMMA NumberOne == \A type, x : NumberOf(type, <<x>>) = OneIf(x.type = type)
<1> TAKE type, x
<1>1. CASE x.type = type
  <2>1. {i \in 1..Len(<<x>>) : <<x>>[i].type = type} = {1}
    BY <1>1
  <2> QED
    BY <1>1, <2>1, FS_Singleton DEF NumberOf, OneIf
<1>2. CASE x.type # type
  <2>1. {i \in 1..Len(<<x>>) : <<x>>[i].type = type} = {}
    BY <1>2
  <2> QED
    BY <1>2, <2>1, FS_EmptySet DEF NumberOf, OneIf
<1> QED
  BY <1>1, <1>2

LEMMA NumberEmpty == \A type : NumberOf(type, <<>>) = 0
<1> TAKE type
<1>1. {i \in 1..Len(<<>>) : <<>>[i].type = type} = {}
  OBVIOUS
<1> QED
  BY <1>1, FS_EmptySet DEF NumberOf

LEMMA NumberAppend ==
    ASSUME NEW S, NEW s \in Seq(S), NEW x \in S, NEW type
    PROVE  NumberOf(type, Append(s, x)) = NumberOf(type, s) + OneIf(x.type = type)
<1>1. Append(s, x) = s \o <<x>> /\ <<x>> \in Seq(S)
  BY AppendIsConcat
<1>2. NumberOf(type, s \o <<x>>) = NumberOf(type, s) + NumberOf(type, <<x>>)
  BY <1>1, NumberConcat
<1> QED
  BY <1>1, <1>2, NumberOne

LEMMA NumberTail ==
    ASSUME NEW S, NEW s \in Seq(S), s # <<>>, NEW type
    PROVE  NumberOf(type, s) = NumberOf(type, Tail(s)) + OneIf(Head(s).type = type)
<1>1. Head(s) \in S /\ Tail(s) \in Seq(S) /\ <<>> \in Seq(S)
  BY HeadTailProperties, EmptySeq
<1>2. Append(<<>>, Head(s)) \o Tail(s) = <<>> \o s
  BY <1>1, MoveHead
<1>3. PICK one : one = <<Head(s)>>
  OBVIOUS
<1>4. one \in Seq(S) /\ NumberOf(type, one) = OneIf(Head(s).type = type)
  BY <1>1, <1>3, NumberOne
<1>5. one \o Tail(s) = s
  <2>1. one = Append(<<>>, Head(s))
    BY <1>3
  <2> QED
    BY <1>2, <2>1, ConcatEmptySeq
<1>6. NumberOf(type, one \o Tail(s)) = NumberOf(type, one) + NumberOf(type, Tail(s))
  BY <1>1, <1>4, NumberConcat
<1>7. NumberOf(type, Tail(s)) \in Nat /\ OneIf(Head(s).type = type) \in Nat
  BY <1>1, NumberType DEF OneIf
<1>8. NumberOf(type, s) = OneIf(Head(s).type = type) + NumberOf(type, Tail(s))
  BY <1>4, <1>5, <1>6
<1> QED
  BY <1>7, <1>8

LEMMA NumberOfTwo ==
    ASSUME NEW id \in Nat
    PROVE  NumberOf("RunScript", ScriptPackets(id)) = 1
<1>1. ScriptPackets(id)[1].type = "SetScriptFileName"
      /\ ScriptPackets(id)[2].type = "RunScript" /\ Len(ScriptPackets(id)) = 2
  BY DEF ScriptPackets, Packet
<1>2. {i \in 1..Len(ScriptPackets(id)) : ScriptPackets(id)[i].type = "RunScript"} = {2}
  BY <1>1
<1> QED
  BY <1>2, FS_Singleton DEF NumberOf

-----------------------------------------------------------------------------
(* The reports on their way, and what a step does to them.                  *)

Pipe == toMonkey \o sendBuf

LEMMA PipeType ==
    ASSUME TypeOK
    PROVE  /\ toMonkey \in Seq(MonkeyPacket) /\ sendBuf \in Seq(MonkeyPacket)
           /\ Pipe \in Seq(MonkeyPacket) /\ handled \in Seq(MonkeyPacket)
BY ConcatProperties DEF TypeOK, WireTypeOK, MonkeyTypeOK, AgentTypeOK, Pipe

LEMMA PipeGrows ==
    ASSUME TypeOK, NEW type \in PacketTypeForMonkey, NEW id \in Nat,
           SendCommand(type, id), toMonkey' = toMonkey
    PROVE  Pipe' = Append(Pipe, Packet(type, id))
<1>1. PICK p : p = Packet(type, id)
  OBVIOUS
<1>2. p \in MonkeyPacket /\ <<p>> \in Seq(MonkeyPacket)
  BY <1>1 DEF Packet, MonkeyPacket
<1>3. sendBuf' = sendBuf \o <<p>>
  BY <1>1, <1>2, PipeType, AppendIsConcat DEF SendCommand
<1>4. (toMonkey \o sendBuf) \o <<p>> = toMonkey \o (sendBuf \o <<p>>)
  BY <1>2, PipeType, ConcatAssociative
<1>5. Append(Pipe, p) = Pipe \o <<p>>
  BY <1>2, PipeType, AppendIsConcat
<1> QED
  BY <1>1, <1>3, <1>4, <1>5 DEF Pipe

LEMMA PipeShrinks ==
    ASSUME TypeOK, NEW ts, Extract(ts), sendBuf' = sendBuf
    PROVE  /\ Pipe # <<>> /\ Pipe' = Tail(Pipe)
           /\ Head(Pipe).type \in ts
           /\ handled' = Append(handled, Head(Pipe))
<1>1. toMonkey # <<>> /\ toMonkey' = Tail(toMonkey)
  BY DEF Extract
<1>2. /\ toMonkey \o sendBuf # <<>>
      /\ Head(toMonkey \o sendBuf) = Head(toMonkey)
      /\ Tail(toMonkey) \o sendBuf = Tail(toMonkey \o sendBuf)
  BY <1>1, PipeType, TailOfConcat
<1> QED
  BY <1>1, <1>2 DEF Pipe, Extract

SaysEnd   == Ends /\ Pipe' = Append(Pipe, Packet("ScriptEnd", current))
SaysError == /\ Goes /\ Pipe' = Append(Pipe, Packet("ScriptError", current))
             /\ pc \in Busy
SaysOther == /\ Goes
             /\ \E type \in PacketTypeForMonkey \ {"ScriptEnd", "ScriptError"}, id \in Nat :
                   Pipe' = Append(Pipe, Packet(type, id))
SaysNothing == (Goes \/ Takes) /\ Pipe' = Pipe
SaysNoMore  == Falls /\ Pipe' = toMonkey

LEMMA AgentSays ==
    ASSUME TypeOK, DeadInv, AgentStep \/ Connect \/ MonkeyGone, UNCHANGED monkeyVars
    PROVE  SaysEnd \/ SaysError \/ SaysOther \/ SaysNothing \/ SaysNoMore
<1>0. QueueStill /\ current \in Nat /\ app = "alive" /\ 0 \in Nat
  BY AgentAlive DEF monkeyVars, QueueStill, TypeOK, AgentTypeOK
<1>1. CASE SendScriptEnd
  <2>1. /\ UNCHANGED <<app, toAgent, sockBuf, recvBuf, ran, toMonkey>>
        /\ pc = "ended" /\ pc' = "read" /\ curFile' = 0
        /\ SendCommand("ScriptEnd", current)
    BY <1>1 DEF SendScriptEnd, wireVars
  <2>2. Pipe' = Append(Pipe, Packet("ScriptEnd", current))
    BY <1>0, <2>1, PipeGrows DEF PacketTypeForMonkey
  <2> QED
    BY <1>0, <2>1, <2>2 DEF SaysEnd, Ends, Line
<1>2. CASE SendScriptError
  <2>1. /\ UNCHANGED <<app, toAgent, sockBuf, recvBuf, ran, toMonkey, curFile, current>>
        /\ pc = "failed" /\ pc' = "ended"
        /\ SendCommand("ScriptError", current)
    BY <1>2 DEF SendScriptError, wireVars, bufferVars
  <2>2. Pipe' = Append(Pipe, Packet("ScriptError", current))
    BY <1>0, <2>1, PipeGrows DEF PacketTypeForMonkey
  <2> QED
    BY <1>0, <2>1, <2>2 DEF SaysError, Goes, Line, Busy
<1>3. CASE ScriptLog \/ UserEvent \/ AppAboutToQuit
  <2>1. UNCHANGED <<app, toAgent, sockBuf, recvBuf, ran, toMonkey, curFile, current, pc>>
    BY <1>3 DEF ScriptLog, UserEvent, AppAboutToQuit, wireVars, bufferVars, threadVars
  <2>2. PICK type \in PacketTypeForMonkey \ {"ScriptEnd", "ScriptError"}, id \in Nat :
            SendCommand(type, id)
    BY <1>0, <1>3 DEF ScriptLog, UserEvent, AppAboutToQuit, PacketTypeForMonkey
  <2>3. Pipe' = Append(Pipe, Packet(type, id))
    BY <2>1, <2>2, PipeGrows
  <2> QED
    BY <1>0, <2>1, <2>3 DEF SaysOther, Goes, Line
<1>4. CASE Connect \/ SendData
  <2>1. /\ UNCHANGED <<app, toAgent, sockBuf, recvBuf, ran, curFile, current, pc>>
        /\ sendBuf' = <<>>
    BY <1>4 DEF Connect, ConnectToMonkey, SendData, bufferVars, threadVars
  <2>2. toMonkey' = toMonkey \o sendBuf
    <3>1. CASE SendData
      BY <3>1 DEF SendData
    <3>2. CASE Connect
      <4>1. toMonkey = <<>> /\ toMonkey' = sendBuf
        BY <3>2 DEF Connect, ConnectToMonkey, DeadInv
      <4> QED
        BY <4>1, PipeType, ConcatEmptySeq
    <3> QED
      BY <1>4, <3>1, <3>2
  <2>3. Pipe' = Pipe
    BY <2>1, <2>2, PipeType, ConcatEmptySeq DEF Pipe
  <2> QED
    BY <1>0, <2>1, <2>3 DEF SaysNothing, Goes, Line
<1>5. CASE \/ ReadyRead \/ NestedReadyRead \/ SetScriptFileName \/ RunScript \/ CloseAck
           \/ ReadDone \/ ThreadExit \/ CallGui \/ ScriptOk \/ ScriptThrows \/ ServeAgent
           \/ HasCloseAck \/ QuitThread
  <2>1. UNCHANGED <<app, toMonkey, sendBuf>>
    BY <1>5 DEF ReadyRead, NestedReadyRead, SetScriptFileName, RunScript, CloseAck,
         ReadDone, ThreadExit, CallGui, ScriptOk, ScriptThrows, ServeAgent, HasCloseAck,
         QuitThread, wireVars, sendVars
  <2>2. ~(pc = "ended" /\ pc' = "read")
    BY <1>5 DEF ReadyRead, NestedReadyRead, SetScriptFileName, RunScript, CloseAck,
         ReadDone, ThreadExit, CallGui, ScriptOk, ScriptThrows, ServeAgent, HasCloseAck,
         QuitThread, threadVars
  <2>3. Takes \/ Goes
    BY <1>0, <2>1, <2>2, AgentLine DEF Ends, Falls
  <2> QED
    BY <2>1, <2>3 DEF SaysNothing, Pipe
<1>6. CASE MonkeyGone \/ AppExits \/ AppDies
  <2>1. ProcessGone /\ app' # "alive"
    BY <1>6 DEF MonkeyGone, CommunicationError, AppExits, AppDies
  <2>2. toMonkey' = toMonkey /\ sendBuf' = <<>>
    BY <2>1 DEF ProcessGone
  <2>3. Pipe' = toMonkey
    BY <2>2, PipeType, ConcatEmptySeq DEF Pipe
  <2> QED
    BY <1>0, <2>1, <2>3 DEF ProcessGone, Falls, SaysNoMore
<1> QED
  BY <1>1, <1>2, <1>3, <1>4, <1>5, <1>6 DEF AgentStep, AgentThreadStep, GuiThreadStep

-----------------------------------------------------------------------------
(* One script at a time: each script on its way to the agent, in the agent, *)
(* or whose end is on its way back, is paid for by scriptRunning_ or by an  *)
(* error that was handled.                                                  *)

OnWay == NumberOf("RunScript", Line) + OneIf(pc \in Busy) + NumberOf("ScriptEnd", Pipe)

FlowInv == OnWay <= NumberOf("ScriptError", handled) + OneIf(scriptRunning)

LEMMA FlowType ==
    ASSUME TypeOK
    PROVE  /\ NumberOf("RunScript", Line) \in Nat
           /\ NumberOf("ScriptEnd", Pipe) \in Nat
           /\ NumberOf("ScriptError", handled) \in Nat
BY LineType, PipeType, NumberType

LEMMA ReadyFlow ==
    ASSUME TypeOK, UNCHANGED <<recvBuf, sockBuf>>,
           NEW connected \in BOOLEAN, NEW running \in BOOLEAN,
           NEW q \in Seq(ScriptRec), AgentReadyToRunScript(connected, running, q)
    PROVE  NumberOf("RunScript", Line') + OneIf(running)
             = NumberOf("RunScript", Line) + OneIf(scriptRunning')
<1>1. CASE CanSend(connected, running, q) /\ SendScript(q)
  <2>1. Head(q) \in ScriptRec /\ ~running
    BY <1>1 DEF CanSend
  <2>2. PICK id \in Nat : id = Head(q).id
    BY <2>1 DEF ScriptRec
  <2>3. ScriptPackets(id) \in Seq(AgentPacket)
    BY TwoPackets
  <2>4. Line' = Line \o ScriptPackets(id)
    BY <1>1, <2>2, <2>3, LineGrows DEF SendScript
  <2>5. NumberOf("RunScript", Line')
          = NumberOf("RunScript", Line) + NumberOf("RunScript", ScriptPackets(id))
    BY <2>3, <2>4, LineType, NumberConcat
  <2> QED
    BY <1>1, <2>1, <2>5, NumberOfTwo, FlowType DEF OneIf, SendScript
<1>2. CASE toAgent' = toAgent /\ scriptRunning' = running
  <2>1. Line' = Line
    BY <1>2 DEF Line
  <2> QED
    BY <1>2, <2>1
<1> QED
  BY <1>1, <1>2 DEF AgentReadyToRunScript

\* Nothing of the agent is left when its process is gone and the connection
\* with it.
LEMMA AllGone ==
    ASSUME TypeOK, DeadInv, app # "alive", link = "none"
    PROVE  Line = <<>> /\ Pipe = <<>> /\ pc \notin Busy
<1>1. /\ toAgent = <<>> /\ recvBuf = <<>> /\ sockBuf = <<>> /\ toMonkey = <<>>
      /\ sendBuf = <<>> /\ pc = "off"
  BY DEF DeadInv
<1> QED
  BY <1>1, EmptyIsSeq, ConcatEmptySeq DEF Line, Pipe, Busy

LEMMA MonkeyFlow ==
    ASSUME TypeOK, DeadInv, FlowInv, MonkeyStep, UNCHANGED agentVars
    PROVE  FlowInv'
<1>0. /\ toRunList \in Seq(ScriptRec) /\ scriptRunning \in BOOLEAN /\ TRUE \in BOOLEAN
      /\ FALSE \in BOOLEAN
      /\ IsConnected \in BOOLEAN /\ nextId \in Nat /\ Pipe \in Seq(MonkeyPacket)
      /\ handled \in Seq(MonkeyPacket) /\ Line \in Seq(AgentPacket)
  BY LineType, PipeType DEF TypeOK, MonkeyTypeOK, IsConnected
<1>1. /\ UNCHANGED <<recvBuf, sockBuf, sendBuf, pc>>
      /\ UNCHANGED OneIf(pc \in Busy)
  BY DEF agentVars, bufferVars, threadVars, sendVars, OneIf
<1>2. PICK R \in Nat, E \in Nat, H \in Nat, B \in {0, 1} :
          /\ R = NumberOf("RunScript", Line) /\ E = NumberOf("ScriptEnd", Pipe)
          /\ H = NumberOf("ScriptError", handled) /\ B = OneIf(pc \in Busy)
  BY FlowType DEF OneIf
<1>3. R + B + E <= H + OneIf(scriptRunning)
  BY <1>2 DEF FlowInv, OnWay
<1>4. FlowInv' <=> NumberOf("RunScript", Line') + B + NumberOf("ScriptEnd", Pipe')
                     <= NumberOf("ScriptError", handled') + OneIf(scriptRunning')
  BY <1>1, <1>2 DEF FlowInv, OnWay, NumberOf, OneIf
<1>5. scriptRunning' \in BOOLEAN /\ NumberOf("RunScript", Line') \in Nat
  <2>1. TypeOK'
    BY MonkeyStepType
  <2>2. Line' \in Seq(AgentPacket) /\ scriptRunning' \in BOOLEAN
    <3>1. /\ recvBuf' \in Seq(AgentPacket) /\ sockBuf' \in Seq(AgentPacket)
          /\ toAgent' \in Seq(AgentPacket) /\ scriptRunning' \in BOOLEAN
      BY <2>1 DEF TypeOK, WireTypeOK, AgentTypeOK, MonkeyTypeOK
    <3>2. recvBuf' \o sockBuf' \in Seq(AgentPacket)
      BY <3>1, ConcatProperties
    <3> QED
      BY <3>1, <3>2, ConcatProperties DEF Line
  <2> QED
    BY <2>2, NumberType
<1>6. CASE HandleNewConnection \/ StdinRunScript
  <2>1. /\ toMonkey' = toMonkey /\ handled' = handled
    BY <1>6 DEF HandleNewConnection, StdinRunScript
  <2>2. PICK connected \in BOOLEAN, q \in Seq(ScriptRec) :
            AgentReadyToRunScript(connected, scriptRunning, q)
    <3>1. CASE HandleNewConnection
      BY <1>0, <3>1 DEF HandleNewConnection
    <3>2. CASE StdinRunScript
      <4>1. PICK n \in 1..2 :
              AgentReadyToRunScript(IsConnected, scriptRunning,
                toRunList \o [i \in 1..n |-> [id |-> nextId + i, after |-> FALSE]])
        BY <3>2 DEF StdinRunScript
      <4>2. [i \in 1..n |-> [id |-> nextId + i, after |-> FALSE]] \in [1..n -> ScriptRec]
        BY <1>0 DEF ScriptRec
      <4>3. [i \in 1..n |-> [id |-> nextId + i, after |-> FALSE]] \in Seq(ScriptRec)
        BY <4>2, 1 \in Nat, 2 \in Nat, n \in Nat, SeqDef
      <4>4. toRunList \o [i \in 1..n |-> [id |-> nextId + i, after |-> FALSE]]
              \in Seq(ScriptRec)
        BY <1>0, <4>3, ConcatProperties
      <4> QED
        BY <1>0, <4>1, <4>4
    <3> QED
      BY <1>6, <3>1, <3>2
  <2>3. NumberOf("RunScript", Line') + OneIf(scriptRunning) = R + OneIf(scriptRunning')
    BY <1>0, <1>1, <1>2, <2>2, ReadyFlow
  <2>4. Pipe' = Pipe
    BY <1>1, <2>1 DEF Pipe
  <2> QED
    BY <1>0, <1>2, <1>3, <1>4, <1>5, <2>1, <2>3, <2>4 DEF OneIf
<1>7. CASE OnScriptEnd \/ OnScriptError
  <2>1. AgentReadyToRunScript(IsConnected, FALSE, toRunList)
    BY <1>7 DEF OnScriptEnd, OnScriptError, ScriptNotRunning
  <2>2. NumberOf("RunScript", Line') + OneIf(FALSE) = R + OneIf(scriptRunning')
    BY <1>0, <1>1, <1>2, <2>1, ReadyFlow
  <2>3. /\ Pipe # <<>> /\ Pipe' = Tail(Pipe) /\ handled' = Append(handled, Head(Pipe))
        /\ \/ OnScriptEnd /\ Head(Pipe).type = "ScriptEnd"
           \/ OnScriptError /\ Head(Pipe).type = "ScriptError"
    <3>1. CASE OnScriptEnd
      <4>1. Extract({"ScriptEnd"})
        BY <3>1 DEF OnScriptEnd
      <4> QED
        BY <1>1, <3>1, <4>1, PipeShrinks
    <3>2. CASE OnScriptError
      <4>1. Extract({"ScriptError"})
        BY <3>2 DEF OnScriptError
      <4> QED
        BY <1>1, <3>2, <4>1, PipeShrinks
    <3> QED
      BY <1>7, <3>1, <3>2
  <2>4. Head(Pipe) \in MonkeyPacket /\ Pipe' \in Seq(MonkeyPacket)
    BY <1>0, <2>3, HeadTailProperties
  <2>5. /\ E = NumberOf("ScriptEnd", Pipe') + OneIf(Head(Pipe).type = "ScriptEnd")
        /\ NumberOf("ScriptError", handled') = H + OneIf(Head(Pipe).type = "ScriptError")
        /\ NumberOf("ScriptEnd", Pipe') \in Nat
    <3>1. NumberOf("ScriptEnd", Pipe)
            = NumberOf("ScriptEnd", Pipe') + OneIf(Head(Pipe).type = "ScriptEnd")
      BY <1>0, <2>3, <2>4, NumberTail
    <3>2. NumberOf("ScriptError", handled')
            = NumberOf("ScriptError", handled) + OneIf(Head(Pipe).type = "ScriptError")
      BY <1>0, <2>3, <2>4, NumberAppend
    <3>3. NumberOf("ScriptEnd", Pipe') \in Nat
      BY <1>0, <2>3, <2>4, NumberType
    <3> QED
      BY <1>2, <3>1, <3>2, <3>3
  <2>6. PICK R1 \in Nat, E1 \in Nat, H1 \in Nat :
            /\ R1 = NumberOf("RunScript", Line')
            /\ E1 = NumberOf("ScriptEnd", Pipe')
            /\ H1 = NumberOf("ScriptError", handled')
    BY <1>2, <1>5, <2>5 DEF OneIf
  <2>7. R1 = R + OneIf(scriptRunning')
    BY <2>2, <2>6 DEF OneIf
  <2>8. CASE Head(Pipe).type = "ScriptEnd"
    <3>1. E = E1 + 1 /\ H1 = H
      BY <1>2, <2>5, <2>6, <2>8 DEF OneIf
    <3> QED
      BY <1>0, <1>2, <1>3, <1>4, <1>5, <2>6, <2>7, <3>1 DEF OneIf
  <2>9. CASE Head(Pipe).type = "ScriptError"
    <3>1. E = E1 /\ H1 = H + 1
      BY <1>2, <2>5, <2>6, <2>9 DEF OneIf
    <3> QED
      BY <1>0, <1>2, <1>3, <1>4, <1>5, <2>6, <2>7, <3>1 DEF OneIf
  <2> QED
    BY <2>3, <2>8, <2>9
<1>8. CASE PrintReport \/ AnswerClose
  <2>1. /\ Pipe # <<>> /\ Pipe' = Tail(Pipe) /\ handled' = Append(handled, Head(Pipe))
        /\ Head(Pipe).type \notin {"ScriptEnd", "ScriptError"}
        /\ scriptRunning' = scriptRunning
    <3>1. CASE PrintReport
      <4>1. Extract({"NewUserAppEvent", "ScriptLog"})
        BY <3>1 DEF PrintReport
      <4>2. Head(Pipe).type \in {"NewUserAppEvent", "ScriptLog"}
        BY <1>1, <4>1, PipeShrinks
      <4> QED
        BY <1>1, <3>1, <4>1, <4>2, PipeShrinks DEF PrintReport, runVars
    <3>2. CASE AnswerClose
      <4>1. Extract({"Close"})
        BY <3>2 DEF AnswerClose
      <4>2. Head(Pipe).type \in {"Close"}
        BY <1>1, <4>1, PipeShrinks
      <4> QED
        BY <1>1, <3>2, <4>1, <4>2, PipeShrinks DEF AnswerClose, runVars
    <3> QED
      BY <1>8, <3>1, <3>2
  <2>2. Head(Pipe) \in MonkeyPacket /\ Pipe' \in Seq(MonkeyPacket)
    BY <1>0, <2>1, HeadTailProperties
  <2>3. /\ E = NumberOf("ScriptEnd", Pipe') + OneIf(Head(Pipe).type = "ScriptEnd")
        /\ NumberOf("ScriptError", handled') = H + OneIf(Head(Pipe).type = "ScriptError")
        /\ NumberOf("ScriptEnd", Pipe') \in Nat
    <3>1. NumberOf("ScriptEnd", Pipe)
            = NumberOf("ScriptEnd", Pipe') + OneIf(Head(Pipe).type = "ScriptEnd")
      BY <1>0, <2>1, <2>2, NumberTail
    <3>2. NumberOf("ScriptError", handled')
            = NumberOf("ScriptError", handled) + OneIf(Head(Pipe).type = "ScriptError")
      BY <1>0, <2>1, <2>2, NumberAppend
    <3>3. NumberOf("ScriptEnd", Pipe') \in Nat
      BY <1>0, <2>1, <2>2, NumberType
    <3> QED
      BY <1>2, <3>1, <3>2, <3>3
  <2>4. NumberOf("RunScript", Line') = R
    <3>1. CASE PrintReport
      <4>1. Line' = Line
        BY <1>1, <3>1 DEF PrintReport, Line
      <4> QED
        BY <1>2, <4>1
    <3>2. CASE AnswerClose
      <4>1. Packet("CloseAck", 0) \in AgentPacket /\ toAgent \in Seq(AgentPacket)
        BY LineType DEF Packet, AgentPacket, PacketTypeForAgent
      <4>2. toAgent' = toAgent \o <<Packet("CloseAck", 0)>>
        BY <3>2, <4>1, AppendIsConcat DEF AnswerClose
      <4>3. Line' = Line \o <<Packet("CloseAck", 0)>>
        BY <1>1, <4>2, OneAck, LineGrows
      <4>4. NumberOf("RunScript", <<Packet("CloseAck", 0)>>) = 0
        BY NumberOne DEF OneIf, Packet
      <4>5. NumberOf("RunScript", Line')
              = NumberOf("RunScript", Line) + NumberOf("RunScript", <<Packet("CloseAck", 0)>>)
        BY <1>0, <4>3, OneAck, NumberConcat
      <4> QED
        BY <1>2, <4>4, <4>5
    <3> QED
      BY <1>8, <3>1, <3>2
  <2> QED
    BY <1>2, <1>3, <1>4, <2>1, <2>3, <2>4 DEF OneIf
<1>9. CASE FinishedLast
  <2>1. /\ AgentReadyToRunScript(IsConnected, FALSE, toRunList)
        /\ app # "alive" /\ link = "none"
        /\ UNCHANGED <<toMonkey, handled>>
    BY <1>9 DEF FinishedLast, ScriptNotRunning
  <2>2. NumberOf("RunScript", Line') + OneIf(FALSE) = R + OneIf(scriptRunning')
    BY <1>0, <1>1, <1>2, <2>1, ReadyFlow
  <2>3. R = 0 /\ E = 0 /\ B = 0 /\ Pipe' = Pipe
    BY <1>1, <1>2, <2>1, AllGone, NumberEmpty DEF OneIf, Pipe
  <2> QED
    BY <1>2, <1>4, <1>5, <2>1, <2>2, <2>3 DEF OneIf
<1>10. CASE ClientDisconnected
  <2>1. toAgent' = <<>> /\ toMonkey' = <<>> /\ app # "alive" /\ UNCHANGED monkeyVars
    BY <1>10 DEF ClientDisconnected
  <2>2. recvBuf' = <<>> /\ sockBuf' = <<>> /\ sendBuf' = <<>> /\ pc = "off"
    BY <1>1, <2>1 DEF DeadInv
  <2>3. Line' = <<>> /\ Pipe' = <<>> /\ B = 0
    BY <1>2, <2>1, <2>2, EmptyIsSeq, ConcatEmptySeq DEF Line, Pipe, OneIf, Busy
  <2> QED
    BY <1>2, <1>3, <1>4, <2>1, <2>3, NumberEmpty DEF OneIf, monkeyVars, runVars
<1>11. CASE \/ ScriptErrorExit \/ UserAppError \/ UserAppFinished \/ FinishedBadly
  <2>1. UNCHANGED <<toAgent, toMonkey, scriptRunning, handled>>
    BY <1>11 DEF ScriptErrorExit, UserAppError, UserAppFinished, FinishedBadly, wireVars,
                 runVars
  <2>2. Line' = Line /\ Pipe' = Pipe
    BY <1>1, <2>1 DEF Line, Pipe
  <2> QED
    BY <1>2, <1>3, <1>4, <2>1, <2>2
<1> QED
  BY <1>6, <1>7, <1>8, <1>9, <1>10, <1>11 DEF MonkeyStep, MonkeyHandler

LEMMA AgentFlow ==
    ASSUME TypeOK, DeadInv, FlowInv, AgentStep \/ Connect \/ MonkeyGone,
           UNCHANGED monkeyVars
    PROVE  FlowInv'
<1>0. /\ Pipe \in Seq(MonkeyPacket) /\ Line \in Seq(AgentPacket) /\ current \in Nat
      /\ UNCHANGED <<handled, scriptRunning>> /\ scriptRunning \in BOOLEAN
  BY LineType, PipeType DEF monkeyVars, runVars, TypeOK, AgentTypeOK, MonkeyTypeOK
<1>2. PICK R \in Nat, E \in Nat, H \in Nat, B \in {0, 1} :
          /\ R = NumberOf("RunScript", Line) /\ E = NumberOf("ScriptEnd", Pipe)
          /\ H = NumberOf("ScriptError", handled) /\ B = OneIf(pc \in Busy)
  BY FlowType DEF OneIf
<1>3. R + B + E <= H + OneIf(scriptRunning)
  BY <1>2 DEF FlowInv, OnWay
<1>4. FlowInv' <=> NumberOf("RunScript", Line') + OneIf(pc' \in Busy)
                       + NumberOf("ScriptEnd", Pipe')
                     <= H + OneIf(scriptRunning)
  BY <1>0, <1>2 DEF FlowInv, OnWay, NumberOf, OneIf, Busy
<1>5. ASSUME Goes PROVE NumberOf("RunScript", Line') = R /\ OneIf(pc' \in Busy) \in 0..B
  <2>1. Line' = Line /\ (pc' \in Busy => pc \in Busy)
    BY <1>5 DEF Goes
  <2> QED
    BY <1>2, <2>1 DEF OneIf
<1>6. ASSUME NEW type \in PacketTypeForMonkey, NEW id \in Nat,
             Pipe' = Append(Pipe, Packet(type, id))
      PROVE  NumberOf("ScriptEnd", Pipe') = E + OneIf(type = "ScriptEnd")
  <2>1. Packet(type, id) \in MonkeyPacket /\ Packet(type, id).type = type
    BY DEF Packet, MonkeyPacket
  <2> QED
    BY <1>0, <1>2, <1>6, <2>1, NumberAppend
<1>7. CASE SaysEnd
  <2>1. Line' = Line /\ B = 1 /\ OneIf(pc' \in Busy) = 0
    BY <1>2, <1>7 DEF SaysEnd, Ends, OneIf, Busy
  <2>2. NumberOf("ScriptEnd", Pipe') = E + 1
    BY <1>0, <1>6, <1>7 DEF SaysEnd, PacketTypeForMonkey, OneIf
  <2> QED
    BY <1>2, <1>3, <1>4, <2>1, <2>2 DEF OneIf
<1>8. CASE SaysError \/ SaysOther
  <2>1. Goes
    BY <1>8 DEF SaysError, SaysOther
  <2>2. NumberOf("ScriptEnd", Pipe') = E
    <3>1. PICK type \in PacketTypeForMonkey \ {"ScriptEnd"}, id \in Nat :
            Pipe' = Append(Pipe, Packet(type, id))
      BY <1>0, <1>8 DEF SaysError, SaysOther, PacketTypeForMonkey
    <3>2. NumberOf("ScriptEnd", Pipe') = E + OneIf(type = "ScriptEnd")
      BY <1>6, <3>1
    <3> QED
      BY <1>2, <3>1, <3>2 DEF OneIf
  <2>3. NumberOf("RunScript", Line') = R /\ OneIf(pc' \in Busy) \in 0..B
    BY <1>5, <2>1
  <2> QED
    BY <1>2, <1>3, <1>4, <2>2, <2>3 DEF OneIf
<1>9. CASE SaysNothing
  <2>1. NumberOf("ScriptEnd", Pipe') = E
    BY <1>2, <1>9 DEF SaysNothing
  <2>2. CASE Goes
    <3>1. NumberOf("RunScript", Line') = R /\ OneIf(pc' \in Busy) \in 0..B
      BY <1>5, <2>2
    <3> QED
      BY <1>2, <1>3, <1>4, <2>1, <3>1 DEF OneIf
  <2>3. CASE Takes
    <3>1. /\ Line # <<>> /\ Line' = Tail(Line) /\ B = 0
          /\ IsRun(Head(Line)) \/ pc' = pc
      BY <1>2, <2>3 DEF Takes, OneIf, Busy
    <3>2. Tail(Line) \in Seq(AgentPacket)
      BY <1>0, <3>1, HeadTailProperties
    <3>3. PICK R1 \in Nat : R1 = NumberOf("RunScript", Tail(Line))
      BY <3>2, NumberType
    <3>4. R = R1 + OneIf(IsRun(Head(Line)))
      BY <1>0, <1>2, <3>1, <3>3, NumberTail DEF IsRun
    <3>5. OneIf(pc' \in Busy) <= OneIf(IsRun(Head(Line))) /\ OneIf(pc' \in Busy) \in {0, 1}
      BY <1>2, <3>1 DEF OneIf
    <3> QED
      BY <1>2, <1>3, <1>4, <2>1, <3>1, <3>3, <3>4, <3>5 DEF OneIf
  <2> QED
    BY <1>9, <2>2, <2>3 DEF SaysNothing
<1>10. CASE SaysNoMore
  <2>1. /\ recvBuf' = <<>> /\ sockBuf' = <<>> /\ toAgent' = toAgent
        /\ Pipe' = toMonkey /\ OneIf(pc' \in Busy) = 0
    BY <1>10 DEF SaysNoMore, Falls, OneIf, Busy
  <2>2. Line' = toAgent
    BY <2>1, LineType, EmptyIsSeq, ConcatEmptySeq DEF Line
  <2>3. PICK front : front = recvBuf \o sockBuf
    OBVIOUS
  <2>4. front \in Seq(AgentPacket) /\ toAgent \in Seq(AgentPacket) /\ Line = front \o toAgent
    BY <2>3, LineType DEF Line
  <2>5. PICK R0 \in Nat, R1 \in Nat :
            R0 = NumberOf("RunScript", front) /\ R1 = NumberOf("RunScript", toAgent)
    <3>1. NumberOf("RunScript", front) \in Nat
      BY <2>4, NumberType
    <3>2. NumberOf("RunScript", toAgent) \in Nat
      BY <2>4, NumberType
    <3> QED
      BY <3>1, <3>2
  <2>6. R = R0 + R1
    <3>1. NumberOf("RunScript", front \o toAgent)
            = NumberOf("RunScript", front) + NumberOf("RunScript", toAgent)
      BY <2>4, NumberConcat
    <3> QED
      BY <1>2, <2>4, <2>5, <3>1
  <2>7. PICK E0 \in Nat, E1 \in Nat :
            E0 = NumberOf("ScriptEnd", toMonkey) /\ E1 = NumberOf("ScriptEnd", sendBuf)
    <3>1. NumberOf("ScriptEnd", toMonkey) \in Nat
      BY PipeType, NumberType
    <3>2. NumberOf("ScriptEnd", sendBuf) \in Nat
      BY PipeType, NumberType
    <3> QED
      BY <3>1, <3>2
  <2>8. E = E0 + E1
    <3>1. NumberOf("ScriptEnd", toMonkey \o sendBuf)
            = NumberOf("ScriptEnd", toMonkey) + NumberOf("ScriptEnd", sendBuf)
      BY PipeType, NumberConcat
    <3> QED
      BY <1>2, <2>7, <3>1 DEF Pipe
  <2>9. OneIf(scriptRunning) \in {0, 1}
    BY DEF OneIf
  <2>10. R1 + 0 + E0 <= H + OneIf(scriptRunning)
    BY <1>2, <1>3, <2>5, <2>6, <2>7, <2>8, <2>9
  <2> QED
    BY <1>4, <2>1, <2>2, <2>5, <2>7, <2>10
<1> QED
  BY <1>7, <1>8, <1>9, <1>10, AgentSays

\* A new process begins with nothing on its way.
LEMMA RestartClears ==
    ASSUME TypeOK, DeadInv, Restart
    PROVE  /\ Line' = <<>> /\ Pipe' = <<>> /\ handled' = <<>>
           /\ pc' \notin Busy /\ ~scriptRunning'
           /\ status' = "running" /\ UNCHANGED started
<1>1. /\ app # "alive" /\ link = "none" /\ UNCHANGED <<toAgent, toMonkey, sendBuf, sockBuf, recvBuf>>
      /\ handled' = <<>> /\ pc' = "loop" /\ scriptRunning' = FALSE /\ status' = "running"
      /\ UNCHANGED started
  BY DEF Restart, RestartUserApp, AgentRestart, bufferVars
<1>2. Line = <<>> /\ Pipe = <<>>
  BY <1>1, AllGone
<1> QED
  BY <1>1, <1>2 DEF Line, Pipe, Busy

LEMMA FlowStep == TypeOK /\ DeadInv /\ FlowInv /\ [Next]_vars => FlowInv'
<1> SUFFICES ASSUME TypeOK, DeadInv, FlowInv, [Next]_vars PROVE FlowInv'
  OBVIOUS
<1>1. CASE Restart
  BY <1>1, RestartClears, NumberEmpty DEF FlowInv, OnWay, OneIf, Busy
<1>2. CASE UNCHANGED vars
  BY <1>2 DEF vars, wireVars, monkeyVars, runVars, agentVars, bufferVars, sendVars,
              threadVars, FlowInv, OnWay, NumberOf, OneIf, Line, Pipe, Busy
<1> QED
  BY <1>1, <1>2, MonkeyFlow, AgentFlow DEF Next, Connect, MonkeyGone

LEMMA AllEmpty == Init => Line = <<>> /\ Pipe = <<>> /\ handled = <<>> /\ pc \notin Busy
<1> SUFFICES ASSUME Init PROVE Line = <<>> /\ Pipe = <<>> /\ handled = <<>> /\ pc \notin Busy
  OBVIOUS
<1>1. /\ recvBuf = <<>> /\ sockBuf = <<>> /\ toAgent = <<>> /\ toMonkey = <<>>
      /\ sendBuf = <<>> /\ handled = <<>> /\ pc = "loop"
  BY DEF Init, WireInit, AgentInit, MonkeyInit
<1> QED
  BY <1>1, EmptyIsSeq, ConcatEmptySeq DEF Line, Pipe, Busy

LEMMA FlowInit == Init => FlowInv
BY AllEmpty, NumberEmpty DEF FlowInv, OnWay, OneIf

LEMMA FlowGivesOne ==
    ASSUME TypeOK, FlowInv
    PROVE  OneScriptAtATime
<1>1. /\ recvBuf \in Seq(AgentPacket) /\ sockBuf \in Seq(AgentPacket)
      /\ toAgent \in Seq(AgentPacket) /\ recvBuf \o sockBuf \in Seq(AgentPacket)
  BY LineType
<1>2. /\ NumberOf("RunScript", recvBuf) \in Nat /\ NumberOf("RunScript", sockBuf) \in Nat
      /\ NumberOf("RunScript", toAgent) \in Nat
  BY <1>1, NumberType
<1>3. NumberOf("RunScript", recvBuf \o sockBuf)
        = NumberOf("RunScript", recvBuf) + NumberOf("RunScript", sockBuf)
  BY <1>1, NumberConcat
<1>4. NumberOf("RunScript", (recvBuf \o sockBuf) \o toAgent)
        = NumberOf("RunScript", recvBuf \o sockBuf) + NumberOf("RunScript", toAgent)
  BY <1>1, NumberConcat
<1>5. NumberOf("RunScript", Line)
        = NumberOf("RunScript", recvBuf) + NumberOf("RunScript", sockBuf)
            + NumberOf("RunScript", toAgent)
  BY <1>3, <1>4 DEF Line
<1>6. OneIf(scriptRunning) \in {0, 1} /\ OneIf(pc \in Busy) \in {0, 1}
  BY DEF OneIf
<1> QED
  BY <1>2, <1>5, <1>6, FlowType DEF FlowInv, OnWay, OneScriptAtATime, InFlight, OneIf, Busy

\* At most one script is with the agent or on its way to it, and one more for
\* each error that was handled (scriptRunning_, onScriptEnd and onScriptError).
THEOREM OneAtATime == Spec => []OneScriptAtATime
<1> QED
  BY FlowGivesOne, TypeInit, TypeStep, PipeInit, DeadStep, FlowInit, FlowStep, PTL DEF Spec

-----------------------------------------------------------------------------
(* The scripts that were sent have rising ids, below those in the queue.    *)

StartedIds == [i \in 1..Len(started) |-> started[i].id]

StartInv == Ordered(StartedIds, <<>>, toRunList, nextId)

LEMMA StartedType ==
    ASSUME TypeOK
    PROVE  /\ started \in Seq(StartedRec) /\ Len(started) \in Nat
           /\ StartedIds \in Seq(Nat) /\ Len(StartedIds) = Len(started)
           /\ \A i \in 1..Len(started) :
                 started[i].id \in Nat /\ StartedIds[i] = started[i].id
<1>1. started \in Seq(StartedRec) /\ Len(started) \in Nat
  BY LenProperties DEF TypeOK, MonkeyTypeOK
<1>2. ASSUME NEW i \in 1..Len(started) PROVE started[i].id \in Nat
  <2>1. started[i] \in StartedRec
    BY <1>1, ElementOfSeq
  <2> QED
    BY <2>1 DEF StartedRec
<1>3. StartedIds \in [1..Len(started) -> Nat]
  BY <1>2 DEF StartedIds
<1>4. StartedIds \in Seq(Nat) /\ Len(StartedIds) = Len(started)
  BY <1>1, <1>3, SeqDef, LenProperties
<1> QED
  BY <1>1, <1>2, <1>4 DEF StartedIds

LEMMA OrderedStart ==
    ASSUME NEW r \in Seq(Nat), NEW q \in Seq(ScriptRec), q # <<>>, NEW n \in Nat,
           Ordered(r, <<>>, q, n)
    PROVE  Ordered(Append(r, Head(q).id), <<>>, Tail(q), n)
<1>1. PICK id \in Nat : id = Head(q).id
  <2>1. Head(q) \in ScriptRec
    OBVIOUS
  <2> QED
    BY <2>1 DEF ScriptRec
<1>2. PICK two : two = ScriptPackets(id)
  OBVIOUS
<1>3. /\ two \in Seq(AgentPacket) /\ two # <<>> /\ Tail(two) = <<Packet("RunScript", id)>>
  BY <1>1, <1>2, TwoPackets DEF ScriptPackets
<1>4. Tail(q) \in Seq(ScriptRec)
  BY HeadTailProperties
<1>5. Ordered(r, two, Tail(q), n)
  <2>1. Ordered(r, <<>> \o ScriptPackets(Head(q).id), Tail(q), n)
    BY EmptyIsSeq, OrderedSend
  <2>2. <<>> \o two = two
    BY <1>3, ConcatEmptySeq
  <2> QED
    BY <1>1, <1>2, <2>1, <2>2
<1>6. PICK one : one = <<Packet("RunScript", id)>>
  OBVIOUS
<1>7. /\ one \in Seq(AgentPacket) /\ one # <<>> /\ Tail(one) = <<>>
      /\ Head(one) = Packet("RunScript", id)
  BY <1>1, <1>6 DEF Packet, AgentPacket, PacketTypeForAgent
<1>8. Ordered(r, one, Tail(q), n)
  BY <1>3, <1>4, <1>5, <1>6, OrderedTake
<1>9. IsRun(Head(one)) => Ordered(Append(r, Head(one).id), Tail(one), Tail(q), n)
  BY <1>4, <1>7, <1>8, OrderedTake
<1>10. Head(one).type = "RunScript" /\ Head(one).id = id
  BY <1>7 DEF Packet
<1> QED
  BY <1>1, <1>7, <1>9, <1>10 DEF IsRun

Newest(st, id) == \A i \in 1..Len(st) : st[i].id <= id

\* What onAgentReadyToRunScript does to the history of scripts sent
LEMMA ReadyStart ==
    ASSUME TypeOK, TypeOK', NEW connected \in BOOLEAN, NEW running \in BOOLEAN,
           NEW q \in Seq(ScriptRec), AgentReadyToRunScript(connected, running, q),
           Ordered(StartedIds, <<>>, q, nextId')
    PROVE  /\ StartInv'
           /\ \/ CanSend(connected, running, q) /\ SendScript(q) /\ Newest(started', Head(q).id)
              \/ /\ UNCHANGED <<started, toAgent>>
                 /\ toRunList' = q /\ scriptRunning' = running
<1>0. nextId' \in Nat
  BY DEF TypeOK, MonkeyTypeOK
<1>1. CASE CanSend(connected, running, q) /\ SendScript(q)
  <2>1. Head(q) \in ScriptRec /\ q # <<>>
    BY <1>1 DEF CanSend
  <2>2. PICK id \in Nat : id = Head(q).id
    BY <2>1 DEF ScriptRec
  <2>3. Ordered(Append(StartedIds, id), <<>>, Tail(q), nextId')
    BY <1>0, <2>1, <2>2, StartedType, OrderedStart
  <2>4. PICK rec \in StartedRec : started' = Append(started, rec) /\ rec.id = id
    <3>1. [id |-> Head(q).id, after |-> Head(q).after, session |-> restarts] \in StartedRec
      BY <2>1 DEF StartedRec, ScriptRec, TypeOK, MonkeyTypeOK
    <3> QED
      BY <1>1, <2>2, <3>1 DEF SendScript
  <2>5. PICK m \in Nat : m = Len(started)
    BY StartedType
  <2>6. /\ Len(started') = m + 1 /\ started'[m + 1] = rec
        /\ \A i \in 1..m : started'[i] = started[i]
    BY <2>4, <2>5, StartedType, AppendProperties
  <2>7. PICK ids : ids = Append(StartedIds, id)
    OBVIOUS
  <2>8. /\ ids \in Seq(Nat) /\ Len(ids) = m + 1 /\ ids[m + 1] = id
        /\ \A i \in 1..m : ids[i] = started[i].id
    <3>1. StartedIds \in Seq(Nat) /\ Len(StartedIds) = m
      BY <2>5, StartedType
    <3>2. /\ ids \in Seq(Nat) /\ Len(ids) = m + 1 /\ ids[m + 1] = id
          /\ \A i \in 1..m : ids[i] = StartedIds[i]
      BY <2>7, <3>1, AppendProperties
    <3> QED
      BY <2>5, <3>2, StartedType
  <2>9. StartedIds' = ids
    <3>1. StartedIds' = [i \in 1..m + 1 |-> started'[i].id]
      BY <2>6 DEF StartedIds
    <3>2. ids = [i \in 1..m + 1 |-> ids[i]]
      <4>1. ids \in [1..m + 1 -> Nat]
        BY <2>8, LenProperties
      <4> QED
        BY <4>1
    <3>3. ASSUME NEW i \in 1..m + 1 PROVE started'[i].id = ids[i]
      <4>1. CASE i \in 1..m
        BY <2>6, <2>8, <4>1
      <4>2. CASE i = m + 1
        BY <2>4, <2>6, <2>8, <4>2
      <4> QED
        BY <4>1, <4>2
    <3> QED
      BY <3>1, <3>2, <3>3
  <2>10. StartInv'
    BY <1>1, <2>3, <2>7, <2>9 DEF StartInv, SendScript
  <2>11. Newest(started', id)
    <3> SUFFICES ASSUME NEW i \in 1..m + 1 PROVE started'[i].id <= id
      BY <2>6 DEF Newest
    <3>1. CASE i \in 1..m
      <4>1. i \in 1..Len(ids) /\ m + 1 \in 1..Len(ids) /\ i < m + 1
        BY <2>8, <3>1
      <4>2. ids[i] < ids[m + 1]
        BY <2>3, <2>7, <4>1 DEF Ordered, Increasing
      <4>3. ids[i] = started'[i].id /\ ids[m + 1] = id /\ started[i].id \in Nat
        BY <2>5, <2>6, <2>8, <3>1, StartedType
      <4> QED
        BY <2>6, <3>1, <4>2, <4>3
    <3>2. CASE i = m + 1
      BY <2>4, <2>6, <3>2
    <3> QED
      BY <3>1, <3>2
  <2>12. Newest(started', Head(q).id)
    BY <2>2, <2>11
  <2> QED
    BY <1>1, <2>10, <2>12
<1>2. CASE /\ UNCHANGED <<started, toAgent>>
           /\ toRunList' = q /\ scriptRunning' = running
  BY <1>2 DEF StartInv, StartedIds
<1> QED
  BY <1>1, <1>2 DEF AgentReadyToRunScript

Readies(running) ==
    \E connected \in BOOLEAN, q \in Seq(ScriptRec) :
        Queues(q) /\ AgentReadyToRunScript(connected, running, q)

\* What Readies(running) comes to: a new script, the newest of all, is sent
\* behind the line; or nothing is.
StartsNext ==
    /\ scriptRunning' = TRUE
    /\ \E rec \in StartedRec : started' = Append(started, rec)
    /\ \E id \in Nat : Line' = Line \o ScriptPackets(id) /\ Newest(started', id)
StartsNone(running) ==
    Line' = Line /\ started' = started /\ scriptRunning' = running

LEMMA MonkeyReadies ==
    ASSUME TypeOK, MonkeyStep
    PROVE  \/ Readies(scriptRunning) /\ UNCHANGED <<toMonkey, handled, status>>
           \/ Readies(FALSE) /\ (OnScriptEnd \/ OnScriptError \/ FinishedLast)
           \/ /\ UNCHANGED <<queueVars, runVars>>
              /\ \/ PrintReport \/ AnswerClose \/ ScriptErrorExit \/ ClientDisconnected
                 \/ UserAppError \/ UserAppFinished \/ FinishedBadly
<1>0. /\ toRunList \in Seq(ScriptRec) /\ scriptRunning \in BOOLEAN /\ TRUE \in BOOLEAN
      /\ IsConnected \in BOOLEAN /\ nextId \in Nat
  BY DEF TypeOK, MonkeyTypeOK, IsConnected
<1>1. CASE HandleNewConnection
  BY <1>0, <1>1 DEF HandleNewConnection, Readies, Queues
<1>2. CASE StdinRunScript
  <2>1. PICK n \in 1..2 :
          /\ nextId' = nextId + n
          /\ AgentReadyToRunScript(IsConnected, scriptRunning,
               toRunList \o [i \in 1..n |-> [id |-> nextId + i, after |-> FALSE]])
    BY <1>2 DEF StdinRunScript
  <2>2. [i \in 1..n |-> [id |-> nextId + i, after |-> FALSE]] \in [1..n -> ScriptRec]
    BY <1>0 DEF ScriptRec
  <2>3. [i \in 1..n |-> [id |-> nextId + i, after |-> FALSE]] \in Seq(ScriptRec)
    BY <2>2, 1 \in Nat, 2 \in Nat, n \in Nat, SeqDef
  <2>4. PICK q : q = toRunList \o [i \in 1..n |-> [id |-> nextId + i, after |-> FALSE]]
    OBVIOUS
  <2>5. q \in Seq(ScriptRec)
    BY <1>0, <2>3, <2>4, ConcatProperties
  <2>6. Queues(q)
    BY <2>1, <2>4 DEF Queues
  <2>7. Readies(scriptRunning)
    BY <1>0, <2>1, <2>4, <2>5, <2>6 DEF Readies
  <2> QED
    BY <1>2, <2>7 DEF StdinRunScript
<1>3. CASE OnScriptEnd \/ OnScriptError \/ FinishedLast
  <2>1. AgentReadyToRunScript(IsConnected, FALSE, toRunList) /\ nextId' = nextId
    BY <1>3 DEF OnScriptEnd, OnScriptError, FinishedLast, Extract, ScriptNotRunning
  <2> QED
    BY <1>0, <1>3, <2>1 DEF Readies, Queues
<1>4. CASE \/ PrintReport \/ AnswerClose \/ ScriptErrorExit \/ ClientDisconnected
           \/ UserAppError \/ UserAppFinished \/ FinishedBadly
  BY <1>4 DEF PrintReport, AnswerClose, ScriptErrorExit, ClientDisconnected, UserAppError,
              UserAppFinished, FinishedBadly, Extract, queueVars, runVars, monkeyVars
<1> QED
  BY <1>1, <1>2, <1>3, <1>4 DEF MonkeyStep, MonkeyHandler

LEMMA StartedByReady ==
    ASSUME TypeOK, TypeOK', StartInv, UNCHANGED <<recvBuf, sockBuf>>,
           NEW running \in BOOLEAN, Readies(running)
    PROVE  /\ StartInv'
           /\ (StartsNext /\ ~running) \/ StartsNone(running)
<1>0. /\ toRunList \in Seq(ScriptRec) /\ nextId \in Nat /\ StartedIds \in Seq(Nat)
      /\ <<>> \in Seq(AgentPacket)
  BY StartedType, EmptyIsSeq DEF TypeOK, MonkeyTypeOK
<1>1. PICK connected \in BOOLEAN, q \in Seq(ScriptRec) :
        Queues(q) /\ AgentReadyToRunScript(connected, running, q)
  BY DEF Readies
<1>2. Ordered(StartedIds, <<>>, q, nextId')
  <2>1. CASE q = toRunList /\ nextId' = nextId
    BY <2>1 DEF StartInv
  <2>2. CASE \E n \in 1..2 :
               /\ nextId' = nextId + n
               /\ q = toRunList \o [i \in 1..n |-> [id |-> nextId + i, after |-> FALSE]]
    <3>1. PICK n \in 1..2 :
            /\ nextId' = nextId + n
            /\ q = toRunList \o [i \in 1..n |-> [id |-> nextId + i, after |-> FALSE]]
      BY <2>2
    <3>2. Ordered(StartedIds, <<>>, toRunList, nextId)
      BY DEF StartInv
    <3>3. Ordered(StartedIds, <<>>,
            toRunList \o [i \in 1..n |-> [id |-> nextId + i, after |-> FALSE]], nextId + n)
      BY <1>0, <3>2, OrderedQueue
    <3> QED
      BY <3>1, <3>3
  <2> QED
    BY <1>1, <2>1, <2>2 DEF Queues
<1>3. /\ StartInv'
      /\ \/ CanSend(connected, running, q) /\ SendScript(q) /\ Newest(started', Head(q).id)
         \/ UNCHANGED <<started, toAgent>> /\ scriptRunning' = running
  BY <1>1, <1>2, ReadyStart
<1>4. CASE CanSend(connected, running, q) /\ SendScript(q) /\ Newest(started', Head(q).id)
  <2>1. Head(q) \in ScriptRec /\ ~running
    BY <1>4 DEF CanSend
  <2>2. PICK id \in Nat : id = Head(q).id
    BY <2>1 DEF ScriptRec
  <2>3. ScriptPackets(id) \in Seq(AgentPacket)
    BY TwoPackets
  <2>4. Line' = Line \o ScriptPackets(id)
    BY <1>4, <2>2, <2>3, LineGrows DEF SendScript
  <2>5. [id |-> Head(q).id, after |-> Head(q).after, session |-> restarts] \in StartedRec
    BY <2>1 DEF StartedRec, ScriptRec, TypeOK, MonkeyTypeOK
  <2> QED
    BY <1>3, <1>4, <2>1, <2>2, <2>4, <2>5 DEF SendScript, StartsNext
<1>5. CASE UNCHANGED <<started, toAgent>> /\ scriptRunning' = running
  BY <1>3, <1>5 DEF StartsNone, Line
<1> QED
  BY <1>3, <1>4, <1>5

LEMMA StartStep == TypeOK /\ TypeOK' /\ StartInv /\ [Next]_vars => StartInv'
<1> SUFFICES ASSUME TypeOK, TypeOK', StartInv, [Next]_vars PROVE StartInv'
  OBVIOUS
<1>1. ASSUME UNCHANGED <<started, queueVars>> PROVE StartInv'
  BY <1>1 DEF StartInv, StartedIds, queueVars
<1>2. CASE MonkeyStep /\ UNCHANGED agentVars
  <2>1. UNCHANGED <<recvBuf, sockBuf>> /\ scriptRunning \in BOOLEAN /\ FALSE \in BOOLEAN
    BY <1>2 DEF agentVars, bufferVars, TypeOK, MonkeyTypeOK
  <2>2. Readies(scriptRunning) \/ Readies(FALSE) => StartInv'
    BY <2>1, StartedByReady
  <2> QED
    BY <1>1, <1>2, <2>2, MonkeyReadies DEF runVars
<1>3. CASE Restart
  BY <1>1, <1>3 DEF Restart, RestartUserApp
<1>4. CASE (AgentStep \/ Connect \/ MonkeyGone) /\ UNCHANGED monkeyVars
  BY <1>1, <1>4 DEF monkeyVars, runVars
<1>5. CASE UNCHANGED vars
  BY <1>1, <1>5 DEF vars, monkeyVars, runVars
<1> QED
  BY <1>2, <1>3, <1>4, <1>5 DEF Next, Connect, MonkeyGone

LEMMA StartInit == Init => StartInv
<1> SUFFICES ASSUME Init PROVE StartInv
  OBVIOUS
<1>1. Ordered(ran, Lane, toRunList, nextId) /\ ran = <<>> /\ started = <<>>
  BY OrderInit DEF OrderInv, Init, AgentInit, MonkeyInit
<1>2. StartedIds = <<>>
  BY <1>1 DEF StartedIds
<1>3. Lane = <<>>
  BY AllEmpty DEF Lane
<1> QED
  BY <1>1, <1>2, <1>3 DEF StartInv

-----------------------------------------------------------------------------
(* --exit-on-script-error.  As long as no error was handled, all that is    *)
(* with the agent, and each error on its way, is of the script sent last;   *)
(* no end of a script is before an error.                                   *)

NoEndBefore(w, i) == \A j \in 1..i : w[j].type # "ScriptEnd"

ErrorsOfLast(w, st, running) ==
    \A i \in 1..Len(w) :
        w[i].type = "ScriptError" => Newest(st, w[i].id) /\ running /\ NoEndBefore(w, i)

LineOfLast(w, st) == \A i \in 1..Len(w) : IsRun(w[i]) => Newest(st, w[i].id)

LastInv ==
    ExitOnScriptError /\ Reading =>
        /\ NumberOf("ScriptError", handled) = 0
        /\ LineOfLast(Line, started)
        /\ pc \in Busy => Newest(started, current)
        /\ ErrorsOfLast(Pipe, started, scriptRunning)

\* Then the error was handled last, and one script at most was sent since.
FailInv ==
    status = "failing" =>
        \A i \in 1..Len(started) :
            started[i].id > handled[Len(handled)].id => i = Len(started) /\ scriptRunning

LEMMA ErrorsAppend ==
    ASSUME NEW w \in Seq(MonkeyPacket), NEW p \in MonkeyPacket, NEW st, NEW running,
           ErrorsOfLast(w, st, running),
           p.type = "ScriptError" =>
               Newest(st, p.id) /\ running /\ \A i \in 1..Len(w) : w[i].type # "ScriptEnd"
    PROVE  ErrorsOfLast(Append(w, p), st, running)
<1>1. PICK u : u = Append(w, p)
  OBVIOUS
<1>2. PICK m \in Nat : m = Len(w)
  BY LenProperties
<1>3. Len(u) = m + 1 /\ u[m + 1] = p /\ \A i \in 1..m : u[i] = w[i]
  BY <1>1, <1>2, AppendProperties
<1>4. SUFFICES ASSUME NEW i \in 1..m + 1, u[i].type = "ScriptError"
               PROVE  Newest(st, u[i].id) /\ running /\ NoEndBefore(u, i)
  BY <1>1, <1>3 DEF ErrorsOfLast
<1>5. CASE i \in 1..m
  <2>1. Newest(st, w[i].id) /\ running /\ NoEndBefore(w, i) /\ u[i] = w[i]
    BY <1>2, <1>3, <1>4, <1>5 DEF ErrorsOfLast
  <2>2. \A j \in 1..i : j \in 1..m
    BY <1>5
  <2> QED
    BY <1>3, <2>1, <2>2 DEF NoEndBefore
<1>6. CASE i = m + 1
  <2>1. Newest(st, u[i].id) /\ running /\ u[i].type # "ScriptEnd"
        /\ \A j \in 1..m : w[j].type # "ScriptEnd"
    BY <1>2, <1>3, <1>4, <1>6
  <2>2. \A j \in 1..i : j \in 1..m \/ j = i
    BY <1>6
  <2> QED
    BY <1>3, <2>1, <2>2 DEF NoEndBefore
<1> QED
  BY <1>5, <1>6

LEMMA ErrorsTail ==
    ASSUME NEW w \in Seq(MonkeyPacket), w # <<>>, NEW st, NEW running,
           ErrorsOfLast(w, st, running)
    PROVE  ErrorsOfLast(Tail(w), st, running)
<1>1. PICK m \in Nat : m = Len(w)
  BY LenProperties
<1>2. Len(Tail(w)) = m - 1 /\ \A i \in 1..m - 1 : Tail(w)[i] = w[i + 1]
  BY <1>1, HeadTailProperties
<1>3. SUFFICES ASSUME NEW i \in 1..m - 1, Tail(w)[i].type = "ScriptError"
               PROVE  Newest(st, Tail(w)[i].id) /\ running /\ NoEndBefore(Tail(w), i)
  BY <1>2 DEF ErrorsOfLast
<1>4. i + 1 \in 1..m /\ Tail(w)[i] = w[i + 1]
  BY <1>2
<1>5. Newest(st, w[i + 1].id) /\ running /\ NoEndBefore(w, i + 1)
  BY <1>1, <1>3, <1>4 DEF ErrorsOfLast
<1>6. ASSUME NEW j \in 1..i PROVE Tail(w)[j].type # "ScriptEnd"
  <2>1. j \in 1..m - 1 /\ j + 1 \in 1..i + 1
    BY <1>4
  <2> QED
    BY <1>2, <1>5, <2>1 DEF NoEndBefore
<1> QED
  BY <1>4, <1>5, <1>6 DEF NoEndBefore

LEMMA ErrorsFront ==
    ASSUME NEW w \in Seq(MonkeyPacket), NEW u \in Seq(MonkeyPacket), NEW st, NEW running,
           ErrorsOfLast(w \o u, st, running)
    PROVE  ErrorsOfLast(w, st, running)
<1>1. PICK x : x = w \o u
  OBVIOUS
<1>2. PICK m \in Nat, n \in Nat : m = Len(w) /\ n = Len(u)
  BY LenProperties
<1>3. Len(x) = m + n /\ \A i \in 1..m : x[i] = w[i]
  BY <1>1, <1>2, ConcatProperties
<1>4. SUFFICES ASSUME NEW i \in 1..m, w[i].type = "ScriptError"
               PROVE  Newest(st, w[i].id) /\ running /\ NoEndBefore(w, i)
  BY <1>2 DEF ErrorsOfLast
<1>5. i \in 1..m + n /\ x[i] = w[i] /\ \A j \in 1..i : j \in 1..m
  BY <1>3
<1>6. Newest(st, x[i].id) /\ running /\ NoEndBefore(x, i)
  BY <1>1, <1>3, <1>4, <1>5 DEF ErrorsOfLast
<1> QED
  BY <1>3, <1>5, <1>6 DEF NoEndBefore

LEMMA LastOfBack ==
    ASSUME NEW w \in Seq(AgentPacket), NEW u \in Seq(AgentPacket), NEW st,
           LineOfLast(w \o u, st)
    PROVE  LineOfLast(u, st)
<1>1. PICK x : x = w \o u
  OBVIOUS
<1>2. PICK m \in Nat, n \in Nat : m = Len(w) /\ n = Len(u)
  BY LenProperties
<1>3. Len(x) = m + n /\ \A i \in 1..m + n : x[i] = IF i <= m THEN w[i] ELSE u[i - m]
  BY <1>1, <1>2, ConcatProperties
<1>4. SUFFICES ASSUME NEW i \in 1..n, IsRun(u[i]) PROVE Newest(st, u[i].id)
  BY <1>2 DEF LineOfLast
<1>5. m + i \in 1..m + n /\ ~(m + i <= m) /\ m + i - m = i
  OBVIOUS
<1>6. x[m + i] = u[i]
  BY <1>3, <1>5
<1> QED
  BY <1>1, <1>3, <1>4, <1>5, <1>6 DEF LineOfLast

LEMMA LastOfTail ==
    ASSUME NEW w \in Seq(AgentPacket), w # <<>>, NEW st, LineOfLast(w, st)
    PROVE  /\ LineOfLast(Tail(w), st)
           /\ IsRun(Head(w)) => Newest(st, Head(w).id)
<1>1. PICK m \in Nat : m = Len(w)
  BY LenProperties
<1>2. /\ Len(Tail(w)) = m - 1 /\ \A i \in 1..m - 1 : Tail(w)[i] = w[i + 1]
      /\ Head(w) = w[1] /\ m # 0
  BY <1>1, HeadTailProperties, EmptySeq
<1>3. \A i \in 1..m - 1 : i + 1 \in 1..m
  OBVIOUS
<1>4. 1 \in 1..m
  BY <1>2
<1> QED
  BY <1>1, <1>2, <1>3, <1>4 DEF LineOfLast

LEMMA LastOfAck ==
    ASSUME NEW w \in Seq(AgentPacket), NEW st, LineOfLast(w, st)
    PROVE  LineOfLast(w \o <<Packet("CloseAck", 0)>>, st)
<1>1. PICK u : u = w \o <<Packet("CloseAck", 0)>>
  OBVIOUS
<1>2. PICK m \in Nat : m = Len(w)
  BY LenProperties
<1>3. Len(u) = m + 1 /\ u[m + 1] = Packet("CloseAck", 0) /\ \A i \in 1..m : u[i] = w[i]
  BY <1>1, <1>2, OneAck, ConcatLine
<1>4. SUFFICES ASSUME NEW i \in 1..m + 1, IsRun(u[i]) PROVE Newest(st, u[i].id)
  BY <1>1, <1>3 DEF LineOfLast
<1>5. i # m + 1
  BY <1>3, <1>4 DEF IsRun, Packet
<1>6. i \in 1..m
  BY <1>5
<1> QED
  BY <1>2, <1>3, <1>4, <1>6 DEF LineOfLast

\* With no script in the line, the one that is sent is the only one.
LEMMA LastOfSend ==
    ASSUME NEW w \in Seq(AgentPacket), NEW st, NEW id \in Nat, Newest(st, id),
           \A i \in 1..Len(w) : ~IsRun(w[i])
    PROVE  LineOfLast(w \o ScriptPackets(id), st)
<1>1. PICK new : new = ScriptPackets(id)
  OBVIOUS
<1>2. PICK u : u = w \o new
  OBVIOUS
<1>3. PICK m \in Nat : m = Len(w)
  BY LenProperties
<1>4. /\ new \in Seq(AgentPacket) /\ new # <<>> /\ Len(new) = 2
      /\ new[1] = Packet("SetScriptFileName", id) /\ new[2] = Packet("RunScript", id)
  BY <1>1, TwoPackets
<1>5. /\ Len(u) = m + 2 /\ \A i \in 1..m : u[i] = w[i]
      /\ \A i \in 1..2 : u[m + i] = new[i]
  <2>1. /\ Len(u) = Len(w) + Len(new) /\ \A i \in 1..Len(w) : u[i] = w[i]
        /\ \A i \in 1..Len(new) : u[Len(w) + i] = new[i]
    BY <1>2, <1>4, ConcatLine
  <2> QED
    BY <1>3, <1>4, <2>1
<1>6. u[m + 1] = Packet("SetScriptFileName", id) /\ u[m + 2] = Packet("RunScript", id)
  <2>1. 1 \in 1..2 /\ 2 \in 1..2
    OBVIOUS
  <2> QED
    BY <1>4, <1>5, <2>1
<1>7. SUFFICES ASSUME NEW i \in 1..m + 2, IsRun(u[i]) PROVE Newest(st, u[i].id)
  BY <1>1, <1>2, <1>5 DEF LineOfLast
<1>8. i \notin 1..m
  BY <1>3, <1>5, <1>7
<1>9. i # m + 1
  BY <1>6, <1>7 DEF IsRun, Packet
<1>10. i = m + 2
  BY <1>8, <1>9
<1> QED
  BY <1>6, <1>10 DEF Packet

\* As long as LastInv is not vacuous
LEMMA NoneOnWay ==
    ASSUME TypeOK, FlowInv, NumberOf("ScriptError", handled) = 0, ~scriptRunning
    PROVE  /\ \A i \in 1..Len(Line) : ~IsRun(Line[i])
           /\ pc \notin Busy
           /\ \A i \in 1..Len(Pipe) : Pipe[i].type # "ScriptEnd"
<1>1. /\ Line \in Seq(AgentPacket) /\ Pipe \in Seq(MonkeyPacket)
      /\ NumberOf("RunScript", Line) \in Nat /\ NumberOf("ScriptEnd", Pipe) \in Nat
  BY LineType, PipeType, FlowType
<1>2. NumberOf("RunScript", Line) + OneIf(pc \in Busy) + NumberOf("ScriptEnd", Pipe) <= 0
  BY DEF FlowInv, OnWay, OneIf
<1>3. /\ NumberOf("RunScript", Line) = 0 /\ NumberOf("ScriptEnd", Pipe) = 0
      /\ pc \notin Busy
  BY <1>1, <1>2 DEF OneIf
<1>4. \A i \in 1..Len(Line) : Line[i].type # "RunScript"
  BY <1>1, <1>3, NumberType
<1>5. \A i \in 1..Len(Pipe) : Pipe[i].type # "ScriptEnd"
  BY <1>1, <1>3, NumberType
<1> QED
  BY <1>3, <1>4, <1>5 DEF IsRun

\* A script that is sent while nothing of another one is on its way, and no
\* error either
LEMMA NextIsLast ==
    ASSUME TypeOK, StartsNext, NEW w, w = Pipe',
           \A i \in 1..Len(Line) : ~IsRun(Line[i]),
           \A i \in 1..Len(w) : w[i].type # "ScriptError"
    PROVE  LineOfLast(Line', started') /\ ErrorsOfLast(Pipe', started', scriptRunning')
<1>1. PICK id \in Nat : Line' = Line \o ScriptPackets(id) /\ Newest(started', id)
  BY DEF StartsNext
<1>2. LineOfLast(Line \o ScriptPackets(id), started')
  BY <1>1, LineType, LastOfSend
<1>3. ErrorsOfLast(w, started', scriptRunning')
  BY DEF ErrorsOfLast
<1> QED
  BY <1>1, <1>2, <1>3

LEMMA LastMonkey ==
    ASSUME TypeOK, TypeOK', DeadInv, FlowInv, StartInv, LastInv, MonkeyStep,
           UNCHANGED agentVars
    PROVE  LastInv'
<1>0. /\ Pipe \in Seq(MonkeyPacket) /\ Line \in Seq(AgentPacket)
      /\ handled \in Seq(MonkeyPacket)
      /\ scriptRunning \in BOOLEAN /\ FALSE \in BOOLEAN
      /\ UNCHANGED <<recvBuf, sockBuf, sendBuf, pc, current>>
  BY LineType, PipeType
     DEF TypeOK, MonkeyTypeOK, agentVars, bufferVars, threadVars, sendVars
<1>1. CASE ~(ExitOnScriptError /\ Reading')
  BY <1>1 DEF LastInv, Reading
<1>2. CASE ExitOnScriptError /\ Reading'
  <2>1. Reading
    BY <1>2 DEF MonkeyStep, MonkeyHandler, HandleNewConnection, PrintReport, OnScriptEnd,
         OnScriptError, AnswerClose, ScriptErrorExit, ClientDisconnected, UserAppError,
         UserAppFinished, FinishedBadly, FinishedLast, StdinRunScript, Extract, Reading,
         monkeyVars
  <2>2. /\ NumberOf("ScriptError", handled) = 0
        /\ LineOfLast(Line, started)
        /\ pc \in Busy => Newest(started, current)
        /\ ErrorsOfLast(Pipe, started, scriptRunning)
    BY <1>2, <2>1 DEF LastInv
  <2>3. ASSUME /\ NumberOf("ScriptError", handled') = 0
               /\ LineOfLast(Line', started')
               /\ pc \in Busy => Newest(started', current)
               /\ ErrorsOfLast(Pipe', started', scriptRunning')
        PROVE  LastInv'
    BY <1>0, <2>3 DEF LastInv
  <2>4. CASE Readies(scriptRunning) /\ UNCHANGED <<toMonkey, handled, status>>
    <3>1. Pipe' = Pipe /\ NumberOf("ScriptError", handled') = 0
      BY <1>0, <2>2, <2>4 DEF Pipe
    <3>2. CASE StartsNext /\ ~scriptRunning
      <4>1. /\ \A i \in 1..Len(Line) : ~IsRun(Line[i])
            /\ pc \notin Busy
        BY <2>2, <3>2, NoneOnWay
      <4>2. \A i \in 1..Len(Pipe) : Pipe[i].type # "ScriptError"
        BY <2>2, <3>2 DEF ErrorsOfLast
      <4>3. LineOfLast(Line', started') /\ ErrorsOfLast(Pipe', started', scriptRunning')
        BY <3>1, <3>2, <4>1, <4>2, NextIsLast
      <4> QED
        BY <2>3, <3>1, <4>1, <4>3
    <3>3. CASE StartsNone(scriptRunning)
      BY <2>2, <2>3, <3>1, <3>3 DEF StartsNone
    <3> QED
      BY <1>0, <2>4, <3>2, <3>3, StartedByReady
  <2>5. CASE Readies(FALSE) /\ OnScriptEnd
    <3>1. /\ Pipe # <<>> /\ Pipe' = Tail(Pipe) /\ handled' = Append(handled, Head(Pipe))
          /\ Head(Pipe).type = "ScriptEnd"
      <4>1. Extract({"ScriptEnd"})
        BY <2>5 DEF OnScriptEnd
      <4>2. /\ Pipe # <<>> /\ Pipe' = Tail(Pipe) /\ Head(Pipe).type \in {"ScriptEnd"}
            /\ handled' = Append(handled, Head(Pipe))
        BY <1>0, <4>1, PipeShrinks
      <4> QED
        BY <4>2
    <3>2. Head(Pipe) \in MonkeyPacket
      BY <1>0, <3>1, HeadTailProperties
    <3>3. NumberOf("ScriptError", handled') = 0
      BY <1>0, <2>2, <3>1, <3>2, NumberAppend DEF OneIf
    <3>4. \A i \in 1..Len(Pipe) : Pipe[i].type # "ScriptError"
      <4>1. SUFFICES ASSUME NEW i \in 1..Len(Pipe), Pipe[i].type = "ScriptError" PROVE FALSE
        OBVIOUS
      <4>2. NoEndBefore(Pipe, i)
        BY <2>2, <4>1 DEF ErrorsOfLast
      <4>3. 1 \in 1..i /\ Head(Pipe) = Pipe[1]
        BY <1>0, <3>1, <4>1, LenProperties
      <4> QED
        BY <3>1, <4>2, <4>3 DEF NoEndBefore
    <3>5. \A i \in 1..Len(Tail(Pipe)) : Tail(Pipe)[i].type # "ScriptError"
      <4>1. PICK m \in Nat : m = Len(Pipe)
        BY <1>0, LenProperties
      <4>2. Len(Tail(Pipe)) = m - 1 /\ \A i \in 1..m - 1 : Tail(Pipe)[i] = Pipe[i + 1]
        BY <1>0, <3>1, <4>1, HeadTailProperties
      <4>3. \A i \in 1..m - 1 : i + 1 \in 1..m
        OBVIOUS
      <4> QED
        BY <3>4, <4>1, <4>2, <4>3
    <3>6. /\ \A i \in 1..Len(Line) : ~IsRun(Line[i])
          /\ pc \notin Busy
      <4>1. PICK R \in Nat, E \in Nat, B \in {0, 1}, H \in {0, 1} :
              /\ R = NumberOf("RunScript", Line) /\ E = NumberOf("ScriptEnd", Pipe)
              /\ B = OneIf(pc \in Busy) /\ H = OneIf(scriptRunning)
        BY FlowType DEF OneIf
      <4>2. R + B + E <= 0 + H
        BY <2>2, <4>1 DEF FlowInv, OnWay
      <4>3. E # 0
        <5>1. 1 \in 1..Len(Pipe) /\ Pipe[1].type = "ScriptEnd"
          BY <1>0, <3>1, EmptySeq, LenProperties
        <5> QED
          BY <1>0, <4>1, <5>1, NumberType
      <4>4. R = 0 /\ B = 0
        BY <4>1, <4>2, <4>3
      <4>5. \A i \in 1..Len(Line) : Line[i].type # "RunScript"
        BY <1>0, <4>1, <4>4, NumberType
      <4> QED
        BY <4>1, <4>4, <4>5 DEF OneIf, IsRun
    <3>7. CASE StartsNext
      <4>1. \A i \in 1..Len(Pipe') : Pipe'[i].type # "ScriptError"
        BY <3>1, <3>5
      <4>2. LineOfLast(Line', started') /\ ErrorsOfLast(Pipe', started', scriptRunning')
        BY <3>6, <3>7, <4>1, NextIsLast
      <4> QED
        BY <2>3, <3>3, <3>6, <4>2
    <3>8. CASE StartsNone(FALSE)
      <4>1. ErrorsOfLast(Pipe', started', scriptRunning')
        BY <3>1, <3>5 DEF ErrorsOfLast
      <4> QED
        BY <2>2, <2>3, <3>3, <3>6, <3>8, <4>1 DEF StartsNone
    <3> QED
      BY <1>0, <2>5, <3>7, <3>8, StartedByReady
  <2>6. CASE OnScriptError \/ FinishedLast \/ ScriptErrorExit \/ UserAppError \/ FinishedBadly
    BY <1>2, <2>6 DEF OnScriptError, FinishedLast, ScriptErrorExit, UserAppError,
                      FinishedBadly, Reading
  <2>7. CASE PrintReport \/ AnswerClose
    <3>1. /\ Pipe # <<>> /\ Pipe' = Tail(Pipe) /\ handled' = Append(handled, Head(Pipe))
          /\ Head(Pipe).type # "ScriptError"
      <4>1. PICK ts \in SUBSET {"NewUserAppEvent", "ScriptLog", "Close"} : Extract(ts)
        BY <2>7 DEF PrintReport, AnswerClose
      <4>2. /\ Pipe # <<>> /\ Pipe' = Tail(Pipe) /\ Head(Pipe).type \in ts
            /\ handled' = Append(handled, Head(Pipe))
        BY <1>0, <4>1, PipeShrinks
      <4> QED
        BY <4>1, <4>2
    <3>2. Head(Pipe) \in MonkeyPacket
      BY <1>0, <3>1, HeadTailProperties
    <3>3. NumberOf("ScriptError", handled') = 0
      BY <1>0, <2>2, <3>1, <3>2, NumberAppend DEF OneIf
    <3>4. started' = started /\ scriptRunning' = scriptRunning
      BY <2>7 DEF PrintReport, AnswerClose, runVars
    <3>5. LineOfLast(Line', started')
      <4>1. CASE PrintReport
        BY <1>0, <2>2, <3>4, <4>1 DEF PrintReport, Line
      <4>2. CASE AnswerClose
        <5>1. Packet("CloseAck", 0) \in AgentPacket /\ toAgent \in Seq(AgentPacket)
          BY LineType DEF Packet, AgentPacket, PacketTypeForAgent
        <5>2. toAgent' = toAgent \o <<Packet("CloseAck", 0)>>
          BY <4>2, <5>1, AppendIsConcat DEF AnswerClose
        <5>3. Line' = Line \o <<Packet("CloseAck", 0)>>
          BY <1>0, <5>2, OneAck, LineGrows
        <5> QED
          BY <1>0, <2>2, <3>4, <5>3, LastOfAck
      <4> QED
        BY <2>7, <4>1, <4>2
    <3>6. ErrorsOfLast(Tail(Pipe), started, scriptRunning)
      BY <1>0, <2>2, <3>1, ErrorsTail
    <3> QED
      BY <2>2, <2>3, <3>1, <3>3, <3>4, <3>5, <3>6
  <2>8. CASE ClientDisconnected
    <3>1. toAgent' = <<>> /\ toMonkey' = <<>> /\ app # "alive"
          /\ UNCHANGED <<handled, started>>
      BY <2>8 DEF ClientDisconnected, monkeyVars, runVars
    <3>2. recvBuf' = <<>> /\ sockBuf' = <<>> /\ sendBuf' = <<>> /\ pc = "off"
      BY <1>0, <3>1 DEF DeadInv
    <3>3. Line' = <<>> /\ Pipe' = <<>> /\ pc \notin Busy
      BY <3>1, <3>2, EmptyIsSeq, ConcatEmptySeq DEF Line, Pipe, Busy
    <3>4. LineOfLast(<<>>, started) /\ ErrorsOfLast(<<>>, started, scriptRunning')
      BY DEF LineOfLast, ErrorsOfLast
    <3> QED
      BY <2>2, <2>3, <3>1, <3>3, <3>4
  <2>9. CASE UserAppFinished
    <3>1. Line' = Line /\ Pipe' = Pipe /\ UNCHANGED <<handled, started, scriptRunning>>
      BY <1>0, <2>9 DEF UserAppFinished, wireVars, runVars, Line, Pipe
    <3> QED
      BY <2>2, <2>3, <3>1
  <2> QED
    BY <2>4, <2>5, <2>6, <2>7, <2>8, <2>9, MonkeyReadies
<1> QED
  BY <1>1, <1>2

LEMMA LastAgent ==
    ASSUME TypeOK, DeadInv, FlowInv, LastInv, AgentStep \/ Connect \/ MonkeyGone,
           UNCHANGED monkeyVars
    PROVE  LastInv'
<1>0. /\ Pipe \in Seq(MonkeyPacket) /\ Line \in Seq(AgentPacket) /\ current \in Nat
      /\ UNCHANGED <<handled, scriptRunning, started, status>> /\ scriptRunning \in BOOLEAN
  BY LineType, PipeType DEF monkeyVars, runVars, TypeOK, AgentTypeOK, MonkeyTypeOK
<1>1. CASE ~(ExitOnScriptError /\ Reading)
  BY <1>0, <1>1 DEF LastInv, Reading
<1>2. CASE ExitOnScriptError /\ Reading
  <2>1. /\ NumberOf("ScriptError", handled) = 0
        /\ LineOfLast(Line, started)
        /\ pc \in Busy => Newest(started, current)
        /\ ErrorsOfLast(Pipe, started, scriptRunning)
    BY <1>2 DEF LastInv
  <2>2. ASSUME /\ LineOfLast(Line', started)
               /\ pc' \in Busy => Newest(started, current')
               /\ ErrorsOfLast(Pipe', started, scriptRunning)
        PROVE  LastInv'
    BY <1>0, <2>1, <2>2 DEF LastInv
  <2>3. ASSUME Goes
        PROVE  LineOfLast(Line', started) /\ (pc' \in Busy => Newest(started, current'))
    BY <2>1, <2>3 DEF Goes
  <2>4. CASE SaysEnd
    <3>1. Line' = Line /\ pc' \notin Busy
      BY <2>4 DEF SaysEnd, Ends, Busy
    <3>2. /\ Packet("ScriptEnd", current) \in MonkeyPacket
          /\ Packet("ScriptEnd", current).type # "ScriptError"
      BY <1>0 DEF Packet, MonkeyPacket, PacketTypeForMonkey
    <3>3. ErrorsOfLast(Pipe', started, scriptRunning)
      BY <1>0, <2>1, <2>4, <3>2, ErrorsAppend DEF SaysEnd
    <3> QED
      BY <2>1, <2>2, <3>1, <3>3
  <2>5. CASE SaysError
    <3>1. Packet("ScriptError", current) \in MonkeyPacket
          /\ Packet("ScriptError", current).id = current
      BY <1>0 DEF Packet, MonkeyPacket, PacketTypeForMonkey
    <3>2. pc \in Busy /\ Newest(started, current)
      BY <2>1, <2>5 DEF SaysError
    <3>3. scriptRunning /\ NumberOf("ScriptEnd", Pipe) = 0
      <4>1. PICK R \in Nat, E \in Nat, H \in {0, 1} :
              /\ R = NumberOf("RunScript", Line) /\ E = NumberOf("ScriptEnd", Pipe)
              /\ H = OneIf(scriptRunning)
        BY FlowType DEF OneIf
      <4>2. R + 1 + E <= 0 + H
        BY <2>1, <3>2, <4>1 DEF FlowInv, OnWay, OneIf
      <4>3. H = 1 /\ E = 0
        BY <4>1, <4>2
      <4> QED
        BY <4>1, <4>3 DEF OneIf
    <3>4. \A i \in 1..Len(Pipe) : Pipe[i].type # "ScriptEnd"
      BY <1>0, <3>3, NumberType
    <3>5. ErrorsOfLast(Append(Pipe, Packet("ScriptError", current)), started, scriptRunning)
      BY <1>0, <2>1, <3>1, <3>2, <3>3, <3>4, ErrorsAppend
    <3> QED
      BY <2>2, <2>3, <2>5, <3>5 DEF SaysError
  <2>6. CASE SaysOther
    <3>1. PICK type \in PacketTypeForMonkey \ {"ScriptEnd", "ScriptError"}, id \in Nat :
            Pipe' = Append(Pipe, Packet(type, id))
      BY <2>6 DEF SaysOther
    <3>2. Packet(type, id) \in MonkeyPacket /\ Packet(type, id).type # "ScriptError"
      BY <3>1 DEF Packet, MonkeyPacket
    <3>3. ErrorsOfLast(Pipe', started, scriptRunning)
      BY <1>0, <2>1, <3>1, <3>2, ErrorsAppend
    <3> QED
      BY <2>2, <2>3, <2>6, <3>3 DEF SaysOther
  <2>7. CASE SaysNothing
    <3>1. ErrorsOfLast(Pipe', started, scriptRunning)
      BY <2>1, <2>7 DEF SaysNothing
    <3>2. CASE Goes
      BY <2>2, <2>3, <3>1, <3>2
    <3>3. CASE Takes
      <4>1. Line # <<>> /\ Line' = Tail(Line) /\ pc \notin Busy
        BY <3>3 DEF Takes, Busy
      <4>2. /\ LineOfLast(Tail(Line), started)
            /\ IsRun(Head(Line)) => Newest(started, Head(Line).id)
        BY <1>0, <2>1, <4>1, LastOfTail
      <4>3. pc' \in Busy => Newest(started, current')
        BY <3>3, <4>1, <4>2 DEF Takes
      <4> QED
        BY <2>2, <3>1, <4>1, <4>2, <4>3
    <3> QED
      BY <2>7, <3>2, <3>3 DEF SaysNothing
  <2>8. CASE SaysNoMore
    <3>1. /\ recvBuf' = <<>> /\ sockBuf' = <<>> /\ toAgent' = toAgent
          /\ Pipe' = toMonkey /\ pc' \notin Busy
      BY <2>8 DEF SaysNoMore, Falls, Busy
    <3>2. Line' = toAgent
      BY <3>1, LineType, EmptyIsSeq, ConcatEmptySeq DEF Line
    <3>3. LineOfLast(toAgent, started)
      <4>1. PICK front : front = recvBuf \o sockBuf
        OBVIOUS
      <4>2. front \in Seq(AgentPacket) /\ LineOfLast(front \o toAgent, started)
        BY <2>1, <4>1, LineType DEF Line
      <4> QED
        BY <4>2, LineType, LastOfBack
    <3>4. ErrorsOfLast(toMonkey, started, scriptRunning)
      <4>1. ErrorsOfLast(toMonkey \o sendBuf, started, scriptRunning)
        BY <2>1 DEF Pipe
      <4> QED
        BY <4>1, PipeType, ErrorsFront
    <3> QED
      BY <2>2, <3>1, <3>2, <3>3, <3>4
  <2> QED
    BY <2>4, <2>5, <2>6, <2>7, <2>8, AgentSays
<1> QED
  BY <1>1, <1>2

LEMMA LastStep ==
    TypeOK /\ TypeOK' /\ DeadInv /\ FlowInv /\ StartInv /\ LastInv /\ [Next]_vars
        => LastInv'
<1> SUFFICES ASSUME TypeOK, TypeOK', DeadInv, FlowInv, StartInv, LastInv, [Next]_vars
             PROVE  LastInv'
  OBVIOUS
<1>1. CASE Restart
  <2>1. Line' = <<>> /\ Pipe' = <<>> /\ handled' = <<>> /\ pc' \notin Busy
    BY <1>1, RestartClears
  <2>2. /\ NumberOf("ScriptError", handled') = 0
        /\ LineOfLast(Line', started')
        /\ ErrorsOfLast(Pipe', started', scriptRunning')
    BY <2>1, NumberEmpty DEF LineOfLast, ErrorsOfLast
  <2> QED
    BY <2>1, <2>2 DEF LastInv
<1>2. CASE UNCHANGED vars
  <2>1. /\ Line' = Line /\ Pipe' = Pipe
        /\ UNCHANGED <<handled, started, scriptRunning, status, pc, current>>
    BY <1>2 DEF vars, wireVars, monkeyVars, runVars, agentVars, bufferVars, sendVars,
                threadVars, Line, Pipe
  <2> QED
    BY <2>1 DEF LastInv, Reading
<1> QED
  BY <1>1, <1>2, LastMonkey, LastAgent DEF Next, Connect, MonkeyGone

LEMMA LastInit == Init => LastInv
<1> SUFFICES ASSUME Init PROVE LastInv
  OBVIOUS
<1>1. /\ NumberOf("ScriptError", handled) = 0 /\ pc \notin Busy
      /\ LineOfLast(Line, started) /\ ErrorsOfLast(Pipe, started, scriptRunning)
  BY AllEmpty, NumberEmpty DEF LineOfLast, ErrorsOfLast
<1> QED
  BY <1>1 DEF LastInv

\* Sending at most one script more keeps FailInv, if no script is running or
\* none is newer than the error.
LEMMA OneMoreScript ==
    ASSUME TypeOK, NEW wrong,
           \/ StartsNext /\ \A i \in 1..Len(started) : ~(started[i].id > wrong)
           \/ /\ started' = started
              /\ \A i \in 1..Len(started) :
                    started[i].id > wrong => i = Len(started) /\ scriptRunning'
    PROVE  \A i \in 1..Len(started') :
               started'[i].id > wrong => i = Len(started') /\ scriptRunning'
<1>1. CASE StartsNext /\ \A i \in 1..Len(started) : ~(started[i].id > wrong)
  <2>1. PICK rec \in StartedRec : started' = Append(started, rec)
    BY <1>1 DEF StartsNext
  <2>2. PICK m \in Nat : m = Len(started)
    BY StartedType
  <2>3. Len(started') = m + 1 /\ \A i \in 1..m : started'[i] = started[i]
    BY <2>1, <2>2, StartedType, AppendProperties
  <2>4. SUFFICES ASSUME NEW i \in 1..m + 1, started'[i].id > wrong
                 PROVE  i = m + 1 /\ scriptRunning'
    BY <2>3
  <2>5. i \notin 1..m
    BY <1>1, <2>2, <2>3, <2>4
  <2> QED
    BY <1>1, <2>5 DEF StartsNext
<1>2. CASE /\ started' = started
           /\ \A i \in 1..Len(started) :
                 started[i].id > wrong => i = Len(started) /\ scriptRunning'
  BY <1>2
<1> QED
  BY <1>1, <1>2

LEMMA FailStep ==
    TypeOK /\ TypeOK' /\ StartInv /\ LastInv /\ FailInv /\ [Next]_vars => FailInv'
<1> SUFFICES ASSUME TypeOK, TypeOK', StartInv, LastInv, FailInv, [Next]_vars PROVE FailInv'
  OBVIOUS
<1>0. scriptRunning \in BOOLEAN /\ FALSE \in BOOLEAN
  BY DEF TypeOK, MonkeyTypeOK
<1>1. CASE UNCHANGED monkeyVars
  BY <1>1 DEF FailInv, monkeyVars, runVars
<1>2. CASE MonkeyStep /\ UNCHANGED agentVars
  <2>0. UNCHANGED <<recvBuf, sockBuf, sendBuf>>
    BY <1>2 DEF agentVars, bufferVars, sendVars
  <2>1. CASE status' # "failing"
    BY <2>1 DEF FailInv
  <2>2. CASE status' = "failing" /\ Readies(scriptRunning)
             /\ UNCHANGED <<toMonkey, handled, status>>
    <3>1. PICK wrong : wrong = handled[Len(handled)].id
      OBVIOUS
    <3>2. \A i \in 1..Len(started) :
             started[i].id > wrong => i = Len(started) /\ scriptRunning
      BY <2>2, <3>1 DEF FailInv
    <3>3. (StartsNext /\ ~scriptRunning) \/ StartsNone(scriptRunning)
      BY <1>0, <2>0, <2>2, StartedByReady
    <3>4. \A i \in 1..Len(started') :
             started'[i].id > wrong => i = Len(started') /\ scriptRunning'
      <4>1. CASE StartsNext /\ ~scriptRunning
        BY <3>2, <4>1, OneMoreScript
      <4>2. CASE StartsNone(scriptRunning)
        <5>1. /\ started' = started
              /\ \A i \in 1..Len(started) :
                    started[i].id > wrong => i = Len(started) /\ scriptRunning'
          BY <3>2, <4>2 DEF StartsNone
        <5> QED
          BY <5>1, OneMoreScript
      <4> QED
        BY <3>3, <4>1, <4>2
    <3> QED
      BY <2>2, <3>1, <3>4 DEF FailInv
  <2>3. CASE status' = "failing" /\ Readies(FALSE) /\ OnScriptError
    <3>1. Extract({"ScriptError"})
      BY <2>3 DEF OnScriptError
    <3>2. /\ Pipe # <<>> /\ handled' = Append(handled, Head(Pipe))
          /\ Head(Pipe).type = "ScriptError"
      <4>1. /\ Pipe # <<>> /\ Head(Pipe).type \in {"ScriptError"}
            /\ handled' = Append(handled, Head(Pipe))
        BY <2>0, <3>1, PipeShrinks
      <4> QED
        BY <4>1
    <3>3. PICK wrong \in Nat : wrong = Head(Pipe).id
      <4>1. Head(Pipe) \in MonkeyPacket
        BY <3>2, PipeType, HeadTailProperties
      <4> QED
        BY <4>1 DEF MonkeyPacket
    <3>4. handled'[Len(handled')].id = wrong
      <4>1. Head(Pipe) \in MonkeyPacket /\ handled \in Seq(MonkeyPacket)
        BY <3>2, PipeType, HeadTailProperties
      <4> QED
        BY <3>2, <3>3, <4>1, AppendProperties
    <3>5. Newest(started, wrong)
      <4>1. ExitOnScriptError /\ Reading
        <5>1. ExitOnScriptError \/ status' = status
          BY <2>3 DEF OnScriptError
        <5>2. Reading
          BY <3>1 DEF Extract
        <5> QED
          BY <2>3, <5>1, <5>2 DEF Reading
      <4>2. ErrorsOfLast(Pipe, started, scriptRunning)
        BY <4>1 DEF LastInv
      <4>3. 1 \in 1..Len(Pipe) /\ Pipe[1] = Head(Pipe)
        BY <3>2, PipeType, EmptySeq, LenProperties
      <4> QED
        BY <3>2, <3>3, <4>2, <4>3 DEF ErrorsOfLast
    <3>6. \A i \in 1..Len(started) : ~(started[i].id > wrong)
      BY <3>5, StartedType DEF Newest
    <3>7. StartsNext \/ StartsNone(FALSE)
      BY <1>0, <2>0, <2>3, StartedByReady
    <3>8. \A i \in 1..Len(started') :
             started'[i].id > wrong => i = Len(started') /\ scriptRunning'
      <4>1. CASE StartsNext
        BY <3>6, <4>1, OneMoreScript
      <4>2. CASE started' = started
        BY <3>6, <4>2
      <4> QED
        BY <3>7, <4>1, <4>2 DEF StartsNone
    <3> QED
      BY <3>4, <3>8 DEF FailInv
  <2>4. CASE status' = "failing" /\ (OnScriptEnd \/ FinishedLast)
    BY <2>4 DEF OnScriptEnd, FinishedLast, Extract, Reading
  <2>5. CASE /\ status' = "failing" /\ UNCHANGED runVars
             /\ \/ PrintReport \/ AnswerClose \/ ScriptErrorExit \/ ClientDisconnected
                \/ UserAppError \/ UserAppFinished \/ FinishedBadly
    <3>1. ClientDisconnected
      BY <2>5 DEF PrintReport, AnswerClose, ScriptErrorExit, UserAppError, UserAppFinished,
                  FinishedBadly, Extract, Reading
    <3> QED
      BY <1>1, <3>1 DEF ClientDisconnected
  <2> QED
    BY <1>2, <2>1, <2>2, <2>3, <2>4, <2>5, MonkeyReadies
<1>3. CASE Restart
  BY <1>3 DEF Restart, RestartUserApp, FailInv
<1> QED
  BY <1>1, <1>2, <1>3 DEF Next, Connect, MonkeyGone, vars

LEMMA FailInit == Init => FailInv
BY DEF Init, MonkeyInit, FailInv

LEMMA FailGivesOne ==
    ASSUME TypeOK, FailInv
    PROVE  OneScriptAfterError
BY DEF FailInv, OneScriptAfterError

\* With --exit-on-script-error at most one script is sent after the error: the
\* one onScriptError itself sends before it looks at the option, or one that
\* stdinDataReady or a new connection sends in its nested event loop.
THEOREM OneAfterError == Spec => []OneScriptAfterError
<1> QED
  BY FailGivesOne, TypeInit, TypeStep, PipeInit, DeadStep, FlowInit, FlowStep, StartInit,
     StartStep, LastInit, LastStep, FailInit, FailStep, PTL DEF Spec

=============================================================================
