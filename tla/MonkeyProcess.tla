--------------------------- MODULE MonkeyProcess ---------------------------
(***************************************************************************)
(* The process qtmonkey_app between its stdin and its stdout: the thread   *)
(* that reads stdin, the commands in it, the list of scripts, and what is  *)
(* printed.  The user application behind it is only as much as its agent   *)
(* is seen: connected or not, and the scripts it was sent.                 *)
(*                                                                         *)
(* An element of the JSON streams is its number, twice: pipes cut it       *)
(* anywhere, and whether the second half is there is all that matters.     *)
(***************************************************************************)
EXTENDS ScriptParts

CONSTANTS
    MaxReports  \* bound: events and logs a process prints

ASSUME ReportsAssumption == MaxReports \in Nat

VARIABLES
    status,         \* the process: "none"; "running"; "failing": it was started
                    \* and will not run; "lost": start() failed at once;
                    \* "success", "failure", "crashed": it is over
    stdin,          \* halves of commands in the pipe
    data,           \* SharedResource: halves read and not yet parsed
    signals,        \* dataReady signals on their way to the main thread
    connected,      \* BOOLEAN: is dataReady connected to stdinDataReady?
    agent,          \* BOOLEAN: isConnectedState()
    toRunList,      \* the codes of the parts to be run
    scriptRunning,  \* QtMonkey::scriptRunning_
    inFlight,       \* for each part sent to the agent and not over: was its
                    \* error reported?
    stdout,         \* halves of elements in the pipe
    written,        \* history: the commands that were written to stdin
    taken,          \* history: the parts that came to toRunList_
    printed         \* history: the elements that were printed

stdinVars == <<stdin, data, signals, connected, written>>
runVars   == <<agent, toRunList, scriptRunning, inFlight, taken>>
outVars   == <<stdout, printed>>
processVars == <<status, stdinVars, runVars, outVars>>

Over == {"failing", "success", "failure", "crashed"}
Halves(n) == <<n, n>>
ACommand(text, good) == [text |-> text, good |-> good]
Reports == {"event", "log"}

\* What is in the lists of parts is said by TakenInOrder.
ProcessTypeOK ==
    /\ status \in Over \cup {"none", "running", "lost"}
    /\ stdin \in Seq(Nat) /\ data \in Seq(Nat) /\ stdout \in Seq(Nat)
    /\ signals \in Nat
    /\ connected \in BOOLEAN /\ agent \in BOOLEAN /\ scriptRunning \in BOOLEAN
    /\ inFlight \in Seq(BOOLEAN)
    /\ written \in Seq([text : Seq(Pieces), good : BOOLEAN])
    /\ printed \in Seq(Reports \cup {"error", "end"})

\* A process in the state s without a past, but for the commands w
Fresh(s, w) ==
    /\ status' = s
    /\ stdin' = (IF w = <<>> THEN <<>> ELSE Halves(1)) /\ written' = w
    /\ data' = <<>> /\ signals' = 0 /\ connected' = FALSE
    /\ agent' = FALSE /\ toRunList' = <<>> /\ scriptRunning' = FALSE
    /\ inFlight' = <<>> /\ taken' = <<>>
    /\ stdout' = <<>> /\ printed' = <<>>

ProcessInit(s) ==
    /\ status = s
    /\ stdin = <<>> /\ data = <<>> /\ signals = 0 /\ connected = FALSE /\ written = <<>>
    /\ agent = FALSE /\ toRunList = <<>> /\ scriptRunning = FALSE
    /\ inFlight = <<>> /\ taken = <<>>
    /\ stdout = <<>> /\ printed = <<>>

\* json11's parse_multi: the whole elements of d, and what is left of d
Whole(d) == [i \in 1..(Len(d) \div 2) |-> d[2 * i]]
Rest(d)  == SubSeq(d, 2 * (Len(d) \div 2) + 1, Len(d))

\* Whoever drives the process writes a command.  A process that is over
\* does not read it.
Write(text, good) ==
    /\ written' = Append(written, ACommand(text, good))
    /\ stdin' = stdin \o Halves(Len(written) + 1)
    /\ UNCHANGED <<status, data, signals, connected, runVars, outVars>>

\* ReadStdinThread::run.  A signal that is emitted before the connection is
\* made is lost.
ReadStdin ==
    /\ status = "running"
    /\ stdin # <<>>
    /\ stdin' = Tail(stdin)
    /\ data' = Append(data, Head(stdin))
    /\ signals' = IF connected THEN signals + 1 ELSE signals
    /\ UNCHANGED <<status, connected, written, runVars, outVars>>

\* The last line of QtMonkey's constructor, after the start of the thread
ConnectDataReady ==
    /\ status = "running"
    /\ ~connected
    /\ connected' = TRUE
    /\ UNCHANGED <<status, stdin, data, signals, written, runVars, outVars>>

\* The agent's packets of a script are all it takes to run one.
AgentReadyToRunScript(isConnected, running, queue, flying) ==
    IF isConnected /\ ~running /\ queue # <<>>
    THEN /\ toRunList' = Tail(queue)
         /\ scriptRunning' = TRUE
         /\ inFlight' = Append(flying, FALSE)
    ELSE /\ toRunList' = queue
         /\ scriptRunning' = running
         /\ inFlight' = flying

\* Mistake: what was parsed stays in the buffer.
UnparsedBug(d) == d

\* What is not yet parsed, also when a command was not understood
Unparsed(d) == Rest(d)

\* parseOutputFromGui: a command that is not understood hides those behind it.
Understood(batch) ==
    LET bad == {i \in DOMAIN batch : ~written[batch[i]].good}
    IN  IF bad = {} THEN batch
        ELSE SubSeq(batch, 1, (CHOOSE i \in bad : \A j \in bad : i <= j) - 1)

\* The parts of a command, as they come to toRunList_
PartsIn(n) ==
    LET parts == SplitToExecutableParts(written[n].text)
    IN  [k \in DOMAIN parts |-> [n |-> n, line |-> parts[k].line, code |-> parts[k].code]]

AllPartsIn(batch) ==
    LET upTo[i \in 0..Len(batch)] == IF i = 0 THEN <<>> ELSE upTo[i - 1] \o PartsIn(batch[i])
    IN  upTo[Len(batch)]

\* stdinDataReady
StdinDataReady ==
    /\ status = "running"
    /\ connected
    /\ signals > 0
    /\ signals' = signals - 1
    /\ data' = Unparsed(data)
    /\ \E new \in {AllPartsIn(Understood(Whole(data)))} :
         /\ taken' = taken \o new
         /\ AgentReadyToRunScript(agent, scriptRunning,
                toRunList \o [i \in DOMAIN new |-> new[i].code], inFlight)
    /\ UNCHANGED <<status, stdin, connected, written, agent, outVars>>

AgentConnects ==
    /\ status = "running"
    /\ ~agent
    /\ agent' = TRUE
    /\ AgentReadyToRunScript(TRUE, scriptRunning, toRunList, inFlight)
    /\ UNCHANGED <<status, taken, stdinVars, outVars>>

Emit(kind) ==
    /\ printed' = Append(printed, kind)
    /\ stdout' = stdout \o Halves(Len(printed) + 1)

\* onNewUserAppEvent, onScriptLog
PrintReport ==
    /\ status = "running"
    /\ agent
    /\ Len(SelectSeq(printed, LAMBDA k : k \in Reports)) < MaxReports
    /\ \/ Emit("event")
       \/ inFlight # <<>> /\ Emit("log")
    /\ UNCHANGED <<status, stdinVars, runVars>>

\* onScriptError sends the next script at once.
OnScriptError ==
    /\ status = "running"
    /\ inFlight # <<>> /\ ~Head(inFlight)
    /\ AgentReadyToRunScript(agent, FALSE, toRunList, [inFlight EXCEPT ![1] = TRUE])
    /\ Emit("error")
    /\ UNCHANGED <<status, agent, taken, stdinVars>>

OnScriptEnd ==
    /\ status = "running"
    /\ inFlight # <<>>
    /\ AgentReadyToRunScript(agent, FALSE, toRunList, Tail(inFlight))
    /\ Emit("end")
    /\ UNCHANGED <<status, agent, taken, stdinVars>>

\* userAppFinished: what was sent to the application is lost with it.
UserAppFinished ==
    /\ status = "running"
    /\ status' = IF toRunList = <<>> THEN "success" ELSE "running"
    /\ agent' = FALSE
    /\ scriptRunning' = FALSE
    /\ inFlight' = <<>>
    /\ UNCHANGED <<toRunList, taken, stdinVars, outVars>>

\* An exception ends the process with EXIT_FAILURE; or a signal kills it.
ProcessEnds ==
    /\ status = "running"
    /\ status' \in {"failure", "crashed"}
    /\ UNCHANGED <<stdinVars, runVars, outVars>>

ProcessRuns ==
    ReadStdin \/ ConnectDataReady \/ StdinDataReady \/ AgentConnects \/ OnScriptEnd
ProcessStep ==
    ProcessRuns \/ PrintReport \/ OnScriptError \/ UserAppFinished \/ ProcessEnds
=============================================================================
