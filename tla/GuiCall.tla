------------------------------ MODULE GuiCall ------------------------------
(***************************************************************************)
(* Agent::runCodeInGuiThreadSync and runCodeInGuiThreadSyncWithTimeout:    *)
(* the agent thread posts events to the agent object, which lives in the   *)
(* GUI thread, and waits on semaphores.  The code it posts may enter an    *)
(* event loop of its own (a dialog's or a menu's exec()), in which the     *)
(* events posted later are served: the GUI thread is a stack of frames.    *)
(* The operators named ...Bug are mistakes the code does not make.         *)
(***************************************************************************)
EXTENDS Naturals, Sequences

CONSTANTS
    MaxCalls,   \* bound: calls made
    MaxLoops    \* bound: nested event loops entered

ASSUME BoundsAssumption == MaxCalls \in Nat /\ MaxLoops \in Nat

VARIABLES
    pc,         \* the agent thread: see CallerPc
    call,       \* number of the last call
    timed,      \* is it a runCodeInGuiThreadSyncWithTimeout?
    posted,     \* events posted to the agent object, not yet taken
    stack,      \* frames of the GUI thread, the innermost last
    guiRunSem,  \* Agent::guiRunSem_
    waitSem,    \* waitSem of each call
    syncSem,    \* syncSem of each call
    seen,       \* the result of the last activeModalWidget() asked for
    wasDialog,  \* local variable of the call
    loops,      \* number of nested event loops entered; they are numbered
    begun,      \* history: number of calls whose code was begun
    done        \* history: the calls whose code is over

callerVars == <<pc, call, timed, wasDialog>>
semVars    == <<guiRunSem, waitSem, syncSem>>
vars       == <<callerVars, semVars, posted, stack, seen, loops, begun, done>>

CallerPc == {"script",  \* runs the script
             "plain",   \* in guiRunSem_.acquire(), for the code of the call
             "was",     \* the same, for wasDialog
             "post",    \* between the two postEvent of the timed call
             "sync1",   \* in syncSem->acquire()
             "sync2",   \* in the loop of syncSem->tryAcquire
             "now",     \* in guiRunSem_.acquire(), for nowDialog
             "same",    \* in the loop while nowDialog == wasDialog
             "differ"}  \* in the loop after it

\* "probe" asks for activeModalWidget(), "sync" is the event that shows that
\* the one before it was taken; the other two hold the code of a call.
Events == [kind : {"plain", "probe", "func", "sync"}, call : Nat]
Event(kind, c) == [kind |-> kind, call |-> c]

\* A frame of code in the middle of its work ("run"), in an event loop that
\* it has entered ("nested", "left" when that is to end), or in the
\* sendPostedEvents of "sync" ("drain").  loop = 0: no loop was entered.
Frames == [kind : {"plain", "func", "sync"}, call : Nat,
           at : {"run", "nested", "left", "drain"}, loop : Nat, modal : BOOLEAN]

TypeOK ==
    /\ pc \in CallerPc
    /\ call \in Nat
    /\ timed \in BOOLEAN
    /\ posted \in Seq(Events)
    /\ stack \in Seq(Frames)
    /\ guiRunSem \in Nat
    /\ waitSem \in [1..MaxCalls -> Nat]
    /\ syncSem \in [1..MaxCalls -> Nat]
    /\ seen \in Nat
    /\ wasDialog \in Nat
    /\ loops \in Nat
    /\ begun \in Nat
    /\ done \subseteq 1..MaxCalls

Init ==
    /\ pc = "script"
    /\ call = 0
    /\ timed = FALSE
    /\ posted = <<>>
    /\ stack = <<>>
    /\ guiRunSem = 0
    /\ waitSem = [c \in 1..MaxCalls |-> 0]
    /\ syncSem = [c \in 1..MaxCalls |-> 0]
    /\ seen = 0
    /\ wasDialog = 0
    /\ loops = 0
    /\ begun = 0
    /\ done = {}

Release(sem, c) == sem' = [sem EXCEPT ![c] = @ + 1]
\* Mistake: takes from a semaphore without waiting for it.
AcquireBug(sem, c) == sem' = [sem EXCEPT ![c] = @ - 1]
Acquire(sem, c) == sem[c] > 0 /\ sem' = [sem EXCEPT ![c] = @ - 1]

-----------------------------------------------------------------------------
(* The agent thread *)

\* runCodeInGuiThreadSync
CallPlain ==
    /\ pc = "script"
    /\ call < MaxCalls
    /\ call' = call + 1
    /\ timed' = FALSE
    /\ posted' = Append(posted, Event("plain", call + 1))
    /\ pc' = "plain"
    /\ UNCHANGED <<semVars, stack, seen, wasDialog, loops, begun, done>>

PlainReturns ==
    /\ pc = "plain"
    /\ guiRunSem > 0
    /\ guiRunSem' = guiRunSem - 1
    /\ pc' = "script"
    /\ UNCHANGED <<call, timed, waitSem, syncSem, posted, stack, seen, wasDialog,
                   loops, begun, done>>

\* runCodeInGuiThreadSyncWithTimeout asks for the dialog first.
CallTimed ==
    /\ pc = "script"
    /\ call < MaxCalls
    /\ call' = call + 1
    /\ timed' = TRUE
    /\ posted' = Append(posted, Event("probe", call + 1))
    /\ pc' = "was"
    /\ UNCHANGED <<semVars, stack, seen, wasDialog, loops, begun, done>>

PostFunc ==
    /\ pc = "was"
    /\ guiRunSem > 0
    /\ guiRunSem' = guiRunSem - 1
    /\ wasDialog' = seen
    /\ posted' = Append(posted, Event("func", call))
    /\ pc' = "post"
    /\ UNCHANGED <<call, timed, waitSem, syncSem, stack, seen, loops, begun, done>>

PostSync ==
    /\ pc = "post"
    /\ posted' = Append(posted, Event("sync", call))
    /\ pc' = "sync1"
    /\ UNCHANGED <<call, timed, semVars, stack, seen, wasDialog, loops, begun, done>>

SyncTaken ==
    /\ pc = "sync1"
    /\ Acquire(syncSem, call)
    /\ pc' = "sync2"
    /\ UNCHANGED <<call, timed, guiRunSem, waitSem, posted, stack, seen, wasDialog,
                   loops, begun, done>>

\* The loop of tryAcquire ends with success, or after N / 2 attempts.
SyncOver ==
    /\ pc = "sync2"
    /\ Acquire(syncSem, call) \/ UNCHANGED syncSem
    /\ posted' = Append(posted, Event("probe", call))
    /\ pc' = "now"
    /\ UNCHANGED <<call, timed, guiRunSem, waitSem, stack, seen, wasDialog, loops,
                   begun, done>>

Compare ==
    /\ pc = "now"
    /\ guiRunSem > 0
    /\ guiRunSem' = guiRunSem - 1
    /\ pc' = IF seen = wasDialog THEN "same" ELSE "differ"
    /\ UNCHANGED <<call, timed, waitSem, syncSem, posted, stack, seen, wasDialog,
                   loops, begun, done>>

\* Mistake: the dialog is asked for only once.
AskAgainBug == pc = "same" /\ waitSem[call] = 0 /\ UNCHANGED vars

\* No timeout here: every tenth attempt asks for the dialog again.
AskAgain ==
    /\ pc = "same"
    /\ waitSem[call] = 0
    /\ posted' = Append(posted, Event("probe", call))
    /\ pc' = "now"
    /\ UNCHANGED <<call, timed, semVars, stack, seen, wasDialog, loops, begun, done>>

\* return *res
TimedReturns ==
    /\ pc \in {"same", "differ"}
    /\ Acquire(waitSem, call)
    /\ pc' = "script"
    /\ UNCHANGED <<call, timed, guiRunSem, syncSem, posted, stack, seen, wasDialog,
                   loops, begun, done>>

\* Mistake: a timeout of the wait for syncSem too
GiveUpBug ==
    /\ pc \in {"sync1", "differ"}
    /\ waitSem[call] = 0
    /\ pc' = "script"
    /\ UNCHANGED <<call, timed, semVars, posted, stack, seen, wasDialog, loops, begun,
                   done>>

\* The attempts are used up: return QString()
GiveUp ==
    /\ pc = "differ"
    /\ waitSem[call] = 0
    /\ pc' = "script"
    /\ UNCHANGED <<call, timed, semVars, posted, stack, seen, wasDialog, loops, begun,
                   done>>

-----------------------------------------------------------------------------
(* The GUI thread *)

Top == stack[Len(stack)]
SetTop(at) == stack' = [stack EXCEPT ![Len(stack)].at = at]
Pop == SubSeq(stack, 1, Len(stack) - 1)

\* Is the innermost code an event loop?  The application's own is below all.
Loops == stack # <<>> => Top.at \in {"nested", "drain"}

\* activeModalWidget(): the dialog opened last of those still open
ModalLoops == {stack[i].loop : i \in {j \in 1..Len(stack) :
                                        stack[j].at = "nested" /\ stack[j].modal}}
ActiveModal ==
    IF ModalLoops = {} THEN 0
    ELSE CHOOSE l \in ModalLoops : \A k \in ModalLoops : k <= l

\* customEvent, for the four kinds of events
TakeProbe ==
    /\ Loops /\ posted # <<>> /\ Head(posted).kind = "probe"
    /\ posted' = Tail(posted)
    /\ seen' = ActiveModal
    /\ guiRunSem' = guiRunSem + 1
    /\ UNCHANGED <<callerVars, waitSem, syncSem, stack, loops, begun, done>>

TakeCode ==
    /\ Loops /\ posted # <<>> /\ Head(posted).kind \in {"plain", "func"}
    /\ posted' = Tail(posted)
    /\ stack' = Append(stack, [kind |-> Head(posted).kind, call |-> Head(posted).call,
                               at |-> "run", loop |-> 0, modal |-> FALSE])
    /\ begun' = begun + 1
    /\ UNCHANGED <<callerVars, semVars, seen, loops, done>>

TakeSync ==
    /\ Loops /\ posted # <<>> /\ Head(posted).kind = "sync"
    /\ posted' = Tail(posted)
    /\ Release(syncSem, Head(posted).call)
    /\ stack' = Append(stack, [kind |-> "sync", call |-> Head(posted).call,
                               at |-> "drain", loop |-> 0, modal |-> FALSE])
    /\ UNCHANGED <<callerVars, guiRunSem, waitSem, seen, loops, begun, done>>

\* sendPostedEvents returns when nothing is posted any more.
SyncReturns ==
    /\ stack # <<>> /\ Top.at = "drain"
    /\ posted = <<>>
    /\ Release(syncSem, Top.call)
    /\ stack' = Pop
    /\ UNCHANGED <<callerVars, guiRunSem, waitSem, posted, seen, loops, begun, done>>

\* The code of a call enters a dialog's event loop, or one that is not of a
\* modal widget: a menu's, a drag's, a processEvents.
EnterLoop ==
    /\ stack # <<>> /\ Top.at = "run"
    /\ loops < MaxLoops
    /\ loops' = loops + 1
    /\ \E m \in BOOLEAN :
         stack' = [stack EXCEPT ![Len(stack)].at = "nested",
                                ![Len(stack)].loop = loops + 1,
                                ![Len(stack)].modal = m]
    /\ UNCHANGED <<callerVars, semVars, posted, seen, begun, done>>

\* The user, or code that runs in the innermost loop, closes the dialog.
CloseLoop ==
    /\ \E i \in 1..Len(stack) :
         /\ stack[i].at = "nested"
         /\ stack' = [stack EXCEPT ![i].at = "left"]
    /\ UNCHANGED <<callerVars, semVars, posted, seen, loops, begun, done>>

\* exec() returns once the code is the innermost again.
LoopReturns ==
    /\ stack # <<>> /\ Top.at = "left"
    /\ SetTop("run")
    /\ UNCHANGED <<callerVars, semVars, posted, seen, loops, begun, done>>

\* Mistake: guiRunSem_ is released for the code of a timed call as well.
CodeOverBug ==
    /\ stack # <<>> /\ Top.at = "run"
    /\ stack' = Pop
    /\ done' = done \union {Top.call}
    /\ guiRunSem' = guiRunSem + 1
    /\ IF Top.kind = "plain" THEN UNCHANGED waitSem ELSE Release(waitSem, Top.call)
    /\ UNCHANGED <<callerVars, syncSem, posted, seen, loops, begun>>

\* The code is over: its semaphore is released.
CodeOver ==
    /\ stack # <<>> /\ Top.at = "run"
    /\ stack' = Pop
    /\ done' = done \union {Top.call}
    /\ IF Top.kind = "plain"
       THEN guiRunSem' = guiRunSem + 1 /\ UNCHANGED waitSem
       ELSE Release(waitSem, Top.call) /\ UNCHANGED guiRunSem
    /\ UNCHANGED <<callerVars, syncSem, posted, seen, loops, begun>>

Caller ==
    \/ PlainReturns \/ PostFunc \/ PostSync \/ SyncTaken \/ SyncOver
    \/ Compare \/ AskAgain \/ TimedReturns \/ GiveUp

Gui == TakeProbe \/ TakeCode \/ TakeSync \/ SyncReturns \/ LoopReturns

Next == CallPlain \/ CallTimed \/ Caller \/ Gui \/ EnterLoop \/ CloseLoop \/ CodeOver

Spec == Init /\ [][Next]_vars

\* Both threads go on; code that does not wait in a loop comes to an end.
\* sendPostedEvents returns as soon as nothing is posted, while the agent
\* thread asks for the dialog once a second: it does not lose every race.
\* Nothing is assumed of the user, who may leave a dialog open for ever.
FairSpec ==
    /\ Spec
    /\ WF_vars(Caller)
    /\ WF_vars(Gui)
    /\ SF_vars(SyncReturns)
    /\ WF_vars(CodeOver)

-----------------------------------------------------------------------------

\* guiRunSem_ is one semaphore for all plain calls: it is released only for
\* the call that waits on it, never for a call that will come later.
NoStrayRelease ==
    /\ guiRunSem <= 1
    /\ guiRunSem = 1 => pc \in {"plain", "was", "now"} /\ posted = <<>>
    /\ guiRunSem = 1 /\ pc = "plain" => call \in done

\* The agent thread's calls keep the promise of GuiCallSpec: their code is
\* begun once and in order, a plain call returns when its code is over, and a
\* timeout is never one of code that was not even begun.
Calls == INSTANCE GuiCallSpec WITH waiting <- pc # "script"
CallsSpec == Calls!Spec

\* The code of the last call is in a loop that is not a dialog's.
InNonModalLoop ==
    \E i \in 1..Len(stack) :
        stack[i].call = call /\ stack[i].at = "nested" /\ ~stack[i].modal

\* A call with a timeout comes back whatever the user does with a dialog, but
\* not when its code sits in a loop that is not a dialog's: the loop "while
\* nowDialog == wasDialog" has no timeout.
TimedCallReturns ==
    (pc # "script" /\ timed) ~> (pc = "script" \/ InNonModalLoop)
=============================================================================
