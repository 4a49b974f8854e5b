---------------------------- MODULE GuiCallSpec ----------------------------
(***************************************************************************)
(* What a script may expect of running code in the GUI thread: the calls   *)
(* 1, 2, 3, ... are made one after the other; their code is begun in that  *)
(* order, each once; a call that comes back has its code over, or, for a   *)
(* call with a timeout, at least begun.                                    *)
(***************************************************************************)
EXTENDS Naturals

VARIABLES
    call,       \* number of the last call
    waiting,    \* is its caller still waiting for it?
    timed,      \* may the caller give up?
    begun,      \* the calls 1..begun have had their code begun
    done        \* the calls whose code is over

specVars == <<call, waiting, timed, begun, done>>

Init ==
    /\ call = 0
    /\ waiting = FALSE
    /\ timed = FALSE
    /\ begun = 0
    /\ done = {}

Call ==
    /\ ~waiting
    /\ call' = call + 1
    /\ waiting' = TRUE
    /\ timed' \in BOOLEAN
    /\ UNCHANGED <<begun, done>>

Begin ==
    /\ begun < call
    /\ begun' = begun + 1
    /\ UNCHANGED <<call, waiting, timed, done>>

Finish ==
    /\ \E c \in 1..begun : c \notin done /\ done' = done \union {c}
    /\ UNCHANGED <<call, waiting, timed, begun>>

Return ==
    /\ waiting
    /\ call \in done \/ (timed /\ call <= begun)
    /\ waiting' = FALSE
    /\ UNCHANGED <<call, timed, begun, done>>

Next == Call \/ Begin \/ Finish \/ Return

Spec == Init /\ [][Next]_specVars
=============================================================================
