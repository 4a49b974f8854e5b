--------------------------- MODULE GuiCallProofs ---------------------------
(***************************************************************************)
(* Theorems about GuiCall, for any number of calls and of nested event     *)
(* loops: no release of guiRunSem_ is left for a later call, and the calls *)
(* implement GuiCallSpec.                                                  *)
(***************************************************************************)
EXTENDS GuiCall, TLAPS, SequenceTheorems, WellFoundedInduction

\* What the agent thread has posted and the GUI thread has not taken yet.
PostedInv ==
    /\ pc \in {"script", "sync2", "same", "differ"} => posted = <<>>
    /\ pc = "plain" => posted \in {<<>>, <<Event("plain", call)>>}
    /\ pc \in {"was", "now"} => posted \in {<<>>, <<Event("probe", call)>>}
    /\ pc = "post" => posted \in {<<>>, <<Event("func", call)>>}
    /\ pc = "sync1" => posted \in {<<>>, <<Event("sync", call)>>,
                                   <<Event("func", call), Event("sync", call)>>}

CodePosted == posted # <<>> /\ Head(posted).kind \in {"plain", "func"}

\* All calls but the last one have had their code begun.
BegunInv ==
    /\ call \in 0..MaxCalls
    /\ pc # "script" => call >= 1
    /\ pc \notin {"script", "plain"} => timed
    /\ begun = IF pc = "was" \/ CodePosted THEN call - 1 ELSE call
    /\ done \subseteq 1..begun

\* The "sync" event of call c was taken.
Synced(c) ==
    /\ c <= call
    /\ c = call => pc \notin {"plain", "was", "post"} /\ (pc = "sync1" => posted = <<>>)

\* What a permit of each semaphore tells.
SemInv ==
    /\ guiRunSem \in {0, 1}
    /\ guiRunSem = 1 => pc \in {"plain", "was", "now"} /\ posted = <<>>
    /\ guiRunSem = 1 /\ pc = "plain" => call \in done
    /\ \A c \in 1..MaxCalls : waitSem[c] > 0 => c \in done
    /\ \A c \in 1..MaxCalls : syncSem[c] > 0 => Synced(c)

FrameOK(f) ==
    /\ f.at = "drain" <=> f.kind = "sync"
    /\ f.loop <= loops
    /\ f.kind = "plain" => pc = "plain" /\ posted = <<>> /\ guiRunSem = 0 /\ f.call = call
    /\ f.kind = "sync" => f.call \in 1..MaxCalls /\ Synced(f.call)
    /\ f.kind # "sync" => f.call \in 1..begun /\ f.call \notin done

FramesInv == \A i \in 1..Len(stack) : FrameOK(stack[i])

\* The code of a call is on the stack once.
ApartInv ==
    \A i, j \in 1..Len(stack) :
        i # j /\ stack[i].kind # "sync" /\ stack[j].kind # "sync"
            => stack[i].call # stack[j].call

Inv == TypeOK /\ PostedInv /\ BegunInv /\ SemInv /\ FramesInv /\ ApartInv

-----------------------------------------------------------------------------
(* Sequences and numbers *)

LEMMA SeqFacts ==
    ASSUME NEW S, NEW s \in Seq(S)
    PROVE  /\ Len(s) \in Nat
           /\ \A i \in 1..Len(s) : s[i] \in S
           /\ s # <<>> => Len(s) > 0 /\ Tail(s) \in Seq(S) /\ Head(s) \in S
           /\ \A e \in S : Append(s, e) \in Seq(S)
<1>1. Len(s) \in Nat /\ \A i \in 1..Len(s) : s[i] \in S
  BY LenProperties, ElementOfSeq
<1>2. s # <<>> => Len(s) > 0 /\ Tail(s) \in Seq(S) /\ Head(s) \in S
  BY HeadTailProperties, EmptySeq
<1>3. \A e \in S : Append(s, e) \in Seq(S)
  BY AppendProperties
<1> QED
  BY <1>1, <1>2, <1>3

LEMMA AppendToOne ==
    ASSUME NEW a, NEW b
    PROVE  Append(<<a>>, b) = <<a, b>>
<1>1. <<a>> \in Seq({a, b}) /\ b \in {a, b} /\ <<a, b>> \in Seq({a, b})
  OBVIOUS
<1>2. /\ Append(<<a>>, b) \in Seq({a, b}) /\ Len(Append(<<a>>, b)) = 2
      /\ Append(<<a>>, b)[1] = a /\ Append(<<a>>, b)[2] = b
  BY <1>1, AppendProperties
<1>3. Len(<<a, b>>) = 2 /\ <<a, b>>[1] = a /\ <<a, b>>[2] = b
  OBVIOUS
<1>4. \A i \in 1..2 : i = 1 \/ i = 2
  OBVIOUS
<1> QED
  BY <1>1, <1>2, <1>3, <1>4, SeqEqual

LEMMA Tuples ==
    ASSUME NEW a, NEW b
    PROVE  /\ <<a>> # <<>> /\ Head(<<a>>) = a /\ Tail(<<a>>) = <<>>
           /\ <<a, b>> # <<>> /\ Head(<<a, b>>) = a /\ Tail(<<a, b>>) = <<b>>
           /\ Append(<<>>, a) = <<a>> /\ Append(<<a>>, b) = <<a, b>>
<1>1. <<a>> # <<>> /\ <<a, b>> # <<>>
  OBVIOUS
<1>2. Head(<<a>>) = a /\ Head(<<a, b>>) = a
  OBVIOUS
<1>3. Tail(<<a>>) = <<>>
  OBVIOUS
<1>4. Tail(<<a, b>>) = <<b>>
  OBVIOUS
<1>5. Append(<<>>, a) = <<a>>
  OBVIOUS
<1> QED
  BY <1>1, <1>2, <1>3, <1>4, <1>5, AppendToOne, Zenon

\* A set of numbers up to b has a largest one.
LEMMA HasMax ==
    ASSUME NEW b \in Nat, NEW M, M \subseteq 0..b, M # {}
    PROVE  \E l \in M : \A k \in M : k <= l
<1>1. PICK R : R = {ss \in Nat \X Nat : ss[1] < ss[2]}
  OBVIOUS
<1>2. IsWellFoundedOn(R, Nat)
  BY <1>1, NatLessThanWellFounded DEF OpToRel
<1>3. PICK T : T = {b - k : k \in M}
  OBVIOUS
<1>4. T \subseteq Nat
  <2>1. \A k \in M : b - k \in Nat
    OBVIOUS
  <2> QED
    BY <1>3, <2>1
<1>5. T # {}
  BY <1>3
<1>6. \E x \in T : \A y \in T : ~ (<<y, x>> \in R)
  BY <1>2, <1>4, <1>5, WFMin, Zenon
<1>7. PICK x \in T : \A y \in T : ~ (<<y, x>> \in R)
  BY <1>6, Zenon
<1>8. PICK l \in M : x = b - l
  BY <1>3
<1>9. ASSUME NEW k \in M
      PROVE  k <= l
  <2>1. b - k \in T /\ b - k \in Nat /\ b - l \in Nat
    BY <1>3, <1>4
  <2>2. ~(b - k < b - l)
    BY <1>1, <1>7, <1>8, <2>1
  <2> QED
    BY <2>1, <2>2
<1> QED
  BY <1>9

-----------------------------------------------------------------------------
(* The posted events *)

\* The event that is taken is one of the last call, and which one it can be.
LEMMA HeadPosted ==
    ASSUME Inv, posted # <<>>
    PROVE  /\ Head(posted).call = call
           /\ guiRunSem = 0
           /\ Head(posted).kind = "probe" => pc \in {"was", "now"} /\ Tail(posted) = <<>>
           /\ Head(posted).kind = "plain" => pc = "plain" /\ Tail(posted) = <<>>
           /\ Head(posted).kind = "func" =>
                \/ pc = "post" /\ Tail(posted) = <<>>
                \/ pc = "sync1" /\ Tail(posted) = <<Event("sync", call)>>
           /\ Head(posted).kind = "sync" => pc = "sync1" /\ Tail(posted) = <<>>
<1>1. posted \in {<<Event("plain", call)>>, <<Event("probe", call)>>,
                  <<Event("func", call)>>, <<Event("sync", call)>>,
                  <<Event("func", call), Event("sync", call)>>}
  BY DEF Inv, TypeOK, CallerPc, PostedInv
<1>2. guiRunSem = 0
  BY DEF Inv, SemInv
<1>3. \A k \in {"plain", "probe", "func", "sync"} :
        Event(k, call).kind = k /\ Event(k, call).call = call
  BY DEF Event
<1>4. CASE posted = <<Event("plain", call)>>
  BY <1>2, <1>3, <1>4, Tuples DEF Inv, TypeOK, CallerPc, PostedInv
<1>5. CASE posted = <<Event("probe", call)>>
  BY <1>2, <1>3, <1>5, Tuples DEF Inv, TypeOK, CallerPc, PostedInv
<1>6. CASE posted = <<Event("func", call)>>
  BY <1>2, <1>3, <1>6, Tuples DEF Inv, TypeOK, CallerPc, PostedInv
<1>7. CASE posted = <<Event("sync", call)>>
  BY <1>2, <1>3, <1>7, Tuples DEF Inv, TypeOK, CallerPc, PostedInv
<1>8. CASE posted = <<Event("func", call), Event("sync", call)>>
  BY <1>2, <1>3, <1>8, Tuples DEF Inv, TypeOK, CallerPc, PostedInv
<1> QED
  BY <1>1, <1>4, <1>5, <1>6, <1>7, <1>8

-----------------------------------------------------------------------------
(* The stack of the GUI thread *)

LEMMA TopFacts ==
    ASSUME TypeOK, stack # <<>>
    PROVE  Len(stack) \in 1..Len(stack) /\ Top \in Frames
<1>1. Len(stack) \in Nat /\ Len(stack) > 0 /\ \A i \in 1..Len(stack) : stack[i] \in Frames
  BY SeqFacts DEF TypeOK
<1> QED
  BY <1>1 DEF Top

LEMMA StackPushed ==
    ASSUME TypeOK, NEW f \in Frames, stack' = Append(stack, f)
    PROVE  /\ stack' \in Seq(Frames)
           /\ Len(stack') = Len(stack) + 1
           /\ \A i \in 1..Len(stack) : stack'[i] = stack[i]
           /\ stack'[Len(stack) + 1] = f
BY AppendProperties DEF TypeOK

LEMMA StackPopped ==
    ASSUME TypeOK, stack # <<>>, stack' = Pop
    PROVE  /\ stack' \in Seq(Frames)
           /\ Len(stack') = Len(stack) - 1
           /\ \A i \in 1..Len(stack') : stack'[i] = stack[i]
<1>1. PICK n \in Nat : n = Len(stack) /\ n > 0
  BY SeqFacts DEF TypeOK
<1>2. \A i \in 1..n - 1 : stack[i] \in Frames
  BY <1>1, SeqFacts DEF TypeOK
<1>3. Pop = SubSeq(stack, 1, n - 1) /\ n - 1 \in Int
  BY <1>1 DEF Pop
<1>4. /\ Pop \in Seq(Frames)
      /\ Len(Pop) = IF 1 <= n - 1 THEN (n - 1) - 1 + 1 ELSE 0
      /\ \A i \in 1..(n - 1) - 1 + 1 : Pop[i] = stack[1 + i - 1]
  BY <1>2, <1>3, SubSeqProperties
<1>5. (IF 1 <= n - 1 THEN (n - 1) - 1 + 1 ELSE 0) = n - 1 /\ (n - 1) - 1 + 1 = n - 1
  BY <1>1
<1>6. Len(Pop) = n - 1
  BY <1>4, <1>5, Zenon
<1>7. \A i \in 1..n - 1 : Pop[i] = stack[i]
  <2>1. \A i \in 1..n - 1 : 1 + i - 1 = i
    OBVIOUS
  <2> QED
    BY <1>4, <1>5, <2>1
<1> QED
  BY <1>1, <1>4, <1>6, <1>7

LEMMA StackSet ==
    ASSUME TypeOK, NEW i \in 1..Len(stack), NEW f \in Frames,
           stack' = [stack EXCEPT ![i] = f]
    PROVE  /\ stack' \in Seq(Frames)
           /\ Len(stack') = Len(stack)
           /\ \A j \in 1..Len(stack) : stack'[j] = IF j = i THEN f ELSE stack[j]
BY ExceptSeq DEF TypeOK

\* No code comes to the stack a second time when frames only go.
LEMMA ApartStays ==
    ASSUME TypeOK, ApartInv, Len(stack') \in 0..Len(stack),
           \A i \in 1..Len(stack') :
               stack'[i].kind = stack[i].kind /\ stack'[i].call = stack[i].call
    PROVE  ApartInv'
<1>1. Len(stack) \in Nat
  BY SeqFacts DEF TypeOK
<1> QED
  BY <1>1 DEF ApartInv

\* The dialog that is open last is one of the loops that were entered.
LEMMA ActiveModalTyped ==
    ASSUME TypeOK, FramesInv
    PROVE  ActiveModal \in Nat
<1>1. Len(stack) \in Nat /\ \A i \in 1..Len(stack) : stack[i] \in Frames
  BY SeqFacts DEF TypeOK
<1>2. \A i \in 1..Len(stack) : stack[i].loop \in Nat /\ stack[i].loop <= loops
  BY <1>1 DEF Frames, FramesInv, FrameOK
<1>3. loops \in Nat /\ ModalLoops \subseteq 0..loops
  BY <1>2 DEF ModalLoops, TypeOK
<1>4. ModalLoops # {} => \E l \in ModalLoops : \A k \in ModalLoops : k <= l
  BY <1>3, HasMax
<1>5. CASE ModalLoops = {}
  BY <1>5 DEF ActiveModal
<1>6. CASE ModalLoops # {}
  <2>1. PICK m : m = CHOOSE l \in ModalLoops : \A k \in ModalLoops : k <= l
    OBVIOUS
  <2>2. m \in ModalLoops
    BY <1>4, <1>6, <2>1, Zenon
  <2>3. ActiveModal = m
    BY <1>6, <2>1 DEF ActiveModal
  <2> QED
    BY <1>3, <2>2, <2>3
<1> QED
  BY <1>5, <1>6

-----------------------------------------------------------------------------
(* The steps of the agent thread *)

LEMMA EventsTyped == \A k \in {"plain", "probe", "func", "sync"}, c \in Nat :
                         /\ Event(k, c) \in Events
                         /\ Event(k, c).kind = k
                         /\ Event(k, c).call = c
BY DEF Event, Events

LEMMA AcquireTyped ==
    ASSUME NEW sem \in [1..MaxCalls -> Nat], NEW c \in 1..MaxCalls, sem[c] > 0
    PROVE  /\ [sem EXCEPT ![c] = @ - 1] \in [1..MaxCalls -> Nat]
           /\ \A d \in 1..MaxCalls : [sem EXCEPT ![c] = @ - 1][d] <= sem[d]
OBVIOUS

LEMMA ReleaseTyped ==
    ASSUME NEW sem \in [1..MaxCalls -> Nat], NEW c \in 1..MaxCalls
    PROVE  /\ [sem EXCEPT ![c] = @ + 1] \in [1..MaxCalls -> Nat]
           /\ \A d \in 1..MaxCalls : d # c => [sem EXCEPT ![c] = @ + 1][d] = sem[d]
OBVIOUS

LEMMA CallPlainKeeps ==
    ASSUME Inv, CallPlain
    PROVE  Inv'
<1>a. posted = <<>> /\ posted' = <<Event("plain", call + 1)>>
  <2>1. posted = <<>> /\ posted' = Append(posted, Event("plain", call + 1))
    BY DEF Inv, PostedInv, SemInv, CallPlain
  <2> QED
    BY <2>1, Tuples
<1>b. /\ posted' # <<>> /\ Head(posted').kind = "plain"
      /\ posted' \in Seq(Events)
  BY <1>a, Tuples, EventsTyped DEF Inv, TypeOK, BegunInv, CallPlain
<1>c. timed' \in BOOLEAN /\ (pc' \notin {"script", "plain"} => timed')
  BY DEF CallPlain
<1>d. begun = call /\ call \in 0..MaxCalls - 1
  BY <1>a, BoundsAssumption DEF Inv, TypeOK, BegunInv, CodePosted, CallPlain
<1>1. TypeOK'
  BY <1>a, <1>b, <1>c, <1>d DEF Inv, TypeOK, CallerPc, CallPlain, semVars
<1>2. PostedInv'
  BY <1>a, <1>b, <1>c, <1>d DEF Inv, PostedInv, SemInv, CallPlain, semVars
<1>3. BegunInv'
  <2>1. call' \in 0..MaxCalls /\ call' >= 1 /\ begun' = call' - 1 /\ done' \subseteq 1..begun'
    BY <1>d, BoundsAssumption DEF Inv, TypeOK, BegunInv, CallPlain
  <2>2. CodePosted'
    BY <1>b DEF CodePosted, CallPlain
  <2> QED
    BY <1>c, <2>1, <2>2 DEF BegunInv
<1>4. \A c \in Nat : Synced(c) => Synced(c)'
  BY <1>a, <1>b, <1>c, <1>d DEF Inv, TypeOK, BegunInv, PostedInv, Synced, CallPlain, semVars
<1>5. SemInv'
  BY <1>a, <1>b, <1>c, <1>d, <1>4 DEF Inv, TypeOK, PostedInv, BegunInv, SemInv, CallPlain, semVars
<1>6. FramesInv'
  BY <1>a, <1>b, <1>c, <1>d, <1>4 DEF Inv, TypeOK, PostedInv, BegunInv, SemInv, FramesInv, FrameOK, CallPlain, semVars
<1>7. ApartInv'
  BY DEF Inv, ApartInv, CallPlain
<1> QED
  BY <1>1, <1>2, <1>3, <1>5, <1>6, <1>7 DEF Inv

LEMMA PlainReturnsKeeps ==
    ASSUME Inv, PlainReturns
    PROVE  Inv'
<1>1. TypeOK'
  BY DEF Inv, TypeOK, CallerPc, PlainReturns
<1>2. PostedInv'
  BY DEF Inv, PostedInv, SemInv, PlainReturns
<1>3. BegunInv'
  BY DEF Inv, TypeOK, PostedInv, BegunInv, SemInv, CodePosted, PlainReturns
<1>4. \A c \in Nat : Synced(c) => Synced(c)'
  BY DEF Inv, TypeOK, BegunInv, PostedInv, Synced, PlainReturns
<1>5. SemInv'
  BY <1>4 DEF Inv, TypeOK, PostedInv, BegunInv, SemInv, PlainReturns
<1>6. FramesInv'
  BY <1>4 DEF Inv, TypeOK, PostedInv, BegunInv, SemInv, FramesInv, FrameOK, PlainReturns
<1>7. ApartInv'
  BY DEF Inv, ApartInv, PlainReturns
<1> QED
  BY <1>1, <1>2, <1>3, <1>5, <1>6, <1>7 DEF Inv

LEMMA CallTimedKeeps ==
    ASSUME Inv, CallTimed
    PROVE  Inv'
<1>a. posted = <<>> /\ posted' = <<Event("probe", call + 1)>>
  <2>1. posted = <<>> /\ posted' = Append(posted, Event("probe", call + 1))
    BY DEF Inv, PostedInv, SemInv, CallTimed
  <2> QED
    BY <2>1, Tuples
<1>b. /\ posted' # <<>> /\ Head(posted').kind = "probe"
      /\ posted' \in Seq(Events)
  BY <1>a, Tuples, EventsTyped DEF Inv, TypeOK, BegunInv, CallTimed
<1>c. timed' \in BOOLEAN /\ (pc' \notin {"script", "plain"} => timed')
  BY DEF CallTimed
<1>d. begun = call /\ call \in 0..MaxCalls - 1
  BY <1>a, BoundsAssumption DEF Inv, TypeOK, BegunInv, CodePosted, CallTimed
<1>1. TypeOK'
  BY <1>a, <1>b, <1>c, <1>d DEF Inv, TypeOK, CallerPc, CallTimed, semVars
<1>2. PostedInv'
  BY <1>a, <1>b, <1>c, <1>d DEF Inv, PostedInv, SemInv, CallTimed, semVars
<1>3. BegunInv'
  <2>1. call' \in 0..MaxCalls /\ call' >= 1 /\ begun' = call' - 1 /\ done' \subseteq 1..begun'
    BY <1>d, BoundsAssumption DEF Inv, TypeOK, BegunInv, CallTimed
  <2>2. pc' = "was"
    BY <1>b DEF CodePosted, CallTimed
  <2> QED
    BY <1>c, <2>1, <2>2 DEF BegunInv
<1>4. \A c \in Nat : Synced(c) => Synced(c)'
  BY <1>a, <1>b, <1>c, <1>d DEF Inv, TypeOK, BegunInv, PostedInv, Synced, CallTimed, semVars
<1>5. SemInv'
  BY <1>a, <1>b, <1>c, <1>d, <1>4 DEF Inv, TypeOK, PostedInv, BegunInv, SemInv, CallTimed, semVars
<1>6. FramesInv'
  BY <1>a, <1>b, <1>c, <1>d, <1>4 DEF Inv, TypeOK, PostedInv, BegunInv, SemInv, FramesInv, FrameOK, CallTimed, semVars
<1>7. ApartInv'
  BY DEF Inv, ApartInv, CallTimed
<1> QED
  BY <1>1, <1>2, <1>3, <1>5, <1>6, <1>7 DEF Inv

LEMMA PostFuncKeeps ==
    ASSUME Inv, PostFunc
    PROVE  Inv'
<1>a. posted = <<>> /\ posted' = <<Event("func", call)>>
  <2>1. posted = <<>> /\ posted' = Append(posted, Event("func", call))
    BY DEF Inv, PostedInv, SemInv, PostFunc
  <2> QED
    BY <2>1, Tuples
<1>b. /\ posted' # <<>> /\ Head(posted').kind = "func"
      /\ posted' \in Seq(Events)
  BY <1>a, Tuples, EventsTyped DEF Inv, TypeOK, BegunInv, PostFunc
<1>1. TypeOK'
  BY <1>a, <1>b DEF Inv, TypeOK, CallerPc, PostFunc
<1>2. PostedInv'
  BY <1>a, <1>b DEF Inv, PostedInv, SemInv, PostFunc
<1>3. BegunInv'
  BY <1>a, <1>b DEF Inv, TypeOK, PostedInv, BegunInv, SemInv, CodePosted, PostFunc
<1>4. \A c \in Nat : Synced(c) => Synced(c)'
  BY <1>a, <1>b DEF Inv, TypeOK, BegunInv, PostedInv, Synced, PostFunc
<1>5. SemInv'
  BY <1>a, <1>b, <1>4 DEF Inv, TypeOK, PostedInv, BegunInv, SemInv, PostFunc
<1>6. FramesInv'
  BY <1>a, <1>b, <1>4 DEF Inv, TypeOK, PostedInv, BegunInv, SemInv, FramesInv, FrameOK, PostFunc
<1>7. ApartInv'
  BY DEF Inv, ApartInv, PostFunc
<1> QED
  BY <1>1, <1>2, <1>3, <1>5, <1>6, <1>7 DEF Inv

LEMMA PostSyncKeeps ==
    ASSUME Inv, PostSync
    PROVE  Inv'
<1>a. \/ posted = <<>> /\ posted' = <<Event("sync", call)>>
      \/ posted = <<Event("func", call)>>
            /\ posted' = <<Event("func", call), Event("sync", call)>>
  <2>1. posted' = Append(posted, Event("sync", call))
    BY DEF PostSync
  <2>2. CASE posted = <<>>
    BY <2>1, <2>2, Tuples
  <2>3. CASE posted = <<Event("func", call)>>
    BY <2>1, <2>3, AppendToOne
  <2> QED
    BY <2>2, <2>3 DEF Inv, PostedInv, PostSync
<1>b. /\ CodePosted' <=> CodePosted
      /\ posted' # <<>>
      /\ posted' \in Seq(Events)
  <2>1. Event("sync", call) \in Events
    BY EventsTyped DEF Inv, TypeOK
  <2>2. posted' \in Seq(Events)
    BY <2>1, SeqFacts DEF Inv, TypeOK, PostSync
  <2> QED
    BY <1>a, <2>2, Tuples, EventsTyped DEF Inv, TypeOK, CodePosted
<1>1. TypeOK'
  BY <1>a, <1>b DEF Inv, TypeOK, CallerPc, PostSync, semVars
<1>2. PostedInv'
  BY <1>a, <1>b DEF Inv, PostedInv, SemInv, PostSync, semVars
<1>3. BegunInv'
  BY <1>a, <1>b DEF Inv, TypeOK, PostedInv, BegunInv, SemInv, CodePosted, PostSync, semVars
<1>4. \A c \in Nat : Synced(c) => Synced(c)'
  BY <1>a, <1>b DEF Inv, TypeOK, BegunInv, PostedInv, Synced, PostSync, semVars
<1>5. SemInv'
  BY <1>a, <1>b, <1>4 DEF Inv, TypeOK, PostedInv, BegunInv, SemInv, PostSync, semVars
<1>6. FramesInv'
  BY <1>a, <1>b, <1>4 DEF Inv, TypeOK, PostedInv, BegunInv, SemInv, FramesInv, FrameOK, PostSync, semVars
<1>7. ApartInv'
  BY DEF Inv, ApartInv, PostSync
<1> QED
  BY <1>1, <1>2, <1>3, <1>5, <1>6, <1>7 DEF Inv

LEMMA SyncTakenKeeps ==
    ASSUME Inv, SyncTaken
    PROVE  Inv'
<1>a. posted' = posted /\ call \in 1..MaxCalls
  BY DEF Inv, TypeOK, BegunInv, CallerPc, SyncTaken
<1>b. /\ syncSem' \in [1..MaxCalls -> Nat]
      /\ \A c \in 1..MaxCalls : syncSem'[c] <= syncSem[c]
  BY <1>a, AcquireTyped DEF Inv, TypeOK, SyncTaken, Acquire
<1>c. posted = <<>>
  BY <1>a DEF Inv, SemInv, Synced, SyncTaken, Acquire
<1>1. TypeOK'
  BY <1>a, <1>b, <1>c DEF Inv, TypeOK, CallerPc, SyncTaken
<1>2. PostedInv'
  BY <1>a, <1>b, <1>c DEF Inv, PostedInv, SemInv, SyncTaken, Acquire
<1>3. BegunInv'
  BY <1>a, <1>b, <1>c DEF Inv, TypeOK, PostedInv, BegunInv, SemInv, CodePosted, SyncTaken, Acquire
<1>4. \A c \in Nat : Synced(c) => Synced(c)'
  BY <1>a, <1>b, <1>c DEF Inv, TypeOK, BegunInv, PostedInv, Synced, SyncTaken, Acquire
<1>5. SemInv'
  BY <1>a, <1>b, <1>c, <1>4 DEF Inv, TypeOK, PostedInv, BegunInv, SemInv, SyncTaken, Acquire
<1>6. FramesInv'
  BY <1>a, <1>b, <1>c, <1>4 DEF Inv, TypeOK, PostedInv, BegunInv, SemInv, FramesInv, FrameOK, SyncTaken, Acquire
<1>7. ApartInv'
  BY DEF Inv, ApartInv, SyncTaken
<1> QED
  BY <1>1, <1>2, <1>3, <1>5, <1>6, <1>7 DEF Inv

LEMMA SyncOverKeeps ==
    ASSUME Inv, SyncOver
    PROVE  Inv'
<1>a. posted = <<>> /\ posted' = <<Event("probe", call)>>
  <2>1. posted = <<>> /\ posted' = Append(posted, Event("probe", call))
    BY DEF Inv, PostedInv, SemInv, SyncOver
  <2> QED
    BY <2>1, Tuples
<1>b. /\ posted' # <<>> /\ Head(posted').kind = "probe"
      /\ posted' \in Seq(Events)
  BY <1>a, Tuples, EventsTyped DEF Inv, TypeOK, BegunInv, SyncOver
<1>c. /\ syncSem' \in [1..MaxCalls -> Nat]
      /\ \A c \in 1..MaxCalls : syncSem'[c] <= syncSem[c]
  <2>1. call \in 1..MaxCalls
    BY DEF Inv, TypeOK, BegunInv, SyncOver
  <2>2. CASE Acquire(syncSem, call)
    BY <2>1, <2>2, AcquireTyped DEF Inv, TypeOK, Acquire
  <2>3. CASE UNCHANGED syncSem
    BY <2>3 DEF Inv, TypeOK
  <2> QED
    BY <2>2, <2>3 DEF SyncOver
<1>1. TypeOK'
  BY <1>a, <1>b, <1>c DEF Inv, TypeOK, CallerPc, SyncOver, Acquire
<1>2. PostedInv'
  BY <1>a, <1>b, <1>c DEF Inv, PostedInv, SemInv, SyncOver, Acquire
<1>3. BegunInv'
  BY <1>a, <1>b, <1>c DEF Inv, TypeOK, PostedInv, BegunInv, SemInv, CodePosted, SyncOver, Acquire
<1>4. \A c \in Nat : Synced(c) => Synced(c)'
  BY <1>a, <1>b, <1>c DEF Inv, TypeOK, BegunInv, PostedInv, Synced, SyncOver, Acquire
<1>5. SemInv'
  BY <1>a, <1>b, <1>c, <1>4 DEF Inv, TypeOK, PostedInv, BegunInv, SemInv, SyncOver, Acquire
<1>6. FramesInv'
  BY <1>a, <1>b, <1>c, <1>4 DEF Inv, TypeOK, PostedInv, BegunInv, SemInv, FramesInv, FrameOK, SyncOver, Acquire
<1>7. ApartInv'
  BY DEF Inv, ApartInv, SyncOver
<1> QED
  BY <1>1, <1>2, <1>3, <1>5, <1>6, <1>7 DEF Inv

LEMMA CompareKeeps ==
    ASSUME Inv, Compare
    PROVE  Inv'
<1>1. TypeOK'
  BY DEF Inv, TypeOK, CallerPc, Compare
<1>2. PostedInv'
  BY DEF Inv, PostedInv, SemInv, Compare
<1>3. BegunInv'
  BY DEF Inv, TypeOK, PostedInv, BegunInv, SemInv, CodePosted, Compare
<1>4. \A c \in Nat : Synced(c) => Synced(c)'
  BY DEF Inv, TypeOK, BegunInv, PostedInv, Synced, Compare
<1>5. SemInv'
  BY <1>4 DEF Inv, TypeOK, PostedInv, BegunInv, SemInv, Compare
<1>6. FramesInv'
  BY <1>4 DEF Inv, TypeOK, PostedInv, BegunInv, SemInv, FramesInv, FrameOK, Compare
<1>7. ApartInv'
  BY DEF Inv, ApartInv, Compare
<1> QED
  BY <1>1, <1>2, <1>3, <1>5, <1>6, <1>7 DEF Inv

LEMMA AskAgainKeeps ==
    ASSUME Inv, AskAgain
    PROVE  Inv'
<1>a. posted = <<>> /\ posted' = <<Event("probe", call)>>
  <2>1. posted = <<>> /\ posted' = Append(posted, Event("probe", call))
    BY DEF Inv, PostedInv, SemInv, AskAgain
  <2> QED
    BY <2>1, Tuples
<1>b. /\ posted' # <<>> /\ Head(posted').kind = "probe"
      /\ posted' \in Seq(Events)
  BY <1>a, Tuples, EventsTyped DEF Inv, TypeOK, BegunInv, AskAgain
<1>1. TypeOK'
  BY <1>a, <1>b DEF Inv, TypeOK, CallerPc, AskAgain, semVars
<1>2. PostedInv'
  BY <1>a, <1>b DEF Inv, PostedInv, SemInv, AskAgain, semVars
<1>3. BegunInv'
  BY <1>a, <1>b DEF Inv, TypeOK, PostedInv, BegunInv, SemInv, CodePosted, AskAgain, semVars
<1>4. \A c \in Nat : Synced(c) => Synced(c)'
  BY <1>a, <1>b DEF Inv, TypeOK, BegunInv, PostedInv, Synced, AskAgain, semVars
<1>5. SemInv'
  BY <1>a, <1>b, <1>4 DEF Inv, TypeOK, PostedInv, BegunInv, SemInv, AskAgain, semVars
<1>6. FramesInv'
  BY <1>a, <1>b, <1>4 DEF Inv, TypeOK, PostedInv, BegunInv, SemInv, FramesInv, FrameOK, AskAgain, semVars
<1>7. ApartInv'
  BY DEF Inv, ApartInv, AskAgain
<1> QED
  BY <1>1, <1>2, <1>3, <1>5, <1>6, <1>7 DEF Inv

LEMMA TimedReturnsKeeps ==
    ASSUME Inv, TimedReturns
    PROVE  Inv'
<1>a. posted' = posted /\ call \in 1..MaxCalls
  BY DEF Inv, TypeOK, BegunInv, CallerPc, TimedReturns
<1>b. /\ waitSem' \in [1..MaxCalls -> Nat]
      /\ \A c \in 1..MaxCalls : waitSem'[c] <= waitSem[c]
  BY <1>a, AcquireTyped DEF Inv, TypeOK, TimedReturns, Acquire
<1>1. TypeOK'
  BY <1>a, <1>b DEF Inv, TypeOK, CallerPc, TimedReturns
<1>2. PostedInv'
  BY <1>a, <1>b DEF Inv, PostedInv, SemInv, TimedReturns, Acquire
<1>3. BegunInv'
  BY <1>a, <1>b DEF Inv, TypeOK, PostedInv, BegunInv, SemInv, CodePosted, TimedReturns, Acquire
<1>4. \A c \in Nat : Synced(c) => Synced(c)'
  BY <1>a, <1>b DEF Inv, TypeOK, BegunInv, PostedInv, Synced, TimedReturns, Acquire
<1>5. SemInv'
  BY <1>a, <1>b, <1>4 DEF Inv, TypeOK, PostedInv, BegunInv, SemInv, TimedReturns, Acquire
<1>6. FramesInv'
  BY <1>a, <1>b, <1>4 DEF Inv, TypeOK, PostedInv, BegunInv, SemInv, FramesInv, FrameOK, TimedReturns, Acquire
<1>7. ApartInv'
  BY DEF Inv, ApartInv, TimedReturns
<1> QED
  BY <1>1, <1>2, <1>3, <1>5, <1>6, <1>7 DEF Inv

LEMMA GiveUpKeeps ==
    ASSUME Inv, GiveUp
    PROVE  Inv'
<1>1. TypeOK'
  BY DEF Inv, TypeOK, CallerPc, GiveUp, semVars
<1>2. PostedInv'
  BY DEF Inv, PostedInv, SemInv, GiveUp, semVars
<1>3. BegunInv'
  BY DEF Inv, TypeOK, PostedInv, BegunInv, SemInv, CodePosted, GiveUp, semVars
<1>4. \A c \in Nat : Synced(c) => Synced(c)'
  BY DEF Inv, TypeOK, BegunInv, PostedInv, Synced, GiveUp, semVars
<1>5. SemInv'
  BY <1>4 DEF Inv, TypeOK, PostedInv, BegunInv, SemInv, GiveUp, semVars
<1>6. FramesInv'
  BY <1>4 DEF Inv, TypeOK, PostedInv, BegunInv, SemInv, FramesInv, FrameOK, GiveUp, semVars
<1>7. ApartInv'
  BY DEF Inv, ApartInv, GiveUp
<1> QED
  BY <1>1, <1>2, <1>3, <1>5, <1>6, <1>7 DEF Inv

-----------------------------------------------------------------------------
(* The steps of the GUI thread *)

\* Taking an event or leaving the stack alone takes no permit back.
LEMMA SyncedStays ==
    ASSUME Inv, UNCHANGED callerVars, posted' = posted \/ posted' = <<>> \/ pc # "sync1"
    PROVE  \A c \in Nat : Synced(c) => Synced(c)'
BY DEF callerVars, Synced

LEMMA TakeProbeKeeps ==
    ASSUME Inv, TakeProbe
    PROVE  Inv'
<1>a. /\ posted # <<>> /\ posted' = <<>> /\ Head(posted).kind = "probe"
      /\ guiRunSem = 0 /\ guiRunSem' = 1 /\ pc \in {"was", "now"}
  BY HeadPosted DEF TakeProbe
<1>b. posted' \in Seq(Events) /\ ActiveModal \in Nat
  BY <1>a, EmptySeq, ActiveModalTyped DEF Inv
<1>1. TypeOK'
  BY <1>a, <1>b DEF Inv, TypeOK, TakeProbe, callerVars
<1>2. PostedInv'
  BY <1>a DEF PostedInv, TakeProbe, callerVars
<1>3. BegunInv'
  BY <1>a DEF Inv, BegunInv, CodePosted, TakeProbe, callerVars
<1>4. \A c \in Nat : Synced(c) => Synced(c)'
  BY <1>a, SyncedStays DEF TakeProbe
<1>5. SemInv'
  BY <1>a, <1>4 DEF Inv, SemInv, TakeProbe, callerVars
<1>6. FramesInv'
  BY <1>a, <1>4 DEF Inv, FramesInv, FrameOK, TakeProbe, callerVars
<1>7. ApartInv'
  BY DEF Inv, ApartInv, TakeProbe
<1> QED
  BY <1>1, <1>2, <1>3, <1>5, <1>6, <1>7 DEF Inv

LEMMA TakeCodeKeeps ==
    ASSUME Inv, TakeCode
    PROVE  Inv'
<1>k. PICK k : k = Head(posted).kind
  OBVIOUS
<1>a. /\ posted # <<>> /\ k \in {"plain", "func"} /\ guiRunSem = 0 /\ guiRunSem' = 0
      /\ Head(posted).call = call
      /\ k = "plain" => pc = "plain" /\ posted' = <<>>
      /\ k = "func" => \/ pc = "post" /\ posted' = <<>>
                       \/ pc = "sync1" /\ posted' = <<Event("sync", call)>>
  BY <1>k, HeadPosted DEF TakeCode, semVars
<1>b. begun' = call /\ begun = call - 1 /\ call \in 1..MaxCalls /\ ~CodePosted'
  <2>1. CodePosted /\ call >= 1 /\ pc \notin {"script", "was"}
    BY <1>k, <1>a DEF Inv, BegunInv, CodePosted
  <2>2. begun = call - 1 /\ call \in 1..MaxCalls /\ begun' = begun + 1
    BY <2>1, BoundsAssumption DEF Inv, BegunInv, TakeCode
  <2>3. ~CodePosted'
    BY <1>a, Tuples, EventsTyped DEF Inv, TypeOK, CodePosted
  <2> QED
    BY <2>2, <2>3
<1>c. posted' \in Seq(Events)
  BY <1>a, SeqFacts DEF Inv, TypeOK, TakeCode
<1>d. PICK f \in Frames :
        /\ f.kind = k /\ f.call = call /\ f.at = "run" /\ f.loop = 0
        /\ stack' = Append(stack, f)
  <2>1. PICK f : f = [kind |-> k, call |-> call, at |-> "run", loop |-> 0, modal |-> FALSE]
    OBVIOUS
  <2>2. f \in Frames /\ f.kind = k /\ f.call = call /\ f.at = "run" /\ f.loop = 0
    BY <1>a, <1>b, <2>1, BoundsAssumption DEF Frames
  <2>3. stack' = Append(stack, f)
    BY <1>k, <1>a, <2>1 DEF TakeCode
  <2> QED
    BY <2>2, <2>3
<1>e. /\ stack' \in Seq(Frames)
      /\ Len(stack) \in Nat /\ Len(stack') = Len(stack) + 1
      /\ \A i \in 1..Len(stack) : stack'[i] = stack[i]
      /\ stack'[Len(stack) + 1] = f
  BY <1>d, StackPushed, SeqFacts DEF Inv, TypeOK
<1>1. TypeOK'
  BY <1>b, <1>c, <1>e DEF Inv, TypeOK, TakeCode, callerVars, semVars
<1>2. PostedInv'
  BY <1>a DEF PostedInv, TakeCode, callerVars
<1>3. BegunInv'
  BY <1>a, <1>b DEF Inv, BegunInv, TakeCode, callerVars
<1>4. \A c \in Nat : Synced(c) => Synced(c)'
  <2>1. ASSUME pc = "sync1", NEW c \in Nat, Synced(c)
        PROVE  Synced(c)'
    BY <1>a, <2>1 DEF Synced, TakeCode, callerVars
  <2> QED
    BY <2>1, SyncedStays DEF TakeCode
<1>5. SemInv'
  BY <1>a, <1>4 DEF Inv, SemInv, TakeCode, callerVars, semVars
<1>6. FramesInv'
  <2>1. ASSUME NEW i \in 1..Len(stack)
        PROVE  FrameOK(stack[i])'
    <3>1. FrameOK(stack[i]) /\ stack'[i] = stack[i]
      BY <1>e DEF Inv, FramesInv
    <3>2. stack[i].kind # "plain"
      BY <1>b, <3>1 DEF FrameOK
    <3>3. stack[i].kind = "sync" => Synced(stack[i].call)'
      BY <1>4, <3>1 DEF FrameOK
    <3>4. stack[i].kind # "sync" => stack[i].call \in 1..begun'
      BY <1>b, <3>1 DEF FrameOK
    <3> QED
      BY <3>1, <3>2, <3>3, <3>4 DEF FrameOK, TakeCode
  <2>2. FrameOK(f)'
    BY <1>a, <1>b, <1>d DEF Inv, TypeOK, BegunInv, FrameOK, TakeCode, callerVars, semVars
  <2> QED
    BY <1>e, <2>1, <2>2 DEF FramesInv
<1>7. ApartInv'
  <2>1. \A i \in 1..Len(stack) : stack[i].kind # "sync" => stack[i].call # call
    BY <1>b DEF Inv, FramesInv, FrameOK
  <2> QED
    BY <1>d, <1>e, <2>1 DEF Inv, ApartInv
<1> QED
  BY <1>1, <1>2, <1>3, <1>5, <1>6, <1>7 DEF Inv

LEMMA TakeSyncKeeps ==
    ASSUME Inv, TakeSync
    PROVE  Inv'
<1>a. /\ posted # <<>> /\ posted' = <<>> /\ pc = "sync1" /\ guiRunSem = 0 /\ guiRunSem' = 0
      /\ Head(posted).kind = "sync" /\ Head(posted).call = call
  BY HeadPosted DEF TakeSync
<1>b. call \in 1..MaxCalls /\ ~CodePosted /\ ~CodePosted' /\ posted' \in Seq(Events)
  BY <1>a, BoundsAssumption, EmptySeq DEF Inv, BegunInv, CodePosted
<1>c. /\ syncSem' \in [1..MaxCalls -> Nat]
      /\ \A c \in 1..MaxCalls : c # call => syncSem'[c] = syncSem[c]
  BY <1>a, <1>b, ReleaseTyped DEF Inv, TypeOK, TakeSync, Release
<1>d. PICK f \in Frames :
        /\ f.kind = "sync" /\ f.call = call /\ f.at = "drain" /\ f.loop = 0
        /\ stack' = Append(stack, f)
  <2>1. PICK f : f = [kind |-> "sync", call |-> call, at |-> "drain", loop |-> 0,
                      modal |-> FALSE]
    OBVIOUS
  <2>2. f \in Frames /\ f.kind = "sync" /\ f.call = call /\ f.at = "drain" /\ f.loop = 0
    BY <1>a, <1>b, <2>1, BoundsAssumption DEF Frames
  <2>3. stack' = Append(stack, f)
    BY <1>a, <2>1 DEF TakeSync
  <2> QED
    BY <2>2, <2>3
<1>e. /\ stack' \in Seq(Frames)
      /\ Len(stack) \in Nat /\ Len(stack') = Len(stack) + 1
      /\ \A i \in 1..Len(stack) : stack'[i] = stack[i]
      /\ stack'[Len(stack) + 1] = f
  BY <1>d, StackPushed, SeqFacts DEF Inv, TypeOK
<1>1. TypeOK'
  BY <1>b, <1>c, <1>e DEF Inv, TypeOK, TakeSync, callerVars
<1>2. PostedInv'
  BY <1>a DEF PostedInv, TakeSync, callerVars
<1>3. BegunInv'
  BY <1>a, <1>b DEF Inv, BegunInv, TakeSync, callerVars
<1>4. /\ \A c \in Nat : Synced(c) => Synced(c)'
      /\ Synced(call)'
  <2>1. Synced(call)'
    BY <1>a, <1>b DEF Synced, TakeSync, callerVars
  <2> QED
    BY <1>a, <2>1, SyncedStays DEF TakeSync
<1>5. SemInv'
  BY <1>a, <1>c, <1>4 DEF Inv, SemInv, TakeSync, callerVars
<1>6. FramesInv'
  <2>1. ASSUME NEW i \in 1..Len(stack)
        PROVE  FrameOK(stack[i])'
    BY <1>a, <1>4, <1>e, <2>1 DEF Inv, FramesInv, FrameOK, TakeSync, callerVars
  <2>2. FrameOK(f)'
    BY <1>b, <1>d, <1>4 DEF Inv, TypeOK, FrameOK, TakeSync, callerVars
  <2> QED
    BY <1>e, <2>1, <2>2 DEF FramesInv
<1>7. ApartInv'
  BY <1>d, <1>e DEF Inv, ApartInv
<1> QED
  BY <1>1, <1>2, <1>3, <1>5, <1>6, <1>7 DEF Inv

LEMMA SyncReturnsKeeps ==
    ASSUME Inv, SyncReturns
    PROVE  Inv'
<1>a. /\ stack' \in Seq(Frames)
      /\ Len(stack) \in Nat /\ Len(stack') \in 0..Len(stack)
      /\ \A i \in 1..Len(stack') : stack'[i] = stack[i]
  BY StackPopped, TopFacts DEF Inv, SyncReturns
<1>b. Top.call \in 1..MaxCalls /\ Synced(Top.call)
  <2>1. FrameOK(Top)
    BY TopFacts DEF Inv, FramesInv, Top, SyncReturns
  <2> QED
    BY <2>1 DEF FrameOK, SyncReturns
<1>c. /\ syncSem' \in [1..MaxCalls -> Nat]
      /\ \A c \in 1..MaxCalls : c # Top.call => syncSem'[c] = syncSem[c]
  <2>1. PICK t : t = Top.call
    OBVIOUS
  <2> QED
    BY <1>b, <2>1, ReleaseTyped DEF Inv, TypeOK, SyncReturns, Release
<1>1. TypeOK'
  BY <1>a, <1>c DEF Inv, TypeOK, SyncReturns, callerVars
<1>2. PostedInv'
  BY DEF Inv, PostedInv, SyncReturns, callerVars
<1>3. BegunInv'
  BY DEF Inv, BegunInv, CodePosted, SyncReturns, callerVars
<1>4. \A c \in Nat : Synced(c) => Synced(c)'
  BY SyncedStays DEF SyncReturns
<1>5. SemInv'
  BY <1>b, <1>c, <1>4 DEF Inv, SemInv, SyncReturns, callerVars
<1>6. FramesInv'
  BY <1>a, <1>4 DEF Inv, FramesInv, FrameOK, SyncReturns, callerVars
<1>7. ApartInv'
  BY <1>a, ApartStays DEF Inv
<1> QED
  BY <1>1, <1>2, <1>3, <1>5, <1>6, <1>7 DEF Inv

\* A frame that enters or leaves an event loop is still that of its call.
LEMMA FrameChanged ==
    ASSUME Inv, NEW i \in 1..Len(stack), NEW f \in Frames,
           stack' = [stack EXCEPT ![i] = f],
           f.kind = stack[i].kind, f.call = stack[i].call,
           f.at # "drain", stack[i].at # "drain", f.loop <= loops',
           loops' \in Nat, loops <= loops',
           UNCHANGED <<callerVars, posted, guiRunSem, begun, done>>
    PROVE  stack' \in Seq(Frames) /\ FramesInv' /\ ApartInv'
<1>1. /\ stack' \in Seq(Frames)
      /\ Len(stack) \in Nat /\ Len(stack') = Len(stack)
      /\ \A j \in 1..Len(stack) : stack'[j] = IF j = i THEN f ELSE stack[j]
  BY StackSet, SeqFacts DEF Inv, TypeOK
<1>2. \A c \in Nat : Synced(c) => Synced(c)'
  BY SyncedStays
<1>3. loops \in Nat /\ \A j \in 1..Len(stack) : FrameOK(stack[j]) /\ stack[j] \in Frames
  BY SeqFacts DEF Inv, TypeOK, FramesInv
<1>4. FramesInv'
  <2>1. FrameOK(f)'
    BY <1>2, <1>3 DEF FrameOK, callerVars
  <2>2. ASSUME NEW j \in 1..Len(stack)
        PROVE  FrameOK(stack[j])'
    <3>1. CASE stack'[j] = stack[j]
      BY <1>2, <1>3, <3>1 DEF FrameOK, Frames, callerVars
    <3>2. CASE stack'[j] = f
      BY <2>1, <3>2 DEF FrameOK
    <3> QED
      BY <1>1, <3>1, <3>2
  <2> QED
    BY <1>1, <2>2 DEF FramesInv
<1>5. ApartInv'
  <2>1. \A j \in 1..Len(stack') :
          stack'[j].kind = stack[j].kind /\ stack'[j].call = stack[j].call
    BY <1>1
  <2>2. Len(stack') \in 0..Len(stack)
    BY <1>1
  <2> QED
    BY <2>1, <2>2, ApartStays DEF Inv
<1> QED
  BY <1>1, <1>4, <1>5

LEMMA EnterLoopKeeps ==
    ASSUME Inv, EnterLoop
    PROVE  Inv'
<1>a. PICK n \in 1..Len(stack) : n = Len(stack) /\ stack[n] \in Frames /\ stack[n].at = "run"
  BY TopFacts DEF Inv, EnterLoop, Top
<1>b. PICK l \in Nat : l = loops + 1 /\ loops' = l /\ loops <= l
  BY DEF Inv, TypeOK, EnterLoop
<1>c. PICK m \in BOOLEAN :
        stack' = [stack EXCEPT ![n].at = "nested", ![n].loop = l, ![n].modal = m]
  BY <1>a, <1>b DEF EnterLoop
<1>d. PICK f : f = [stack[n] EXCEPT !.at = "nested", !.loop = l, !.modal = m]
  OBVIOUS
<1>e. f \in Frames /\ f.kind = stack[n].kind /\ f.call = stack[n].call
  BY <1>a, <1>d DEF Frames
<1>f. f.at = "nested" /\ f.loop = l
  BY <1>a, <1>d DEF Frames
<1>g. stack' = [stack EXCEPT ![n] = f]
  BY <1>c, <1>d
<1>h. stack' \in Seq(Frames) /\ FramesInv' /\ ApartInv'
  <2>1. UNCHANGED <<callerVars, posted, guiRunSem, begun, done>>
    BY DEF EnterLoop, semVars
  <2>2. f.at # "drain" /\ stack[n].at # "drain" /\ f.loop <= loops' /\ loops' \in Nat
    BY <1>a, <1>b, <1>e, <1>f
  <2>3. loops <= loops'
    BY <1>b
  <2> QED
    BY <1>e, <1>g, <2>1, <2>2, <2>3, FrameChanged
<1>1. TypeOK'
  BY <1>b, <1>h DEF Inv, TypeOK, EnterLoop, callerVars, semVars
<1>2. PostedInv'
  BY DEF Inv, PostedInv, EnterLoop, callerVars
<1>3. BegunInv'
  BY DEF Inv, BegunInv, CodePosted, EnterLoop, callerVars
<1>4. \A c \in Nat : Synced(c) => Synced(c)'
  BY SyncedStays DEF EnterLoop
<1>5. SemInv'
  BY <1>4 DEF Inv, SemInv, EnterLoop, callerVars, semVars
<1> QED
  BY <1>1, <1>2, <1>3, <1>5, <1>h DEF Inv

LEMMA CloseLoopKeeps ==
    ASSUME Inv, CloseLoop
    PROVE  Inv'
<1>a. PICK n \in 1..Len(stack) :
        stack[n].at = "nested" /\ stack' = [stack EXCEPT ![n].at = "left"]
  BY DEF CloseLoop
<1>b. stack[n] \in Frames /\ FrameOK(stack[n])
  BY SeqFacts DEF Inv, TypeOK, FramesInv
<1>c. PICK f : f = [stack[n] EXCEPT !.at = "left"]
  OBVIOUS
<1>d. f \in Frames /\ f.kind = stack[n].kind /\ f.call = stack[n].call
  BY <1>b, <1>c DEF Frames
<1>e. f.at = "left" /\ f.loop = stack[n].loop
  BY <1>b, <1>c DEF Frames
<1>f. stack' = [stack EXCEPT ![n] = f]
  BY <1>a, <1>c
<1>g. loops' = loops /\ loops \in Nat /\ f.loop <= loops
  BY <1>b, <1>e DEF Inv, TypeOK, FrameOK, CloseLoop
<1>h. stack' \in Seq(Frames) /\ FramesInv' /\ ApartInv'
  <2>1. UNCHANGED <<callerVars, posted, guiRunSem, begun, done>>
    BY DEF CloseLoop, semVars
  <2>2. f.at # "drain" /\ stack[n].at # "drain" /\ f.loop <= loops' /\ loops' \in Nat
    BY <1>a, <1>d, <1>e, <1>f, <1>g
  <2>3. loops <= loops'
    BY <1>g
  <2> QED
    BY <1>d, <1>f, <2>1, <2>2, <2>3, FrameChanged
<1>1. TypeOK'
  BY <1>h DEF Inv, TypeOK, CloseLoop, callerVars, semVars
<1>2. PostedInv'
  BY DEF Inv, PostedInv, CloseLoop, callerVars
<1>3. BegunInv'
  BY DEF Inv, BegunInv, CodePosted, CloseLoop, callerVars
<1>4. \A c \in Nat : Synced(c) => Synced(c)'
  BY SyncedStays DEF CloseLoop
<1>5. SemInv'
  BY <1>4 DEF Inv, SemInv, CloseLoop, callerVars, semVars
<1> QED
  BY <1>1, <1>2, <1>3, <1>5, <1>h DEF Inv

LEMMA LoopReturnsKeeps ==
    ASSUME Inv, LoopReturns
    PROVE  Inv'
<1>a. PICK n \in 1..Len(stack) :
        stack[n].at = "left" /\ stack' = [stack EXCEPT ![n].at = "run"]
  BY TopFacts DEF Inv, LoopReturns, Top, SetTop
<1>b. stack[n] \in Frames /\ FrameOK(stack[n])
  BY SeqFacts DEF Inv, TypeOK, FramesInv
<1>c. PICK f : f = [stack[n] EXCEPT !.at = "run"]
  OBVIOUS
<1>d. f \in Frames /\ f.kind = stack[n].kind /\ f.call = stack[n].call
  BY <1>b, <1>c DEF Frames
<1>e. f.at = "run" /\ f.loop = stack[n].loop
  BY <1>b, <1>c DEF Frames
<1>f. stack' = [stack EXCEPT ![n] = f]
  BY <1>a, <1>c
<1>g. loops' = loops /\ loops \in Nat /\ f.loop <= loops
  BY <1>b, <1>e DEF Inv, TypeOK, FrameOK, LoopReturns
<1>h. stack' \in Seq(Frames) /\ FramesInv' /\ ApartInv'
  <2>1. UNCHANGED <<callerVars, posted, guiRunSem, begun, done>>
    BY DEF LoopReturns, semVars
  <2>2. f.at # "drain" /\ stack[n].at # "drain" /\ f.loop <= loops' /\ loops' \in Nat
    BY <1>a, <1>d, <1>e, <1>f, <1>g
  <2>3. loops <= loops'
    BY <1>g
  <2> QED
    BY <1>d, <1>f, <2>1, <2>2, <2>3, FrameChanged
<1>1. TypeOK'
  BY <1>h DEF Inv, TypeOK, LoopReturns, callerVars, semVars
<1>2. PostedInv'
  BY DEF Inv, PostedInv, LoopReturns, callerVars
<1>3. BegunInv'
  BY DEF Inv, BegunInv, CodePosted, LoopReturns, callerVars
<1>4. \A c \in Nat : Synced(c) => Synced(c)'
  BY SyncedStays DEF LoopReturns
<1>5. SemInv'
  BY <1>4 DEF Inv, SemInv, LoopReturns, callerVars, semVars
<1> QED
  BY <1>1, <1>2, <1>3, <1>5, <1>h DEF Inv

LEMMA CodeOverKeeps ==
    ASSUME Inv, CodeOver
    PROVE  Inv'
<1>a. PICK c \in Nat : c = Top.call
  BY TopFacts DEF Inv, CodeOver, Frames
<1>b. /\ Top.kind \in {"plain", "func"} /\ FrameOK(Top)
      /\ c \in 1..begun /\ c \notin done /\ c \in 1..MaxCalls
  <2>1. Top \in Frames /\ FrameOK(Top) /\ Top.at = "run"
    BY TopFacts DEF Inv, FramesInv, Top, CodeOver
  <2>2. Top.kind # "sync" /\ Top.kind \in {"plain", "func", "sync"}
    BY <2>1 DEF FrameOK, Frames
  <2>3. c \in 1..begun /\ c \notin done
    BY <1>a, <2>1, <2>2 DEF FrameOK
  <2>4. c \in 1..MaxCalls
    BY <2>3, BoundsAssumption DEF Inv, TypeOK, BegunInv
  <2> QED
    BY <2>1, <2>2, <2>3, <2>4
<1>c. /\ stack' \in Seq(Frames)
      /\ Len(stack) \in Nat /\ Len(stack) > 0 /\ Len(stack') = Len(stack) - 1
      /\ \A i \in 1..Len(stack') : stack'[i] = stack[i]
  BY StackPopped, SeqFacts DEF Inv, TypeOK, CodeOver
<1>d. done' = done \union {c} /\ UNCHANGED callerVars /\ posted' = posted /\ begun' = begun
  BY <1>a DEF CodeOver
<1>e. \/ Top.kind = "plain" /\ guiRunSem = 0 /\ guiRunSem' = 1 /\ waitSem' = waitSem
            /\ pc = "plain" /\ posted = <<>> /\ c = call
      \/ Top.kind = "func" /\ guiRunSem' = guiRunSem
            /\ waitSem' = [waitSem EXCEPT ![c] = @ + 1]
  BY <1>a, <1>b DEF FrameOK, CodeOver, Release
<1>f. /\ waitSem' \in [1..MaxCalls -> Nat]
      /\ \A d \in 1..MaxCalls : d # c => waitSem'[d] = waitSem[d]
  <2>1. waitSem \in [1..MaxCalls -> Nat]
    BY DEF Inv, TypeOK
  <2>2. CASE waitSem' = waitSem
    BY <2>1, <2>2
  <2>3. CASE waitSem' = [waitSem EXCEPT ![c] = @ + 1]
    BY <1>b, <2>1, <2>3, ReleaseTyped
  <2> QED
    BY <1>e, <2>2, <2>3
<1>1. TypeOK'
  <2>1. guiRunSem' \in Nat /\ done' \subseteq 1..MaxCalls
    BY <1>b, <1>d, <1>e DEF Inv, TypeOK
  <2> QED
    BY <1>c, <1>d, <1>f, <2>1 DEF Inv, TypeOK, CodeOver, callerVars
<1>2. PostedInv'
  BY <1>d DEF Inv, PostedInv, callerVars
<1>3. BegunInv'
  BY <1>b, <1>d DEF Inv, BegunInv, CodePosted, callerVars
<1>4. \A d \in Nat : Synced(d) => Synced(d)'
  BY <1>d, SyncedStays
<1>5. SemInv'
  BY <1>d, <1>e, <1>f, <1>4 DEF Inv, SemInv, CodeOver, callerVars
<1>6. FramesInv'
  <2>1. ASSUME NEW i \in 1..Len(stack')
        PROVE  FrameOK(stack[i])'
    <3>1. stack'[i] = stack[i] /\ FrameOK(stack[i])
      BY <1>c DEF Inv, FramesInv
    <3>2. stack[i].kind # "sync" => stack[i].call # c
      <4>1. i \in 1..Len(stack) /\ Len(stack) \in 1..Len(stack) /\ i # Len(stack)
        BY <1>c
      <4> QED
        BY <1>a, <1>b, <4>1 DEF Inv, ApartInv, Top
    <3>3. stack[i].kind = "plain" => guiRunSem' = 0
      BY <1>e, <3>1, <3>2 DEF FrameOK
    <3>4. stack[i].kind = "sync" => Synced(stack[i].call)'
      BY <1>4, <3>1 DEF FrameOK
    <3> QED
      BY <1>d, <3>1, <3>2, <3>3, <3>4 DEF FrameOK, CodeOver, callerVars
  <2> QED
    BY <2>1 DEF FramesInv
<1>7. ApartInv'
  BY <1>c, ApartStays DEF Inv
<1> QED
  BY <1>1, <1>2, <1>3, <1>5, <1>6, <1>7 DEF Inv

-----------------------------------------------------------------------------
(* The theorems *)

LEMMA InitKeeps ==
    ASSUME Init
    PROVE  Inv
<1>1. TypeOK
  BY EmptySeq DEF Init, TypeOK, CallerPc
<1>2. Len(stack) = 0
  BY EmptySeq DEF Init
<1>3. PostedInv /\ BegunInv /\ SemInv
  BY BoundsAssumption DEF Init, PostedInv, BegunInv, SemInv, CodePosted
<1>4. FramesInv /\ ApartInv
  BY <1>2 DEF FramesInv, ApartInv
<1> QED
  BY <1>1, <1>3, <1>4 DEF Inv

LEMMA StutterKeeps ==
    ASSUME Inv, UNCHANGED vars
    PROVE  Inv'
<1>1. TypeOK' /\ PostedInv' /\ BegunInv'
  BY DEF vars, callerVars, semVars, Inv, TypeOK, PostedInv, BegunInv, CodePosted
<1>2. \A c \in Nat : Synced(c) => Synced(c)'
  BY DEF vars, callerVars, Synced
<1>3. SemInv'
  BY <1>2 DEF vars, callerVars, semVars, Inv, SemInv
<1>4. FramesInv' /\ ApartInv'
  BY <1>2 DEF vars, callerVars, semVars, Inv, FramesInv, FrameOK, ApartInv
<1> QED
  BY <1>1, <1>3, <1>4 DEF Inv

LEMMA NextKeeps ==
    ASSUME Inv, [Next]_vars
    PROVE  Inv'
<1>1. ASSUME CallPlain \/ CallTimed \/ Caller
      PROVE  Inv'
  BY <1>1, CallPlainKeeps, CallTimedKeeps, PlainReturnsKeeps, PostFuncKeeps, PostSyncKeeps,
     SyncTakenKeeps, SyncOverKeeps, CompareKeeps, AskAgainKeeps, TimedReturnsKeeps,
     GiveUpKeeps, Zenon DEF Caller
<1>2. ASSUME Gui \/ EnterLoop \/ CloseLoop \/ CodeOver
      PROVE  Inv'
  BY <1>2, TakeProbeKeeps, TakeCodeKeeps, TakeSyncKeeps, SyncReturnsKeeps, LoopReturnsKeeps,
     EnterLoopKeeps, CloseLoopKeeps, CodeOverKeeps, Zenon DEF Gui
<1> QED
  BY <1>1, <1>2, StutterKeeps, Zenon DEF Next

\* The posted events, the semaphores and the stack of the GUI thread fit
\* together in every state, however many calls and nested loops there are.
THEOREM Invariance == Spec => []Inv
BY InitKeeps, NextKeeps, PTL DEF Spec

\* Every variable of the calls keeps its type; activeModalWidget() finds the
\* dialog that was opened last whenever one is open.
THEOREM TypeCorrect == Spec => []TypeOK
<1>1. Inv => TypeOK
  BY DEF Inv
<1> QED
  BY <1>1, Invariance, PTL

\* A release of guiRunSem_ is for the call that waits: none is left behind
\* for the runCodeInGuiThreadSync of a later command.
THEOREM NoStray == Spec => []NoStrayRelease
<1>1. Inv => NoStrayRelease
  BY DEF Inv, SemInv, NoStrayRelease
<1> QED
  BY <1>1, Invariance, PTL

LEMMA InitRefines == Init => Calls!Init
BY DEF Init, Calls!Init

LEMMA CallRefines ==
    ASSUME Inv, CallPlain \/ CallTimed
    PROVE  Calls!Call
<1>1. CASE CallPlain
  BY <1>1 DEF CallPlain, Calls!Call
<1>2. CASE CallTimed
  BY <1>2 DEF CallTimed, Calls!Call
<1> QED
  BY <1>1, <1>2

LEMMA ReturnRefines ==
    ASSUME Inv, PlainReturns \/ TimedReturns \/ GiveUp
    PROVE  Calls!Return
<1>1. CASE PlainReturns
  <2>1. call \in done
    BY <1>1 DEF Inv, SemInv, PlainReturns
  <2> QED
    BY <1>1, <2>1 DEF PlainReturns, Calls!Return
<1>2. CASE TimedReturns
  <2>1. call \in done
    BY <1>2 DEF Inv, TypeOK, BegunInv, SemInv, TimedReturns, Acquire
  <2> QED
    BY <1>2, <2>1 DEF TimedReturns, Calls!Return
<1>3. CASE GiveUp
  <2>1. timed /\ call <= begun
    BY <1>3 DEF Inv, PostedInv, BegunInv, CodePosted, GiveUp
  <2> QED
    BY <1>3, <2>1 DEF GiveUp, Calls!Return
<1> QED
  BY <1>1, <1>2, <1>3

LEMMA BeginRefines ==
    ASSUME Inv, TakeCode
    PROVE  Calls!Begin
<1>1. begun < call
  BY HeadPosted DEF Inv, BegunInv, CodePosted, TakeCode
<1> QED
  BY <1>1 DEF TakeCode, callerVars, Calls!Begin

LEMMA FinishRefines ==
    ASSUME Inv, CodeOver
    PROVE  Calls!Finish
<1>1. Top.call \in 1..begun /\ Top.call \notin done
  <2>1. FrameOK(Top) /\ Top \in Frames
    BY TopFacts DEF Inv, FramesInv, Top, CodeOver
  <2> QED
    BY <2>1 DEF FrameOK, CodeOver
<1> QED
  BY <1>1 DEF CodeOver, callerVars, Calls!Finish

LEMMA NextRefines ==
    ASSUME Inv, [Next]_vars
    PROVE  [Calls!Next]_Calls!specVars
<1>1. CASE PostFunc \/ PostSync \/ SyncTaken \/ SyncOver \/ Compare \/ AskAgain
  BY <1>1 DEF PostFunc, PostSync, SyncTaken, SyncOver, Compare, AskAgain, Calls!specVars
<1>2. CASE TakeProbe \/ TakeSync \/ SyncReturns \/ LoopReturns \/ EnterLoop \/ CloseLoop
  BY <1>2 DEF TakeProbe, TakeSync, SyncReturns, LoopReturns, EnterLoop, CloseLoop,
              callerVars, Calls!specVars
<1>3. CASE UNCHANGED vars
  BY <1>3 DEF vars, callerVars, Calls!specVars
<1> QED
  BY <1>1, <1>2, <1>3, CallRefines, ReturnRefines, BeginRefines, FinishRefines, Zenon
  DEF Next, Caller, Gui, Calls!Next

\* The calls keep the promise of GuiCallSpec: their code is begun once and in
\* order, a call comes back with its code over, and the timeout only gives up
\* a call whose code was begun.
THEOREM Refinement == Spec => CallsSpec
BY Invariance, InitRefines, NextRefines, PTL DEF Spec, CallsSpec, Calls!Spec
=============================================================================
