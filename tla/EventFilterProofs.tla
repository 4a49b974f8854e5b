------------------------- MODULE EventFilterProofs -------------------------
(***************************************************************************)
(* Theorems about EventFilter, for all keys, trees, models and bounds.     *)
(*                                                                         *)
(* A step of the keyboard leaves the mouse and the watchers alone, and     *)
(* the other way round: each half has an invariant of its own.             *)
(***************************************************************************)
EXTENDS EventFilter, TLAPS, FiniteSetTheorems, SequenceTheorems

-----------------------------------------------------------------------------
(* The keyboard *)

\* The last event is a press only as long as a key of it is down, and a press
\* is delivered again only as long as its key is down.
LastInv ==
    /\ lastKeyEvent[1] = "press" => \E d \in down : strokes[d] = lastKeyEvent[2]
    /\ delivered[1] = "press" /\ delivered[2] # 0 => delivered[2] \in down

\* The counters may differ only when the last event is a press.
CountInv == lastKeyEvent[1] # "press" => keyPress = keyRelease

KeyInv == LastInv /\ CountInv /\ PressRecorded

LEMMA SeqOfMore ==
    ASSUME NEW m \in Nat, NEW n \in Nat, m <= n, NEW q \in Seq(1..m)
    PROVE  q \in Seq(1..n)
<1>1. PICK k \in Nat : q \in [1..k -> 1..m]
  BY SeqDef
<1>2. q \in [1..k -> 1..n]
  BY <1>1
<1> QED
  BY <1>2, SeqDef

\* What was recorded stays recorded.
Kept ==
    \A r : (\E i \in 1..Len(recorded) : recorded[i] = r) =>
               \E i \in 1..Len(recorded') : recorded'[i] = r

\* What was recorded stays recorded, and with this s may be.
LEMMA EmitAppends ==
    ASSUME KeyTypeOK, NEW n \in Nat, Len(strokes) <= n, NEW s \in 1..n,
           NEW type, NEW k, Emit(type, s, k)
    PROVE  /\ recorded' \in Seq(1..n)
           /\ Kept
           /\ k \notin Modifiers /\ k # ShowKey =>
                  \E i \in 1..Len(recorded') : recorded'[i] = s
<1>1. strokes \in Seq(Keys) /\ recorded \in Seq(1..Len(strokes)) /\ Len(strokes) \in Nat
  BY LenProperties DEF KeyTypeOK
<1>2. recorded \in Seq(1..n)
  BY <1>1, SeqOfMore
<1>3. CASE recorded' = recorded /\ (k \in Modifiers \/ k = ShowKey)
  BY <1>2, <1>3 DEF Kept
<1>4. CASE recorded' = Append(recorded, s)
  <2>1. recorded' \in Seq(1..n) /\ Len(recorded') = Len(recorded) + 1
        /\ recorded'[Len(recorded) + 1] = s
    BY <1>2, <1>4, AppendProperties
  <2>2. \A i \in 1..Len(recorded) : recorded'[i] = recorded[i]
    BY <1>2, <1>4, AppendProperties
  <2>3. Len(recorded) \in Nat
    BY <1>2, LenProperties
  <2>4. \E i \in 1..Len(recorded') : recorded'[i] = s
    BY <2>1, <2>3
  <2>5. ASSUME NEW r, NEW i \in 1..Len(recorded), recorded[i] = r
        PROVE  \E j \in 1..Len(recorded') : recorded'[j] = r
    BY <2>1, <2>2, <2>3, <2>5
  <2> QED
    BY <2>1, <2>4, <2>5 DEF Kept
<1> QED
  BY <1>3, <1>4 DEF Emit

\* What the event filter does with any event of the keyboard.
LEMMA FilterStep ==
    ASSUME KeyTypeOK, NEW n \in Nat, Len(strokes) <= n, NEW s \in 1..n,
           NEW type \in Types, NEW k \in Keys, EventFilter(type, s, k)
    PROVE  /\ lastKeyEvent' = <<type, k>>
           /\ keyFresh' \in BOOLEAN /\ keyPress' \in Nat /\ keyRelease' \in Nat
           /\ skipped' \subseteq skipped \cup {s}
           /\ CountInv => CountInv'
           /\ recorded' \in Seq(1..n)
           /\ Kept
           /\ type = "press" /\ ~Saw("press", k) /\ k \notin Modifiers /\ k # ShowKey =>
                  \E i \in 1..Len(recorded') : recorded'[i] = s
<1>1. strokes \in Seq(Keys) /\ recorded \in Seq(1..Len(strokes)) /\ Len(strokes) \in Nat
      /\ keyFresh \in BOOLEAN /\ keyPress \in Nat /\ keyRelease \in Nat
  BY LenProperties DEF KeyTypeOK
<1>2. recorded \in Seq(1..n)
  BY <1>1, SeqOfMore
<1>3. CASE Repeated(type, s, k)
  BY <1>1, <1>2, <1>3 DEF Repeated, Saw, filterVars, CountInv, Kept
<1>4. CASE type = "press" /\ NewPress(s, k)
  <2>1. /\ lastKeyEvent' = <<"press", k>> /\ keyFresh' = TRUE
        /\ keyPress' = keyPress + 1 /\ keyRelease' = keyRelease /\ skipped' = skipped
        /\ Emit("press", s, k)
    BY <1>4 DEF NewPress, Remember
  <2>2. recorded' \in Seq(1..n)
    BY <2>1, EmitAppends
  <2>5. Kept
    BY <2>1, EmitAppends
  <2>6. k \notin Modifiers /\ k # ShowKey =>
            \E i \in 1..Len(recorded') : recorded'[i] = s
    BY <2>1, EmitAppends
  <2>3. CountInv'
    BY <2>1 DEF CountInv
  <2>4. keyPress' \in Nat /\ keyRelease' \in Nat /\ keyFresh' \in BOOLEAN
    BY <1>1, <2>1
  <2> QED
    BY <1>4, <2>1, <2>2, <2>3, <2>4, <2>5, <2>6
<1>5. CASE type = "release" /\ SeenViaPress(s, k)
  <2>1. keyRelease' = keyPress /\ keyPress' = keyPress /\ recorded' = recorded
    BY <1>1, <1>5 DEF SeenViaPress
  <2> QED
    BY <1>1, <1>2, <1>5, <2>1 DEF SeenViaPress, Remember, CountInv, Kept
<1>6. CASE type = "release" /\ OnlyRelease(s, k)
  BY <1>1, <1>6, EmitAppends DEF OnlyRelease, Remember, CountInv
<1> QED
  BY <1>3, <1>4, <1>5, <1>6 DEF EventFilter

\* The types of the keyboard's half
LEMMA KeyTypeStep ==
    ASSUME KeyTypeOK, [Keyboard]_keyVars
    PROVE  KeyTypeOK'
<1> DEFINE N == Len(strokes)
<1>1. strokes \in Seq(Keys) /\ recorded \in Seq(1..N) /\ N \in Nat
  BY LenProperties DEF KeyTypeOK
<1>2. ASSUME NEW k \in Keys, KeyDown(k)
      PROVE  KeyTypeOK'
  <2>1. strokes' \in Seq(Keys) /\ Len(strokes') = N + 1
    BY <1>1, <1>2, AppendProperties DEF KeyDown
  <2>2. recorded \in Seq(1..N + 1)
    BY <1>1, SeqOfMore
  <2>3. 1..N \subseteq 1..N + 1 /\ N + 1 \in 1..N + 1 /\ N + 1 \in Nat /\ N <= N + 1
    BY <1>1
  <2>4. down' \subseteq 1..N + 1
    BY <1>2, <2>3 DEF KeyDown, KeyTypeOK
  <2>5. disturbed' \subseteq 1..N + 1
    BY <1>2, <2>3 DEF KeyDown, KeyTypeOK
  <2>6. CASE UNCHANGED <<filterVars, visible>> /\ delivered' = <<"press", 0>>
    <3>1. visible' \subseteq 1..N + 1 /\ skipped' \subseteq 1..N + 1 /\ delivered' \in Types \X (0..N + 1)
      BY <1>1, <2>3, <2>6 DEF KeyTypeOK, Types, filterVars
    <3> QED
      BY <1>2, <2>1, <2>2, <2>4, <2>5, <2>6, <3>1 DEF KeyTypeOK, KeyDown, filterVars
  <2>7. CASE /\ EventFilter("press", N + 1, k)
             /\ visible' = visible \cup {N + 1}
             /\ delivered' = <<"press", N + 1>>
    <3>1. /\ lastKeyEvent' = <<"press", k>>
          /\ keyFresh' \in BOOLEAN /\ keyPress' \in Nat /\ keyRelease' \in Nat
          /\ skipped' \subseteq skipped \cup {N + 1}
          /\ recorded' \in Seq(1..N + 1)
      BY <1>1, <2>3, <2>7, FilterStep DEF Types
    <3>2. visible' \subseteq 1..N + 1 /\ skipped' \subseteq 1..N + 1 /\ delivered' \in Types \X (0..N + 1)
      <4>1. visible \subseteq 1..N /\ skipped \subseteq 1..N
        BY DEF KeyTypeOK
      <4> QED
        <5>1. visible' \subseteq 1..N + 1
          BY <2>3, <2>7, <4>1
        <5>2. skipped' \subseteq 1..N + 1
          BY <2>3, <3>1, <4>1
        <5>3. <<"press", N + 1>> \in Types \X (0..N + 1)
          BY <1>1 DEF Types
        <5> QED
          BY <2>7, <5>1, <5>2, <5>3
    <3> QED
      BY <1>2, <2>1, <2>4, <2>5, <3>1, <3>2 DEF KeyTypeOK, KeyDown, Types
  <2> QED
    BY <1>2, <2>6, <2>7 DEF KeyDown
<1>3. ASSUME NEW type \in Types, NEW s \in 1..N, EventFilter(type, s, strokes[s])
      PROVE  /\ lastKeyEvent' \in (Types \cup {"none"}) \X Keys
             /\ keyFresh' \in BOOLEAN /\ keyPress' \in Nat /\ keyRelease' \in Nat
             /\ skipped' \subseteq 1..N
             /\ recorded' \in Seq(1..N)
  <2>1. strokes[s] \in Keys
    BY <1>1, ElementOfSeq
  <2>2. /\ lastKeyEvent' = <<type, strokes[s]>>
        /\ keyFresh' \in BOOLEAN /\ keyPress' \in Nat /\ keyRelease' \in Nat
        /\ skipped' \subseteq skipped \cup {s}
        /\ recorded' \in Seq(1..N)
    BY <1>1, <1>3, <2>1, FilterStep
  <2> QED
    BY <2>1, <2>2 DEF KeyTypeOK
<1>4. ASSUME NEW s \in down, KeyUp(s)
      PROVE  KeyTypeOK'
  <2>1. s \in 1..N
    BY DEF KeyTypeOK
  <2>2. delivered' \in Types \X (0..N)
    BY <1>1, <1>4, <2>1 DEF KeyUp, Types
  <2>3. EventFilter("release", s, strokes[s]) /\ "release" \in Types
    BY <1>4 DEF KeyUp, Types
  <2> QED
    BY <1>3, <1>4, <2>1, <2>2, <2>3 DEF KeyTypeOK, KeyUp
<1>5. ASSUME DeliverAgain
      PROVE  KeyTypeOK'
  <2>1. delivered[1] \in Types /\ delivered[2] \in 1..N
    BY <1>1, <1>5 DEF DeliverAgain, KeyTypeOK
  <2>2. late' \in Nat /\ disturbed' \subseteq 1..N
    <3>1. late \in Nat /\ disturbed \subseteq 1..N
      BY DEF KeyTypeOK
    <3>2. \/ late' = late /\ disturbed' = disturbed
          \/ late' = late + 1 /\ disturbed' = disturbed \cup {delivered[2]}
      BY <1>5 DEF DeliverAgain
    <3>3. late' \in Nat
      BY <3>1, <3>2
    <3>4. {delivered[2]} \subseteq 1..N
      BY <2>1
    <3>5. disturbed' \subseteq 1..N
      BY <3>1, <3>2, <3>4
    <3> QED
      BY <3>3, <3>5
  <2> QED
    BY <1>3, <1>5, <2>1, <2>2 DEF KeyTypeOK, DeliverAgain
<1>6. ASSUME KeyTimeout
      PROVE  KeyTypeOK'
  BY <1>6 DEF KeyTimeout, KeyTypeOK, userVars
<1>7. ASSUME UNCHANGED keyVars
      PROVE  KeyTypeOK'
  BY <1>7 DEF keyVars, filterVars, userVars, KeyTypeOK
<1> QED
  BY <1>2, <1>4, <1>5, <1>6, <1>7 DEF Keyboard, Key, KeyStep

LEMMA KeyInvStep ==
    ASSUME KeyTypeOK, KeyInv, [Keyboard]_keyVars
    PROVE  KeyInv'
<1> DEFINE N == Len(strokes)
<1>1. strokes \in Seq(Keys) /\ N \in Nat /\ down \subseteq 1..N /\ visible \subseteq 1..N
  BY LenProperties DEF KeyTypeOK
<1>2. ASSUME NEW k \in Keys, KeyDown(k)
      PROVE  KeyInv'
  <2>1. /\ strokes' \in Seq(Keys) /\ Len(strokes') = N + 1
        /\ strokes'[N + 1] = k
        /\ \A s \in 1..N : strokes'[s] = strokes[s]
    BY <1>1, <1>2, AppendProperties DEF KeyDown
  <2>2. N + 1 \in 1..N + 1 /\ N + 1 \in Nat /\ N <= N + 1
    BY <1>1
  <2>3. /\ down' = down \cup {N + 1}
        /\ \A d \in down : strokes[d] # k
        /\ \A d \in down : strokes'[d] = strokes[d]
    BY <1>1, <1>2, <2>1 DEF KeyDown
  <2>4. CASE UNCHANGED <<filterVars, visible>> /\ delivered' = <<"press", 0>>
    <3>1. LastInv'
      BY <2>3, <2>4 DEF KeyInv, LastInv, filterVars
    <3>2. PressRecorded'
      BY <1>1, <2>1, <2>4 DEF KeyInv, PressRecorded, filterVars
    <3> QED
      BY <2>4, <3>1, <3>2 DEF KeyInv, CountInv, filterVars
  <2>5. CASE /\ EventFilter("press", N + 1, k)
             /\ visible' = visible \cup {N + 1}
             /\ delivered' = <<"press", N + 1>>
    <3>1. ~Saw("press", k)
      BY <2>3 DEF Saw, KeyInv, LastInv
    <3>2. lastKeyEvent' = <<"press", k>> /\ (CountInv => CountInv')
      BY <2>2, <2>5, FilterStep DEF Types
    <3>3. Kept
      BY <2>2, <2>5, FilterStep DEF Types
    <3>4. k \notin Modifiers /\ k # ShowKey =>
              \E i \in 1..Len(recorded') : recorded'[i] = N + 1
      BY <2>2, <2>5, <3>1, FilterStep DEF Types
    <3>5. LastInv'
      BY <2>1, <2>3, <2>5, <3>2 DEF LastInv
    <3>6. PressRecorded'
      <4>1. ASSUME NEW s \in visible', strokes'[s] \notin Modifiers, strokes'[s] # ShowKey
            PROVE  \E i \in 1..Len(recorded') : recorded'[i] = s
        <5>1. CASE s = N + 1
          BY <2>1, <3>4, <4>1, <5>1
        <5>2. CASE s \in visible
          <6>1. strokes'[s] = strokes[s]
            BY <1>1, <2>1, <5>2
          <6>2. \E i \in 1..Len(recorded) : recorded[i] = s
            BY <4>1, <5>2, <6>1 DEF KeyInv, PressRecorded
          <6> QED
            BY <3>3, <6>2 DEF Kept
        <5> QED
          BY <2>5, <5>1, <5>2
      <4> QED
        BY <4>1 DEF PressRecorded
    <3> QED
      BY <3>2, <3>5, <3>6 DEF KeyInv
  <2> QED
    BY <1>2, <2>4, <2>5 DEF KeyDown
<1>3. ASSUME NEW type \in Types, NEW s \in 1..N, EventFilter(type, s, strokes[s]),
             UNCHANGED <<strokes, visible>>
      PROVE  /\ lastKeyEvent' = <<type, strokes[s]>>
             /\ CountInv'
             /\ PressRecorded'
  <2>1. strokes[s] \in Keys
    BY <1>1, ElementOfSeq
  <2>2. lastKeyEvent' = <<type, strokes[s]>>
    BY <1>1, <1>3, <2>1, FilterStep
  <2>5. CountInv => CountInv'
    BY <1>1, <1>3, <2>1, FilterStep
  <2>3. Kept
    BY <1>1, <1>3, <2>1, FilterStep
  <2>4. PressRecorded'
    BY <1>3, <2>3 DEF KeyInv, PressRecorded, Kept
  <2> QED
    BY <2>2, <2>4, <2>5 DEF KeyInv
<1>4. ASSUME NEW s \in down, KeyUp(s)
      PROVE  KeyInv'
  <2>1. s \in 1..N /\ "release" \in Types
    BY <1>1 DEF Types
  <2>2. lastKeyEvent' = <<"release", strokes[s]>> /\ CountInv' /\ PressRecorded'
    BY <1>3, <1>4, <2>1 DEF KeyUp
  <2>3. LastInv'
    BY <1>4, <2>2 DEF KeyUp, LastInv
  <2> QED
    BY <2>2, <2>3 DEF KeyInv
<1>5. ASSUME DeliverAgain
      PROVE  KeyInv'
  <2>1. delivered[1] \in Types /\ delivered[2] \in 1..N
    BY <1>1, <1>5 DEF DeliverAgain, KeyTypeOK
  <2>2. lastKeyEvent' = <<delivered[1], strokes[delivered[2]]>> /\ CountInv' /\ PressRecorded'
    BY <1>3, <1>5, <2>1 DEF DeliverAgain
  <2>3. LastInv'
    BY <1>5, <2>1, <2>2 DEF DeliverAgain, KeyInv, LastInv
  <2> QED
    BY <2>2, <2>3 DEF KeyInv
<1>6. ASSUME KeyTimeout
      PROVE  KeyInv'
  BY <1>6 DEF KeyTimeout, KeyInv, LastInv, CountInv, PressRecorded, userVars
<1>7. ASSUME UNCHANGED keyVars
      PROVE  KeyInv'
  BY <1>7 DEF keyVars, filterVars, userVars, KeyInv, LastInv, CountInv, PressRecorded
<1> QED
  BY <1>2, <1>4, <1>5, <1>6, <1>7 DEF Keyboard, Key, KeyStep

-----------------------------------------------------------------------------
(* The mouse *)

LEMMA MouseTypeStep ==
    ASSUME MouseTypeOK, [Mouse]_vars
    PROVE  MouseTypeOK'
<1> DEFINE N == Len(clicks)
<1>1. clicks \in Seq(Clicks) /\ N \in Nat /\ emitted \in Seq(1..N) /\ lateClicks \in Seq(1..N)
  BY LenProperties DEF MouseTypeOK
<1>2. ASSUME NEW i, NEW c \in Clicks, Filter(i, c)
      PROVE  /\ lastMouseEvent' = <<>> \/ lastMouseEvent' \in Clicks \X Names
             /\ mouseFresh' \in BOOLEAN
             /\ emitted' = emitted \/ emitted' = Append(emitted, i)
  <2>1. CASE RepeatedClick(c)
    BY <2>1 DEF RepeatedClick, lastVars, MouseTypeOK
  <2>2. CASE NewClick(i, c)
    <3>1. lastMouseEvent' \in Clicks \X Names
      BY <2>2 DEF NewClick, Names
    <3> QED
      BY <2>2, <3>1 DEF NewClick
  <2> QED
    BY <1>2, <2>1, <2>2 DEF Filter
<1>3. ASSUME NEW q \in Seq(1..N), N \in 1..N
      PROVE  Append(q, N) \in Seq(1..N)
  BY <1>3, AppendProperties
<1>4. ASSUME Click
      PROVE  MouseTypeOK'
  <2>1. PICK c \in Clicks : ButtonDown(c) /\ Filter(N + 1, c)
    BY <1>4 DEF Click
  <2>2. clicks' \in Seq(Clicks) /\ Len(clicks') = N + 1 /\ clicks' # <<>>
    BY <1>1, <2>1, AppendProperties DEF ButtonDown
  <2>3. N + 1 \in 1..N + 1 /\ N + 1 \in Nat /\ N <= N + 1
    BY <1>1
  <2>4. emitted \in Seq(1..N + 1) /\ lateClicks \in Seq(1..N + 1)
    BY <1>1, <2>3, SeqOfMore
  <2>5. emitted' = emitted \/ emitted' = Append(emitted, N + 1)
    BY <1>2, <2>1
  <2>6. emitted' \in Seq(1..N + 1)
    BY <2>3, <2>4, <2>5, AppendProperties
  <2>7. lastMouseEvent' = <<>> \/ lastMouseEvent' \in Clicks \X Names
    BY <1>2, <2>1
  <2>8. mouseFresh' \in BOOLEAN
    BY <1>2, <2>1
  <2>9. pressed' \subseteq Buttons /\ delivering' = TRUE /\ lateClicks' = lateClicks
    BY <2>1 DEF ButtonDown, Clicks
  <2> QED
    BY <2>2, <2>4, <2>6, <2>7, <2>8, <2>9 DEF MouseTypeOK
<1>5. ASSUME ClickAgain
      PROVE  MouseTypeOK'
  <2>1. DeliverLater /\ Filter(N, clicks[N])
    BY <1>5 DEF ClickAgain
  <2>2. N \in 1..N /\ clicks[N] \in Clicks
    <3>1. clicks # <<>>
      BY <2>1 DEF DeliverLater, MouseTypeOK
    <3>2. N # 0
      BY <1>1, <3>1, EmptySeq
    <3> QED
      BY <1>1, <3>2, ElementOfSeq
  <2>3. emitted' = emitted \/ emitted' = Append(emitted, N)
    BY <1>2, <2>1, <2>2
  <2>4. emitted' \in Seq(1..N)
    BY <1>1, <1>3, <2>2, <2>3
  <2>5. lateClicks' = lateClicks \/ lateClicks' = Append(lateClicks, N)
    BY <2>1 DEF DeliverLater
  <2>6. lateClicks' \in Seq(1..N)
    BY <1>1, <1>3, <2>2, <2>5
  <2>7. lastMouseEvent' = <<>> \/ lastMouseEvent' \in Clicks \X Names
    BY <1>2, <2>1, <2>2
  <2>8. mouseFresh' \in BOOLEAN
    BY <1>2, <2>1, <2>2
  <2>9. UNCHANGED <<clicks, pressed, delivering>>
    BY <2>1 DEF DeliverLater
  <2> QED
    BY <2>4, <2>6, <2>7, <2>8, <2>9 DEF MouseTypeOK
<1>6. ASSUME NEW b \in Buttons, ButtonUp(b)
      PROVE  MouseTypeOK'
  BY <1>6 DEF ButtonUp, MouseTypeOK
<1>7. ASSUME MouseTimeout
      PROVE  MouseTypeOK'
  BY <1>7 DEF MouseTimeout, MouseTypeOK
<1>8. ASSUME UNCHANGED mouseVars
      PROVE  MouseTypeOK'
  BY <1>8 DEF mouseVars, lastVars, MouseTypeOK
<1> QED
  BY <1>4, <1>5, <1>6, <1>7, <1>8 DEF Mouse, MouseStep, Swap, Signal, vars

-----------------------------------------------------------------------------
(* The watchers *)

EntriesOf(v) == {m \in Models : modelToView[m] = v}

\* A tree in one of the sets has its signal destroyed connected, a view at
\* least once for each of its entries: with fewer connections an entry would
\* outlive the view.
ConnectedInv ==
    /\ \A t \in viewSet \cup widgetSet : destroyedOf[t] > 0
    /\ \A v \in TreeViews :
           IsFiniteSet(EntriesOf(v)) /\ Cardinality(EntriesOf(v)) <= destroyedOf[v]

\* As long as each view has a model of its own, the entry of a watched view is
\* under that model, and what is connected is in the sets.
OwnInv ==
    ownModels =>
        /\ Distinct(model)
        /\ ~aborted /\ ~misnamed
        /\ \A m \in Models : modelToView[m] # NoView => model[modelToView[m]] = m
        /\ \A v \in expandedOf \cap TreeViews : v \in viewSet /\ modelToView[model[v]] = v
        /\ expandedOf \cap TreeWidgets \subseteq widgetSet

WatchInv == NoDangling /\ ConnectedInv /\ OwnInv

\* A step of the watchers and of the application
WatchStep ==
    \/ \E t \in Trees : Watch(t) \/ Expand(t) \/ Destroy(t)
    \/ \E v \in TreeViews, m \in Models : SetModel(v, m)

LEMMA MouseIsWatchStep ==
    ASSUME WatchTypeOK, [Mouse]_vars
    PROVE  WatchStep \/ UNCHANGED watchVars
<1>1. ASSUME NEW i, NEW c, Filter(i, c)
      PROVE  WatchStep \/ UNCHANGED watchVars
  <2>1. Watch(c.place) => c.place \in Trees
    BY DEF Watch, WatchTypeOK
  <2> QED
    BY <1>1, <2>1 DEF Filter, WatchStep
<1>2. CASE Click
  BY <1>1, <1>2 DEF Click
<1>3. CASE ClickAgain
  BY <1>1, <1>3 DEF ClickAgain
<1>4. CASE Swap \/ Signal
  BY <1>4 DEF Swap, Signal, WatchStep
<1>5. CASE UNCHANGED watchVars
  BY <1>5
<1> QED
  BY <1>2, <1>3, <1>4, <1>5 DEF Mouse, vars

LEMMA WatchTypeStep ==
    ASSUME WatchTypeOK, WatchStep
    PROVE  WatchTypeOK'
<1>1. ASSUME NEW t \in Trees, Watch(t)
      PROVE  WatchTypeOK'
  <2>1. CASE t \in TreeViews
    <3>1. WatchView(t) /\ UNCHANGED <<appVars, aborted, misnamed>>
      BY <1>1, <2>1 DEF Watch
    <3>2. viewSet' \subseteq TreeViews /\ widgetSet' = widgetSet
      BY <2>1, <3>1 DEF WatchView, WatchTypeOK
    <3>3. modelToView' \in [Models -> TreeViews \cup {NoView}]
      BY <2>1, <3>1 DEF WatchView, WatchTypeOK
    <3>4. expandedOf' \subseteq Trees
      BY <3>1 DEF WatchView, WatchTypeOK, Connect
    <3>5. destroyedOf' \in [Trees -> Nat]
      BY <3>1 DEF WatchView, WatchTypeOK, Connect
    <3> QED
      BY <3>1, <3>2, <3>3, <3>4, <3>5 DEF WatchTypeOK, appVars
  <2>2. CASE t \in TreeWidgets /\ t \notin TreeViews
    <3>1. WatchWidget(t) /\ UNCHANGED <<appVars, aborted, misnamed>>
      BY <1>1, <2>2 DEF Watch
    <3>2. widgetSet' \subseteq TreeWidgets /\ viewSet' = viewSet /\ modelToView' = modelToView
      BY <2>2, <3>1 DEF WatchWidget, WatchTypeOK
    <3>3. expandedOf' \subseteq Trees
      BY <3>1 DEF WatchWidget, WatchTypeOK, Connect
    <3>4. destroyedOf' \in [Trees -> Nat]
      BY <3>1 DEF WatchWidget, WatchTypeOK, Connect
    <3> QED
      BY <3>1, <3>2, <3>3, <3>4 DEF WatchTypeOK, appVars
  <2> QED
    BY <2>1, <2>2 DEF Trees
<1>2. ASSUME NEW t \in Trees, Expand(t)
      PROVE  WatchTypeOK'
  <2>1. CASE t \in TreeViews
    BY <1>2, <2>1 DEF Expand, ViewExpanded, watchSets, appVars, WatchTypeOK
  <2>2. CASE t \notin TreeViews
    BY <1>2, <2>2 DEF Expand, WidgetExpanded, watchSets, appVars, WatchTypeOK
  <2> QED
    BY <2>1, <2>2
<1>3. ASSUME NEW t \in Trees, Destroy(t)
      PROVE  WatchTypeOK'
  <2>1. destroyedOf' \in [Trees -> Nat] /\ expandedOf' \subseteq Trees /\ alive' \subseteq Trees
    BY <1>3 DEF Destroy, WatchTypeOK
  <2>2. CASE t \in TreeViews
    <3>1. viewSet' \subseteq TreeViews /\ widgetSet' = widgetSet
      BY <1>3, <2>2 DEF Destroy, ForgetView, WatchTypeOK
    <3>2. PICK gone : modelToView' = [m \in Models |-> IF m \in gone THEN NoView ELSE modelToView[m]]
      BY <1>3, <2>2 DEF Destroy, ForgetView
    <3>3. modelToView' \in [Models -> TreeViews \cup {NoView}]
      BY <3>2 DEF WatchTypeOK
    <3> QED
      BY <1>3, <2>1, <3>1, <3>3 DEF Destroy, WatchTypeOK
  <2>3. CASE t \notin TreeViews
    BY <1>3, <2>1, <2>3 DEF Destroy, ForgetWidget, WatchTypeOK
  <2> QED
    BY <2>2, <2>3
<1>4. ASSUME NEW v \in TreeViews, NEW m \in Models, SetModel(v, m)
      PROVE  WatchTypeOK'
  BY <1>4 DEF SetModel, watchSets, WatchTypeOK
<1> QED
  BY <1>1, <1>2, <1>3, <1>4 DEF WatchStep

LEMMA OneMore ==
    ASSUME NEW S, NEW x, IsFiniteSet(S), NEW T \in SUBSET (S \cup {x})
    PROVE  /\ Cardinality(S) \in Nat
           /\ IsFiniteSet(T) /\ Cardinality(T) \in Nat
           /\ Cardinality(T) <= Cardinality(S) + 1
<1>1. Cardinality(S) \in Nat /\ IsFiniteSet(S \cup {x})
      /\ (Cardinality(S \cup {x}) = Cardinality(S) \/ Cardinality(S \cup {x}) = Cardinality(S) + 1)
  BY FS_AddElement, FS_CardinalityType
<1>2. IsFiniteSet(T) /\ Cardinality(T) <= Cardinality(S \cup {x})
  BY <1>1, FS_Subset
<1>3. Cardinality(T) \in Nat
  BY <1>2, FS_CardinalityType
<1> QED
  BY <1>1, <1>2, <1>3

\* Fewer entries and not fewer connections
LEMMA EntriesShrink ==
    ASSUME WatchTypeOK, ConnectedInv, NEW v \in TreeViews,
           EntriesOf(v)' \subseteq EntriesOf(v), destroyedOf'[v] = destroyedOf[v]
    PROVE  IsFiniteSet(EntriesOf(v)') /\ Cardinality(EntriesOf(v)') <= destroyedOf'[v]
<1>1. IsFiniteSet(EntriesOf(v)) /\ Cardinality(EntriesOf(v)) <= destroyedOf[v]
  BY DEF ConnectedInv
<1>2. IsFiniteSet(EntriesOf(v)') /\ Cardinality(EntriesOf(v)') <= Cardinality(EntriesOf(v))
  BY <1>1, FS_Subset
<1>3. Cardinality(EntriesOf(v)') \in Nat /\ Cardinality(EntriesOf(v)) \in Nat
  BY <1>1, <1>2, FS_CardinalityType
<1>4. destroyedOf[v] \in Nat
  BY DEF WatchTypeOK, Trees
<1> QED
  BY <1>1, <1>2, <1>3, <1>4

LEMMA WatchViewStep ==
    ASSUME WatchTypeOK, WatchInv, NEW v \in TreeViews, Watch(v)
    PROVE  WatchInv'
<1>1. WatchView(v) /\ v \in alive /\ UNCHANGED <<appVars, aborted, misnamed>> /\ widgetSet' = widgetSet
  BY DEF Watch, WatchView
<1>2. model[v] \in Models
  BY DEF WatchTypeOK
<1>3. CASE v \in viewSet
  <2>1. UNCHANGED <<watchVars>>
    BY <1>1, <1>3 DEF WatchView, watchVars, watchSets
  <2> QED
    BY <2>1 DEF watchVars, watchSets, appVars, WatchInv, NoDangling, ConnectedInv, OwnInv, EntriesOf, Distinct
<1>4. CASE v \notin viewSet
  <2>1. /\ viewSet' = viewSet \cup {v}
        /\ modelToView' = [modelToView EXCEPT ![model[v]] = v]
        /\ expandedOf' = expandedOf \cup {v}
        /\ destroyedOf' = [destroyedOf EXCEPT ![v] = @ + 1]
    BY <1>1, <1>4 DEF WatchView, Connect
  <2>2. modelToView'[model[v]] = v /\ \A m \in Models \ {model[v]} : modelToView'[m] = modelToView[m]
    BY <1>2, <2>1 DEF WatchTypeOK
  <2>3. destroyedOf'[v] = destroyedOf[v] + 1 /\ \A t \in Trees \ {v} : destroyedOf'[t] = destroyedOf[t]
    BY <2>1 DEF WatchTypeOK, Trees
  <2>4. NoDangling'
    BY <1>1, <2>1, <2>2 DEF WatchInv, NoDangling, appVars
  <2>5. \A t \in viewSet' \cup widgetSet' : destroyedOf'[t] > 0
    <3>1. \A t \in Trees : destroyedOf[t] \in Nat
      BY DEF WatchTypeOK
    <3>2. viewSet \cup widgetSet \subseteq Trees
      BY DEF WatchTypeOK, Trees
    <3>3. v \in Trees
      BY DEF Trees
    <3> QED
      BY <1>1, <2>1, <2>3, <3>1, <3>2, <3>3 DEF WatchInv, ConnectedInv
  <2>6. ASSUME NEW w \in TreeViews
        PROVE  IsFiniteSet(EntriesOf(w)') /\ Cardinality(EntriesOf(w)') <= destroyedOf'[w]
    <3>1. CASE w = v
      <4>1. EntriesOf(v)' \in SUBSET (EntriesOf(v) \cup {model[v]})
        BY <2>2 DEF EntriesOf
      <4>2. IsFiniteSet(EntriesOf(v)) /\ Cardinality(EntriesOf(v)) <= destroyedOf[v]
        BY DEF WatchInv, ConnectedInv
      <4>3. /\ Cardinality(EntriesOf(v)) \in Nat
            /\ IsFiniteSet(EntriesOf(v)') /\ Cardinality(EntriesOf(v)') \in Nat
            /\ Cardinality(EntriesOf(v)') <= Cardinality(EntriesOf(v)) + 1
        BY <4>1, <4>2, OneMore
      <4>4. destroyedOf[v] \in Nat
        BY DEF WatchTypeOK, Trees
      <4>5. Cardinality(EntriesOf(v)') <= destroyedOf'[v]
        BY <2>3, <4>2, <4>3, <4>4
      <4> QED
        BY <3>1, <4>3, <4>5
    <3>2. CASE w # v
      <4>1. EntriesOf(w)' \subseteq EntriesOf(w)
        BY <2>2, <3>2 DEF EntriesOf
      <4>2. destroyedOf'[w] = destroyedOf[w]
        BY <2>3, <3>2 DEF Trees
      <4> QED
        BY <4>1, <4>2, EntriesShrink DEF WatchInv
    <3> QED
      BY <3>1, <3>2
  <2>7. ASSUME ownModels
        PROVE  /\ \A m \in Models : modelToView'[m] # NoView => model[modelToView'[m]] = m
               /\ \A w \in expandedOf' \cap TreeViews : w \in viewSet' /\ modelToView'[model[w]] = w
               /\ expandedOf' \cap TreeWidgets \subseteq widgetSet'
    <3>1. \A m \in Models : modelToView'[m] # NoView => model[modelToView'[m]] = m
      BY <2>2, <2>7 DEF WatchInv, OwnInv
    <3>2. expandedOf' \cap TreeWidgets \subseteq widgetSet'
      BY <1>1, <2>1, <2>7, ViewsAssumption DEF WatchInv, OwnInv
    <3>3. ASSUME NEW w \in expandedOf' \cap TreeViews
          PROVE  w \in viewSet' /\ modelToView'[model[w]] = w
      <4>1. CASE w = v
        BY <2>1, <2>2, <4>1
      <4>2. CASE w # v
        <5>1. w \in viewSet /\ modelToView[model[w]] = w /\ Distinct(model)
          BY <2>1, <2>7, <3>3, <4>2 DEF WatchInv, OwnInv
        <5>2. w \in alive
          BY <5>1 DEF WatchInv, NoDangling
        <5>3. model[w] # model[v] /\ model[w] \in Models
          BY <1>1, <4>2, <5>1, <5>2 DEF Distinct, WatchTypeOK
        <5> QED
          BY <2>1, <2>2, <5>1, <5>3
      <4> QED
        BY <4>1, <4>2
    <3> QED
      BY <3>1, <3>2, <3>3
  <2>8. OwnInv'
    BY <1>1, <2>7 DEF OwnInv, WatchInv, appVars, Distinct
  <2> QED
    BY <2>4, <2>5, <2>6, <2>8 DEF WatchInv, ConnectedInv
<1> QED
  BY <1>3, <1>4

LEMMA WatchWidgetStep ==
    ASSUME WatchTypeOK, WatchInv, NEW t \in Trees, t \notin TreeViews, Watch(t)
    PROVE  WatchInv'
<1>1. /\ WatchWidget(t) /\ t \in alive /\ t \in TreeWidgets
      /\ UNCHANGED <<appVars, aborted, misnamed, viewSet, modelToView>>
  BY DEF Watch, WatchWidget, Trees
<1>2. CASE t \in widgetSet
  <2>1. UNCHANGED watchVars
    BY <1>1, <1>2 DEF WatchWidget, watchVars, watchSets
  <2> QED
    BY <2>1 DEF watchVars, watchSets, appVars, WatchInv, NoDangling, ConnectedInv, OwnInv, EntriesOf, Distinct
<1>3. CASE t \notin widgetSet
  <2>1. /\ widgetSet' = widgetSet \cup {t}
        /\ expandedOf' = expandedOf \cup {t}
        /\ destroyedOf' = [destroyedOf EXCEPT ![t] = @ + 1]
    BY <1>1, <1>3 DEF WatchWidget, Connect
  <2>2. destroyedOf'[t] = destroyedOf[t] + 1 /\ \A u \in Trees \ {t} : destroyedOf'[u] = destroyedOf[u]
    BY <2>1 DEF WatchTypeOK
  <2>3. NoDangling'
    BY <1>1, <2>1 DEF WatchInv, NoDangling, appVars
  <2>4. \A u \in viewSet' \cup widgetSet' : destroyedOf'[u] > 0
    <3>1. \A u \in Trees : destroyedOf[u] \in Nat
      BY DEF WatchTypeOK
    <3>2. viewSet \cup widgetSet \subseteq Trees
      BY DEF WatchTypeOK, Trees
    <3> QED
      BY <1>1, <2>1, <2>2, <3>1, <3>2 DEF WatchInv, ConnectedInv
  <2>5. ASSUME NEW w \in TreeViews
        PROVE  IsFiniteSet(EntriesOf(w)') /\ Cardinality(EntriesOf(w)') <= destroyedOf'[w]
    <3>1. EntriesOf(w)' \subseteq EntriesOf(w)
      BY <1>1 DEF EntriesOf
    <3>2. destroyedOf'[w] = destroyedOf[w]
      BY <2>2 DEF Trees
    <3> QED
      BY <3>1, <3>2, EntriesShrink DEF WatchInv
  <2>6. OwnInv'
    BY <1>1, <2>1 DEF WatchInv, OwnInv, appVars, Distinct
  <2> QED
    BY <2>3, <2>4, <2>5, <2>6 DEF WatchInv, ConnectedInv
<1> QED
  BY <1>2, <1>3

\* No tree enters a set, no connection of destroyed is made or ended.
LEMMA ExpandStep ==
    ASSUME WatchTypeOK, WatchInv, ~aborted, NEW t \in Trees, Expand(t)
    PROVE  WatchInv'
<1>1. /\ t \in alive /\ t \in expandedOf
      /\ UNCHANGED <<alive, model, ownModels, modelToView, destroyedOf>>
      /\ viewSet' \subseteq viewSet /\ widgetSet' \subseteq widgetSet
  BY DEF Expand, ViewExpanded, WidgetExpanded, watchSets, appVars
<1>2. NoDangling'
  BY <1>1 DEF WatchInv, NoDangling
<1>3. ConnectedInv'
  <2>1. \A u \in viewSet' \cup widgetSet' : destroyedOf'[u] > 0
    BY <1>1 DEF WatchInv, ConnectedInv
  <2>2. ASSUME NEW v \in TreeViews
        PROVE  IsFiniteSet(EntriesOf(v)') /\ Cardinality(EntriesOf(v)') <= destroyedOf'[v]
    BY <1>1 DEF WatchInv, ConnectedInv, EntriesOf
  <2> QED
    BY <2>1, <2>2 DEF ConnectedInv
<1>4. ASSUME ownModels
      PROVE  /\ ~aborted' /\ ~misnamed'
             /\ \A v \in expandedOf' \cap TreeViews : v \in viewSet' /\ modelToView[model[v]] = v
             /\ expandedOf' \cap TreeWidgets \subseteq widgetSet'
  <2>1. CASE t \in TreeViews
    <3>1. modelToView[model[t]] = t /\ t \in viewSet /\ t # NoView
      BY <1>1, <1>4, <2>1, ViewsAssumption DEF WatchInv, OwnInv
    <3>2. /\ viewSet' = viewSet \ {t} /\ expandedOf' = expandedOf \ {t}
          /\ misnamed' = misnamed /\ widgetSet' = widgetSet /\ aborted' = aborted
      BY <2>1, <3>1 DEF Expand, ViewExpanded, WatchTypeOK
    <3> QED
      BY <1>4, <3>2, ViewsAssumption DEF WatchInv, OwnInv
  <2>2. CASE t \notin TreeViews
    <3>1. t \in widgetSet
      BY <1>1, <1>4, <2>2 DEF WatchInv, OwnInv, Trees
    <3>2. /\ widgetSet' = widgetSet \ {t} /\ expandedOf' = expandedOf \ {t}
          /\ viewSet' = viewSet /\ UNCHANGED <<aborted, misnamed>>
      BY <2>2, <3>1 DEF Expand, WidgetExpanded
    <3> QED
      BY <1>4, <3>2, ViewsAssumption DEF WatchInv, OwnInv
  <2> QED
    BY <2>1, <2>2
<1>5. OwnInv'
  BY <1>1, <1>4 DEF WatchInv, OwnInv, Distinct
<1> QED
  BY <1>2, <1>3, <1>5 DEF WatchInv

LEMMA DestroyStep ==
    ASSUME WatchTypeOK, WatchInv, NEW t \in Trees, Destroy(t)
    PROVE  WatchInv'
<1>1. /\ alive' = alive \ {t} /\ expandedOf' = expandedOf \ {t}
      /\ destroyedOf' = [destroyedOf EXCEPT ![t] = 0]
      /\ UNCHANGED <<model, ownModels, aborted, misnamed>>
  BY DEF Destroy
<1>2. destroyedOf'[t] = 0 /\ \A u \in Trees \ {t} : destroyedOf'[u] = destroyedOf[u]
  BY <1>1 DEF WatchTypeOK
<1>3. destroyedOf[t] \in Nat /\ viewSet \cup widgetSet \subseteq Trees
  BY DEF WatchTypeOK, Trees
\* Nothing of the tree is left, all else is as it was.
<1>4. /\ viewSet' = viewSet \ {t} /\ widgetSet' = widgetSet \ {t}
      /\ \A m \in Models : modelToView'[m] = IF modelToView[m] = t THEN NoView ELSE modelToView[m]
  <2>1. CASE t \in TreeViews
    <3>1. PICK gone \in SUBSET EntriesOf(t) :
              /\ IF destroyedOf[t] >= Cardinality(EntriesOf(t)) THEN gone = EntriesOf(t)
                 ELSE Cardinality(gone) = destroyedOf[t]
              /\ modelToView' = [m \in Models |-> IF m \in gone THEN NoView ELSE modelToView[m]]
              /\ viewSet' = IF destroyedOf[t] > 0 THEN viewSet \ {t} ELSE viewSet
              /\ widgetSet' = widgetSet
      BY <2>1 DEF Destroy, ForgetView, EntriesOf
    <3>2. IsFiniteSet(EntriesOf(t)) /\ Cardinality(EntriesOf(t)) <= destroyedOf[t]
      BY <2>1 DEF WatchInv, ConnectedInv
    <3>3. Cardinality(EntriesOf(t)) \in Nat
      BY <3>2, FS_CardinalityType
    <3>4. gone = EntriesOf(t)
      BY <1>3, <3>1, <3>2, <3>3
    <3>5. viewSet' = viewSet \ {t}
      BY <1>3, <3>1 DEF WatchInv, ConnectedInv
    <3>6. widgetSet' = widgetSet \ {t}
      BY <2>1, <3>1, ViewsAssumption DEF WatchTypeOK
    <3> QED
      BY <3>1, <3>4, <3>5, <3>6 DEF EntriesOf
  <2>2. CASE t \notin TreeViews
    <3>1. /\ widgetSet' = IF destroyedOf[t] > 0 THEN widgetSet \ {t} ELSE widgetSet
          /\ viewSet' = viewSet /\ modelToView' = modelToView
      BY <2>2 DEF Destroy, ForgetWidget
    <3>2. widgetSet' = widgetSet \ {t}
      BY <1>3, <3>1 DEF WatchInv, ConnectedInv
    <3>3. viewSet' = viewSet \ {t}
      BY <2>2, <3>1 DEF WatchTypeOK
    <3>4. ASSUME NEW m \in Models, modelToView[m] = t
          PROVE  modelToView'[m] = NoView
      BY <2>2, <3>1, <3>4 DEF WatchTypeOK
    <3> QED
      BY <3>1, <3>2, <3>3, <3>4
  <2> QED
    BY <2>1, <2>2
<1>5. NoDangling'
  BY <1>1, <1>4 DEF WatchInv, NoDangling
<1>6. \A u \in viewSet' \cup widgetSet' : destroyedOf'[u] > 0
  BY <1>2, <1>3, <1>4 DEF WatchInv, ConnectedInv
<1>7. ASSUME NEW v \in TreeViews
      PROVE  IsFiniteSet(EntriesOf(v)') /\ Cardinality(EntriesOf(v)') <= destroyedOf'[v]
  <2>1. v # NoView /\ v \in Trees
    BY ViewsAssumption DEF Trees
  <2>2. CASE v = t
    <3>1. EntriesOf(v)' = {}
      BY <1>4, <2>1, <2>2 DEF EntriesOf
    <3> QED
      BY <1>2, <2>2, <3>1, FS_EmptySet
  <2>3. CASE v # t
    <3>1. EntriesOf(v)' \subseteq EntriesOf(v)
      BY <1>4, <2>1 DEF EntriesOf
    <3>2. destroyedOf'[v] = destroyedOf[v]
      BY <1>2, <2>1, <2>3
    <3> QED
      BY <3>1, <3>2, EntriesShrink DEF WatchInv
  <2> QED
    BY <2>2, <2>3
<1>8. ASSUME ownModels
      PROVE  /\ Distinct(model)'
             /\ \A m \in Models : modelToView'[m] # NoView => model[modelToView'[m]] = m
             /\ \A v \in expandedOf' \cap TreeViews : v \in viewSet' /\ modelToView'[model[v]] = v
             /\ expandedOf' \cap TreeWidgets \subseteq widgetSet'
  <2>1. Distinct(model)'
    BY <1>1, <1>8 DEF WatchInv, OwnInv, Distinct
  <2>2. \A m \in Models : modelToView'[m] # NoView => model[modelToView'[m]] = m
    BY <1>4, <1>8 DEF WatchInv, OwnInv
  <2>3. ASSUME NEW v \in expandedOf' \cap TreeViews
        PROVE  v \in viewSet' /\ modelToView'[model[v]] = v
    <3>1. v # t /\ v \in viewSet /\ modelToView[model[v]] = v
      BY <1>1, <1>8 DEF WatchInv, OwnInv
    <3>2. model[v] \in Models
      BY DEF WatchTypeOK
    <3> QED
      BY <1>4, <3>1, <3>2
  <2>4. expandedOf' \cap TreeWidgets \subseteq widgetSet'
    BY <1>1, <1>4, <1>8 DEF WatchInv, OwnInv
  <2> QED
    BY <2>1, <2>2, <2>3, <2>4
<1>9. OwnInv'
  BY <1>1, <1>8 DEF WatchInv, OwnInv
<1> QED
  BY <1>5, <1>6, <1>7, <1>9 DEF WatchInv, ConnectedInv

LEMMA WatchInvStep ==
    ASSUME WatchTypeOK, WatchInv, ~aborted, WatchStep
    PROVE  WatchInv'
<1>1. ASSUME NEW t \in Trees, Watch(t)
      PROVE  WatchInv'
  BY <1>1, WatchViewStep, WatchWidgetStep
<1>2. ASSUME NEW t \in Trees, Expand(t)
      PROVE  WatchInv'
  BY <1>2, ExpandStep
<1>3. ASSUME NEW t \in Trees, Destroy(t)
      PROVE  WatchInv'
  BY <1>3, DestroyStep
<1>4. ASSUME NEW v \in TreeViews, NEW m \in Models, SetModel(v, m)
      PROVE  WatchInv'
  BY <1>4 DEF SetModel, watchSets, WatchInv, NoDangling, ConnectedInv, OwnInv, EntriesOf
<1> QED
  BY <1>1, <1>2, <1>3, <1>4 DEF WatchStep

-----------------------------------------------------------------------------

\* What is inductive: the types and an invariant for each half.
RecorderInv == TypeOK /\ KeyInv /\ WatchInv

LEMMA InitHolds == Init => RecorderInv
<1> SUFFICES ASSUME Init PROVE RecorderInv
  OBVIOUS
<1>1. KeyTypeOK
  <2>1. <<>> \in Seq(Keys) /\ Len(<<>>) = 0 /\ <<>> \in Seq(1..0)
    BY EmptySeq
  <2>2. /\ strokes = <<>> /\ recorded = <<>>
        /\ lastKeyEvent = <<"none", ShowKey>> /\ delivered = <<"press", 0>>
        /\ keyFresh = FALSE /\ keyPress = 0 /\ keyRelease = 0 /\ late = 0
        /\ down = {} /\ visible = {} /\ disturbed = {} /\ skipped = {}
    BY DEF Init, KeyInit
  <2>3. lastKeyEvent \in (Types \cup {"none"}) \X Keys
    BY <2>2, KeysAssumption
  <2>4. delivered \in Types \X (0..Len(strokes))
    BY <2>1, <2>2 DEF Types
  <2>5. strokes \in Seq(Keys) /\ recorded \in Seq(1..Len(strokes))
    BY <2>1, <2>2
  <2> QED
    BY <2>2, <2>3, <2>4, <2>5 DEF KeyTypeOK
<1>2. MouseTypeOK
  <2>1. <<>> \in Seq(Clicks) /\ Len(<<>>) = 0 /\ <<>> \in Seq(1..0)
    BY EmptySeq
  <2> QED
    BY <2>1 DEF Init, MouseInit, MouseTypeOK
<1>3. WatchTypeOK
  <2>1. Distinct(model) \in BOOLEAN
    BY DEF Distinct
  <2> QED
    BY <2>1 DEF Init, WatchInit, WatchTypeOK
<1>4. KeyInv
  BY DEF Init, KeyInit, KeyInv, LastInv, CountInv, PressRecorded
<1>5. WatchInv
  <2>1. NoDangling /\ OwnInv
    BY DEF Init, WatchInit, NoDangling, OwnInv
  <2>2. ASSUME NEW v \in TreeViews
        PROVE  IsFiniteSet(EntriesOf(v)) /\ Cardinality(EntriesOf(v)) <= destroyedOf[v]
    <3>1. EntriesOf(v) = {}
      BY ViewsAssumption DEF Init, WatchInit, EntriesOf
    <3>2. destroyedOf[v] = 0
      BY DEF Init, WatchInit, Trees
    <3> QED
      BY <3>1, <3>2, FS_EmptySet
  <2>3. \A t \in viewSet \cup widgetSet : destroyedOf[t] > 0
    BY DEF Init, WatchInit
  <2> QED
    BY <2>1, <2>2, <2>3 DEF WatchInv, ConnectedInv
<1> QED
  BY <1>1, <1>2, <1>3, <1>4, <1>5 DEF RecorderInv, TypeOK, Init

LEMMA KeyboardHolds == RecorderInv /\ Keyboard => RecorderInv'
<1> SUFFICES ASSUME RecorderInv, Keyboard PROVE RecorderInv'
  OBVIOUS
<1>1. UNCHANGED mouseVars /\ UNCHANGED watchVars /\ UNCHANGED <<device, swaps>>
  BY DEF Keyboard
<1>2. KeyTypeOK' /\ KeyInv'
  BY KeyTypeStep, KeyInvStep DEF RecorderInv, TypeOK
<1>3. MouseTypeOK'
  BY <1>1 DEF mouseVars, lastVars, MouseTypeOK, RecorderInv, TypeOK
<1>4. WatchTypeOK'
  BY <1>1 DEF watchVars, watchSets, appVars, WatchTypeOK, RecorderInv, TypeOK
<1>5. WatchInv'
  BY <1>1 DEF watchVars, watchSets, appVars, RecorderInv, WatchInv, NoDangling, ConnectedInv, OwnInv, EntriesOf, Distinct
<1> QED
  BY <1>1, <1>2, <1>3, <1>4, <1>5 DEF RecorderInv, TypeOK

LEMMA MouseHolds == RecorderInv /\ Mouse => RecorderInv'
<1> SUFFICES ASSUME RecorderInv, Mouse PROVE RecorderInv'
  OBVIOUS
<1>1. UNCHANGED keyVars /\ UNCHANGED device /\ ~aborted
  BY DEF Mouse
<1>2. KeyTypeOK' /\ KeyInv'
  <2>1. KeyTypeOK /\ KeyInv
    BY DEF RecorderInv, TypeOK
  <2> QED
    BY <1>1, <2>1, KeyTypeStep, KeyInvStep
<1>3. MouseTypeOK'
  BY MouseTypeStep DEF RecorderInv, TypeOK
<1>4. WatchStep \/ UNCHANGED watchVars
  BY MouseIsWatchStep DEF RecorderInv, TypeOK
<1>5. WatchTypeOK' /\ WatchInv'
  <2>1. CASE WatchStep
    BY <1>1, <2>1, WatchTypeStep, WatchInvStep DEF RecorderInv, TypeOK
  <2>2. CASE UNCHANGED watchVars
    <3>1. WatchTypeOK'
      BY <2>2 DEF watchVars, watchSets, appVars, WatchTypeOK, RecorderInv, TypeOK
    <3>2. WatchInv'
      BY <2>2 DEF watchVars, watchSets, appVars, RecorderInv, WatchInv, NoDangling, ConnectedInv, OwnInv, EntriesOf, Distinct
    <3> QED
      BY <3>1, <3>2
  <2> QED
    BY <1>4, <2>1, <2>2
<1>6. swaps' \in Nat
  <2>1. swaps' = swaps \/ swaps' = swaps + 1
    BY DEF Mouse, Click, ClickAgain, Swap, Signal
  <2>2. swaps \in Nat
    BY DEF RecorderInv, TypeOK
  <2> QED
    BY <2>1, <2>2
<1> QED
  BY <1>1, <1>2, <1>3, <1>5, <1>6 DEF RecorderInv, TypeOK

LEMMA StutterHolds == RecorderInv /\ UNCHANGED vars => RecorderInv'
<1> SUFFICES ASSUME RecorderInv, UNCHANGED vars PROVE RecorderInv'
  OBVIOUS
<1>1. UNCHANGED keyVars /\ UNCHANGED mouseVars /\ UNCHANGED watchVars /\ UNCHANGED <<device, swaps>>
  BY DEF vars
<1>2. KeyTypeOK' /\ KeyInv'
  BY <1>1, KeyTypeStep, KeyInvStep DEF RecorderInv, TypeOK
<1>3. MouseTypeOK'
  BY <1>1 DEF mouseVars, lastVars, MouseTypeOK, RecorderInv, TypeOK
<1>4. WatchTypeOK'
  BY <1>1 DEF watchVars, watchSets, appVars, WatchTypeOK, RecorderInv, TypeOK
<1>5. WatchInv'
  BY <1>1 DEF watchVars, watchSets, appVars, RecorderInv, WatchInv, NoDangling, ConnectedInv, OwnInv, EntriesOf, Distinct
<1> QED
  BY <1>1, <1>2, <1>3, <1>4, <1>5 DEF RecorderInv, TypeOK

LEMMA InvHolds == Spec => []RecorderInv
<1>1. RecorderInv /\ [Next]_vars => RecorderInv'
  BY KeyboardHolds, MouseHolds, StutterHolds DEF Next
<1> QED
  BY <1>1, InitHolds, PTL DEF Spec

\* The variables of the recorder have the types given to them.
THEOREM TypeCorrect == Spec => []TypeOK
<1>1. RecorderInv => TypeOK
  BY DEF RecorderInv
<1> QED
  BY <1>1, InvHolds, PTL

\* alreadySawSuchKeyEvent: whatever keys went down and up in whatever order,
\* with or without their presses, the counters agree when no key is down.
THEOREM CountersBalance == Spec => []Balanced
<1>1. RecorderInv => Balanced
  BY DEF RecorderInv, KeyInv, LastInv, CountInv, Balanced
<1> QED
  BY <1>1, InvHolds, PTL

\* eventFilter: a stroke whose press it was shown is recorded.
THEOREM NoPressLost == Spec => []PressRecorded
<1>1. RecorderInv => PressRecorded
  BY DEF RecorderInv, KeyInv
<1> QED
  BY <1>1, InvHolds, PTL

\* treeViewDestroyed, treeWidgetDestroyed: no tree that is gone stays in the
\* watchers, however many models it had.
THEOREM NoPointerDangles == Spec => []NoDangling
<1>1. RecorderInv => NoDangling
  BY DEF RecorderInv, WatchInv
<1> QED
  BY <1>1, InvHolds, PTL

\* treeViewExpanded, itemExpanded: without shared models no assertion fails
\* and no command names a wrong view.
THEOREM OwnModelsAreEnough == Spec => []OwnModelsSuffice
<1>1. RecorderInv => OwnModelsSuffice
  BY DEF RecorderInv, WatchInv, OwnInv, OwnModelsSuffice
<1> QED
  BY <1>1, InvHolds, PTL

-----------------------------------------------------------------------------
(* What the user does once is recorded once *)

Recordable(k) == k \notin Modifiers /\ k # ShowKey

\* The event that is delivered is the last one that the filter was shown.
DeliveredInv ==
    delivered[2] # 0 => lastKeyEvent = <<delivered[1], strokes[delivered[2]]>>

\* A stroke that comes alone and whose key is down: its press was delivered
\* and counted, or it was a shortcut and the filter knows nothing of it.
DownAlone(s) ==
    /\ down = {s}
    /\ s \in visible =>
           /\ delivered = <<"press", s>>
           /\ keyPress = keyRelease + 1
           /\ Recordable(strokes[s]) => TimesRecorded(s) = 1
    /\ s \notin visible =>
           /\ delivered[2] = 0
           /\ ~Saw("release", strokes[s])
           /\ keyPress = keyRelease
           /\ TimesRecorded(s) = 0

AloneInv ==
    \A s \in (1..Len(strokes)) \ disturbed :
        /\ s \in down => DownAlone(s)
        /\ s \notin down /\ Recordable(strokes[s]) => TimesRecorded(s) = 1

OnceInv == DeliveredInv /\ AloneInv

\* The last event of the mouse, as it is remembered after the click c
Remembered(c) == <<c, IF c.place \in Unnamed THEN "parent" ELSE "widget">>

\* While a click is delivered it is the last event, and only then is there one.
LastClickInv ==
    /\ delivering <=> lastMouseEvent # <<>>
    /\ delivering => /\ lastMouseEvent = Remembered(clicks[Len(clicks)])
                     /\ pressed = clicks[Len(clicks)].buttons

ClickInv == LastClickInv /\ ClickRecordedOnce

-----------------------------------------------------------------------------
(* Counting *)

LEMMA TimesAppended ==
    ASSUME NEW S, NEW q \in Seq(S), NEW x \in S, NEW r
    PROVE  /\ TimesIn(q, r) \in Nat
           /\ TimesIn(Append(q, x), r) = IF r = x THEN TimesIn(q, r) + 1 ELSE TimesIn(q, r)
<1>1. PICK n \in Nat : n = Len(q)
  BY LenProperties
<1>2. PICK A : A = {i \in 1..n : q[i] = r}
  OBVIOUS
<1>3. IsFiniteSet(A) /\ Cardinality(A) \in Nat
  <2>1. IsFiniteSet(1..n) /\ A \in SUBSET (1..n)
    BY <1>2, FS_Interval
  <2>2. IsFiniteSet(A)
    BY <2>1, FS_Subset
  <2> QED
    BY <2>2, FS_CardinalityType
<1>4. /\ Len(Append(q, x)) = n + 1
      /\ \A i \in 1..n : Append(q, x)[i] = q[i]
      /\ Append(q, x)[n + 1] = x
  BY <1>1, AppendProperties
<1>5. TimesIn(q, r) = Cardinality(A)
  BY <1>1, <1>2 DEF TimesIn
<1>6. PICK B : B = {i \in 1..n + 1 : Append(q, x)[i] = r}
  OBVIOUS
<1>7. TimesIn(Append(q, x), r) = Cardinality(B)
  BY <1>4, <1>6 DEF TimesIn
<1>8. CASE r = x
  <2>1. B = A \cup {n + 1} /\ n + 1 \notin A
    BY <1>2, <1>4, <1>6, <1>8
  <2>2. Cardinality(A \cup {n + 1}) = Cardinality(A) + 1
    BY <1>3, <2>1, FS_AddElement
  <2> QED
    BY <1>3, <1>5, <1>7, <1>8, <2>1, <2>2
<1>9. CASE r # x
  <2>1. B = A
    BY <1>2, <1>4, <1>6, <1>9
  <2> QED
    BY <1>3, <1>5, <1>7, <1>9, <2>1
<1> QED
  BY <1>8, <1>9

LEMMA TimesNone ==
    ASSUME NEW S, NEW q \in Seq(S), NEW r, r \notin S
    PROVE  TimesIn(q, r) = 0
<1>1. {i \in 1..Len(q) : q[i] = r} = {}
  BY ElementOfSeq
<1> QED
  BY <1>1, FS_EmptySet DEF TimesIn

LEMMA RecordedTimes == \A s : TimesRecorded(s) = TimesIn(recorded, s)
BY DEF TimesRecorded, TimesIn

\* A stroke that is recorded counts once more, no other one does.
LEMMA EmitCounts ==
    ASSUME NEW n \in Nat, recorded \in Seq(1..n), NEW s \in 1..n,
           NEW type, NEW k, Emit(type, s, k)
    PROVE  /\ \A r : r # s => TimesRecorded(r)' = TimesRecorded(r)
           /\ Recordable(k) => TimesRecorded(s)' = TimesRecorded(s) + 1
<1>1. \A r : TimesRecorded(r)' = TimesIn(recorded', r)
  BY DEF TimesRecorded, TimesIn
<1>2. CASE recorded' = recorded /\ ~Recordable(k)
  BY <1>1, <1>2, RecordedTimes
<1>3. CASE recorded' = Append(recorded, s)
  BY <1>1, <1>3, RecordedTimes, TimesAppended
<1> QED
  BY <1>2, <1>3 DEF Emit, Recordable

LEMMA FilterCounts ==
    ASSUME NEW n \in Nat, recorded \in Seq(1..n), NEW s \in 1..n,
           NEW type, NEW k, EventFilter(type, s, k)
    PROVE  \A r : r # s => TimesRecorded(r)' = TimesRecorded(r)
<1>1. CASE recorded' = recorded
  BY <1>1 DEF TimesRecorded
<1>2. CASE \E t \in Types : Emit(t, s, k)
  BY <1>2, EmitCounts
<1> QED
  BY <1>1, <1>2 DEF EventFilter, Repeated, NewPress, SeenViaPress, OnlyRelease, filterVars, Types

-----------------------------------------------------------------------------
(* The keyboard *)

LEMMA OnceStep ==
    ASSUME KeyTypeOK, KeyInv, OnceInv, [Keyboard]_keyVars
    PROVE  OnceInv'
<1>1. PICK N \in Nat : N = Len(strokes)
  BY LenProperties DEF KeyTypeOK
<1>2. /\ strokes \in Seq(Keys) /\ recorded \in Seq(1..N)
      /\ down \subseteq 1..N /\ visible \subseteq 1..N /\ disturbed \subseteq 1..N
      /\ keyPress \in Nat /\ keyRelease \in Nat
      /\ delivered \in Types \X (0..N)
  BY <1>1 DEF KeyTypeOK
<1>3. ASSUME NEW k \in Keys, KeyDown(k)
      PROVE  OnceInv'
  <2>1. PICK t \in 1..N + 1 : t = N + 1
    OBVIOUS
  <2>2. /\ strokes' \in Seq(Keys) /\ Len(strokes') = t /\ strokes'[t] = k
        /\ \A s \in 1..N : strokes'[s] = strokes[s]
    BY <1>1, <1>2, <1>3, <2>1, AppendProperties DEF KeyDown
  <2>3. /\ recorded \in Seq(1..t) /\ t \in Nat /\ N <= t /\ t \notin 1..N
        /\ 1..t = (1..N) \cup {t}
    BY <1>2, <2>1, SeqOfMore
  <2>4. TimesRecorded(t) = 0
    BY <1>2, <2>3, TimesNone, RecordedTimes
  <2>5. down' = down \cup {t} /\ disturbed \subseteq disturbed' /\ (down # {} => t \in disturbed')
        /\ down \subseteq disturbed'
    BY <1>1, <1>3, <2>1 DEF KeyDown
  <2>6. down = {} => keyPress = keyRelease
    BY DEF KeyInv, LastInv, CountInv
  <2>7. CASE UNCHANGED <<filterVars, visible>> /\ delivered' = <<"press", 0>>
             /\ disturbed' = IF down = {} /\ ~Saw("release", k) THEN disturbed
                             ELSE disturbed \cup down \cup {t}
    <3>1. DeliveredInv'
      BY <2>7 DEF DeliveredInv
    <3>2. /\ UNCHANGED <<lastKeyEvent, keyFresh, keyPress, keyRelease, visible>>
          /\ \A r : TimesRecorded(r)' = TimesRecorded(r)
      BY <2>7 DEF filterVars, TimesRecorded
    <3>3. ASSUME t \notin disturbed'
          PROVE  DownAlone(t)'
      <4>1. down = {} /\ ~Saw("release", k)
        BY <2>5, <2>7, <3>3
      <4>2. t \notin visible' /\ down' = {t} /\ keyPress' = keyRelease'
        BY <1>2, <2>3, <2>5, <2>6, <3>2, <4>1
      <4>3. ~Saw("release", strokes[t])'
        BY <2>2, <3>2, <4>1 DEF Saw
      <4> QED
        BY <2>4, <2>7, <3>2, <4>2, <4>3 DEF DownAlone
    <3>4. ASSUME NEW s \in 1..N, s \notin disturbed', Recordable(strokes'[s])
          PROVE  s \notin down' /\ TimesRecorded(s)' = 1
      <4>1. s \notin down' /\ s \notin down /\ s \notin disturbed
        BY <2>3, <2>5, <3>4
      <4> QED
        BY <1>1, <2>2, <3>2, <3>4, <4>1 DEF OnceInv, AloneInv
    <3>5. ASSUME NEW s \in 1..N, s \notin disturbed'
          PROVE  s \notin down'
      BY <2>3, <2>5, <3>5
    <3>6. AloneInv'
      BY <2>2, <2>3, <2>5, <3>3, <3>4, <3>5 DEF AloneInv
    <3> QED
      BY <3>1, <3>6 DEF OnceInv
  <2>8. CASE /\ EventFilter("press", t, k)
             /\ visible' = visible \cup {t}
             /\ delivered' = <<"press", t>>
    <3>1. ~Saw("press", k)
      BY <2>5, <1>3 DEF KeyDown, Saw, KeyInv, LastInv
    <3>2. NewPress(t, k)
      BY <2>8, <3>1 DEF EventFilter, Repeated
    <3>3. lastKeyEvent' = <<"press", k>> /\ keyPress' = keyPress + 1 /\ keyRelease' = keyRelease
          /\ Emit("press", t, k)
      BY <3>2 DEF NewPress, Remember
    <3>4. DeliveredInv'
      BY <2>2, <2>8, <3>3 DEF DeliveredInv
    <3>5. \A r : r # t => TimesRecorded(r)' = TimesRecorded(r)
      BY <2>3, <3>3, EmitCounts
    <3>6. Recordable(k) => TimesRecorded(t)' = 1
      BY <2>3, <2>4, <3>3, EmitCounts
    <3>7. ASSUME t \notin disturbed'
          PROVE  DownAlone(t)'
      <4>1. down' = {t} /\ t \in visible' /\ keyPress' = keyRelease' + 1
        BY <1>2, <2>5, <2>6, <2>8, <3>3, <3>7
      <4> QED
        BY <2>2, <2>8, <3>6, <4>1 DEF DownAlone
    <3>8. ASSUME NEW s \in 1..N, s \notin disturbed'
          PROVE  s \notin down' /\ (Recordable(strokes'[s]) => TimesRecorded(s)' = 1)
      <4>1. s \notin down' /\ s \notin down /\ s \notin disturbed /\ s # t
        BY <2>3, <2>5, <3>8
      <4> QED
        BY <1>1, <2>2, <3>5, <3>8, <4>1 DEF OnceInv, AloneInv
    <3>9. AloneInv'
      BY <2>2, <2>3, <2>5, <3>7, <3>8 DEF AloneInv
    <3> QED
      BY <3>4, <3>9 DEF OnceInv
  <2> QED
    BY <1>1, <1>3, <2>1, <2>7, <2>8 DEF KeyDown
<1>4. ASSUME NEW s \in down, KeyUp(s)
      PROVE  OnceInv'
  <2>1. /\ s \in 1..N /\ down' = down \ {s} /\ delivered' = <<"release", s>>
        /\ UNCHANGED <<strokes, visible, disturbed>>
        /\ EventFilter("release", s, strokes[s])
    BY <1>2, <1>4 DEF KeyUp
  <2>2. \A r : r # s => TimesRecorded(r)' = TimesRecorded(r)
    BY <1>2, <2>1, FilterCounts
  <2>3. DeliveredInv'
    <3>1. lastKeyEvent' = <<"release", strokes[s]>>
      BY <2>1 DEF EventFilter, Repeated, Saw, SeenViaPress, OnlyRelease, Remember, filterVars
    <3> QED
      BY <2>1, <3>1 DEF DeliveredInv
  <2>4. ASSUME s \notin disturbed, Recordable(strokes[s])
        PROVE  TimesRecorded(s)' = 1
    <3>1. DownAlone(s)
      BY <1>1, <2>1, <2>4 DEF OnceInv, AloneInv
    <3>2. CASE s \in visible
      <4>1. lastKeyEvent = <<"press", strokes[s]>> /\ keyPress = keyRelease + 1
            /\ TimesRecorded(s) = 1
        <5>1. delivered = <<"press", s>> /\ s # 0
          BY <2>1, <3>1, <3>2 DEF DownAlone
        <5>2. lastKeyEvent = <<"press", strokes[s]>>
          BY <5>1 DEF OnceInv, DeliveredInv
        <5> QED
          BY <2>4, <3>1, <3>2, <5>2 DEF DownAlone
      <4>2. ~Saw("release", strokes[s])
        BY <4>1 DEF Saw
      <4>3. recorded' = recorded
        BY <2>1, <4>1, <4>2 DEF EventFilter, Repeated, SeenViaPress, OnlyRelease
      <4> QED
        BY <4>1, <4>3 DEF TimesRecorded
    <3>3. CASE s \notin visible
      <4>1. ~Saw("release", strokes[s]) /\ keyPress = keyRelease /\ TimesRecorded(s) = 0
        BY <3>1, <3>3 DEF DownAlone
      <4>2. keyRelease + 1 # keyPress
        BY <1>2, <4>1
      <4>3. Emit("release", s, strokes[s])
        BY <2>1, <4>1, <4>2 DEF EventFilter, Repeated, SeenViaPress, OnlyRelease
      <4> QED
        BY <1>2, <2>1, <2>4, <4>1, <4>3, EmitCounts
    <3> QED
      BY <3>2, <3>3
  <2>5. ASSUME NEW r \in 1..N, r \notin disturbed, r # s
        PROVE  r \notin down /\ (Recordable(strokes[r]) => TimesRecorded(r)' = 1)
    <3>1. r \notin down
      BY <1>1, <2>5 DEF OnceInv, AloneInv, DownAlone
    <3> QED
      BY <1>1, <2>2, <2>5, <3>1 DEF OnceInv, AloneInv
  <2>6. AloneInv'
    <3>1. \A r \in (1..N) \ disturbed :
            r \notin down' /\ (Recordable(strokes[r]) => TimesRecorded(r)' = 1)
      BY <2>1, <2>4, <2>5
    <3> QED
      BY <1>1, <2>1, <3>1 DEF AloneInv
  <2> QED
    BY <2>3, <2>6 DEF OnceInv
<1>5. ASSUME DeliverAgain
      PROVE  OnceInv'
  <2>1. PICK s \in 1..N : s = delivered[2]
    BY <1>2, <1>5 DEF DeliverAgain
  <2>2. PICK type \in Types : type = delivered[1]
    BY <1>2
  <2>3. /\ EventFilter(type, s, strokes[s])
        /\ UNCHANGED <<strokes, down, delivered, visible>>
        /\ lastKeyEvent = <<type, strokes[s]>>
    BY <1>5, <2>1, <2>2 DEF DeliverAgain, OnceInv, DeliveredInv
  <2>4. CASE keyFresh /\ disturbed' = disturbed
    <3>1. Saw(type, strokes[s])
      BY <2>3, <2>4 DEF Saw
    <3>2. UNCHANGED filterVars
      BY <2>3, <3>1 DEF EventFilter, Repeated, NewPress, SeenViaPress, OnlyRelease
    <3>3. UNCHANGED <<lastKeyEvent, keyFresh, keyPress, keyRelease, recorded>>
      BY <3>2 DEF filterVars
    <3>4. DeliveredInv'
      BY <2>3, <3>3 DEF OnceInv, DeliveredInv
    <3>5. AloneInv'
      <4>1. ASSUME NEW r \in 1..Len(strokes), r \notin disturbed
            PROVE  /\ r \in down => DownAlone(r)'
                   /\ r \notin down /\ Recordable(strokes[r]) => TimesRecorded(r)' = 1
        <5>1. TimesRecorded(r)' = TimesRecorded(r)
          BY <3>3 DEF TimesRecorded
        <5>2. DownAlone(r) => DownAlone(r)'
          BY <2>3, <3>3, <5>1 DEF DownAlone, Saw
        <5>3. /\ r \in down => DownAlone(r)
              /\ r \notin down /\ Recordable(strokes[r]) => TimesRecorded(r) = 1
          BY <4>1 DEF OnceInv, AloneInv
        <5> QED
          BY <5>1, <5>2, <5>3
      <4>2. UNCHANGED <<strokes, down, disturbed>>
        BY <2>3, <2>4
      <4> QED
        BY <4>1, <4>2 DEF AloneInv
    <3> QED
      BY <3>4, <3>5 DEF OnceInv
  <2>5. CASE disturbed' = disturbed \cup {s}
    <3>1. \A r : r # s => TimesRecorded(r)' = TimesRecorded(r)
      BY <1>2, <2>3, FilterCounts
    <3>2. lastKeyEvent' = lastKeyEvent
      BY <2>3 DEF EventFilter, Repeated, NewPress, SeenViaPress, OnlyRelease, Remember,
                  filterVars
    <3>3. DeliveredInv'
      BY <2>3, <3>2 DEF OnceInv, DeliveredInv
    <3>4. ASSUME NEW r \in 1..N, r \notin disturbed, r # s
          PROVE  r \notin down /\ (Recordable(strokes[r]) => TimesRecorded(r)' = 1)
      <4>1. r \notin down
        BY <1>1, <2>1, <3>4 DEF OnceInv, AloneInv, DownAlone
      <4> QED
        BY <1>1, <3>1, <3>4, <4>1 DEF OnceInv, AloneInv
    <3>5. AloneInv'
      BY <1>1, <2>3, <2>5, <3>4 DEF AloneInv
    <3> QED
      BY <3>3, <3>5 DEF OnceInv
  <2> QED
    BY <1>5, <2>1, <2>4, <2>5 DEF DeliverAgain
<1>6. ASSUME KeyTimeout
      PROVE  OnceInv'
  BY <1>6 DEF KeyTimeout, userVars, OnceInv, DeliveredInv, AloneInv, DownAlone, Saw,
              TimesRecorded
<1>7. ASSUME UNCHANGED keyVars
      PROVE  OnceInv'
  BY <1>7 DEF keyVars, filterVars, userVars, OnceInv, DeliveredInv, AloneInv, DownAlone, Saw,
              TimesRecorded
<1> QED
  BY <1>3, <1>4, <1>5, <1>6, <1>7 DEF Keyboard, Key, KeyStep

-----------------------------------------------------------------------------
(* The mouse *)

\* What the filter does with a click that is the last event, or is not.
LEMMA MouseFilter ==
    ASSUME NEW i, NEW c, Filter(i, c)
    PROVE  /\ SawMouse(c, "widget") => UNCHANGED <<lastMouseEvent, mouseFresh, emitted>>
           /\ ~SawMouse(c, "widget") => /\ lastMouseEvent' = Remembered(c)
                                        /\ emitted' = Append(emitted, i)
BY DEF Filter, RepeatedClick, NewClick, lastVars, Remembered

LEMMA RememberedIs ==
    ASSUME NEW c, NEW d
    PROVE  /\ Remembered(c) # <<>>
           /\ <<c, "widget">> = Remembered(d) => c = d
           /\ c.place \notin Unnamed => Remembered(c) = <<c, "widget">>
BY DEF Remembered

LEMMA ClickStep ==
    ASSUME MouseTypeOK, ClickInv, [Mouse]_vars
    PROVE  ClickInv'
<1>1. PICK N \in Nat : N = Len(clicks)
  BY LenProperties DEF MouseTypeOK
<1>2. clicks \in Seq(Clicks) /\ emitted \in Seq(1..N) /\ lateClicks \in Seq(1..N)
  BY <1>1 DEF MouseTypeOK
<1>3. ASSUME Click
      PROVE  ClickInv'
  <2>1. PICK t \in 1..N + 1 : t = N + 1
    OBVIOUS
  <2>2. PICK c \in Clicks : ButtonDown(c) /\ Filter(t, c)
    BY <1>1, <1>3, <2>1 DEF Click
  <2>3. /\ clicks' = Append(clicks, c) /\ pressed' = c.buttons /\ delivering' = TRUE
        /\ lateClicks' = lateClicks
        /\ c.buttons # pressed
    BY <2>2 DEF ButtonDown
  <2>4. /\ Len(clicks') = t /\ clicks'[t] = c
        /\ \A i \in 1..N : clicks'[i] = clicks[i]
    BY <1>1, <1>2, <2>1, <2>3, AppendProperties
  <2>5. ~SawMouse(c, "widget")
    <3>1. SawMouse(c, "widget") => lastMouseEvent = <<c, "widget">> /\ lastMouseEvent # <<>>
      BY DEF SawMouse
    <3>2. lastMouseEvent # <<>> => /\ lastMouseEvent = Remembered(clicks[N])
                                   /\ pressed = clicks[N].buttons
      BY <1>1 DEF ClickInv, LastClickInv
    <3>3. lastMouseEvent = <<c, "widget">> /\ lastMouseEvent = Remembered(clicks[N])
            => c = clicks[N]
      BY RememberedIs
    <3> QED
      BY <2>3, <3>1, <3>2, <3>3
  <2>6. lastMouseEvent' = Remembered(c) /\ emitted' = Append(emitted, t)
    BY <2>2, <2>5, MouseFilter
  <2>7. LastClickInv'
    BY <2>3, <2>4, <2>6, RememberedIs DEF LastClickInv
  <2>8. /\ emitted \in Seq(1..t) /\ lateClicks \in Seq(1..t) /\ t \notin 1..N
        /\ 1..t = (1..N) \cup {t}
    BY <1>2, <2>1, SeqOfMore
  <2>9. TimesIn(emitted', t) = 1 + TimesIn(lateClicks', t)
    <3>1. TimesIn(emitted, t) = 0 /\ TimesIn(lateClicks, t) = 0
      BY <1>2, <2>8, TimesNone
    <3>2. TimesIn(Append(emitted, t), t) = TimesIn(emitted, t) + 1
      BY <2>8, TimesAppended
    <3> QED
      BY <2>3, <2>6, <3>1, <3>2
  <2>10. ASSUME NEW i \in 1..N
         PROVE  /\ TimesIn(emitted', i) = TimesIn(emitted, i)
                /\ TimesIn(lateClicks', i) = TimesIn(lateClicks, i)
    <3>1. i # t
      BY <2>8
    <3> QED
      BY <2>3, <2>6, <2>8, <3>1, TimesAppended
  <2>11. ClickRecordedOnce'
    BY <1>1, <2>4, <2>8, <2>9, <2>10 DEF ClickInv, ClickRecordedOnce
  <2> QED
    BY <2>7, <2>11 DEF ClickInv
<1>4. ASSUME ClickAgain
      PROVE  ClickInv'
  <2>1. DeliverLater /\ Filter(N, clicks[N])
    BY <1>1, <1>4 DEF ClickAgain
  <2>2. /\ UNCHANGED <<clicks, pressed, delivering>>
        /\ lastMouseEvent = Remembered(clicks[N])
        /\ pressed = clicks[N].buttons /\ delivering
    BY <1>1, <2>1 DEF DeliverLater, ClickInv, LastClickInv
  <2>3. N \in 1..N
    <3>1. clicks # <<>>
      BY <2>2 DEF MouseTypeOK
    <3> QED
      BY <1>1, <1>2, <3>1, EmptySeq
  <2>4. lastMouseEvent' = lastMouseEvent
    BY <2>1, <2>2, MouseFilter
  <2>5. LastClickInv'
    BY <1>1, <2>2, <2>4, RememberedIs DEF LastClickInv
  <2>6. \/ mouseFresh /\ lateClicks' = lateClicks
        \/ ~mouseFresh /\ lateClicks' = Append(lateClicks, N)
    BY <1>1, <2>1 DEF DeliverLater
  <2>7. emitted' = emitted \/ emitted' = Append(emitted, N)
    BY <2>1, MouseFilter
  <2>8. ASSUME NEW i \in 1..N, i # N
        PROVE  /\ TimesIn(emitted', i) = TimesIn(emitted, i)
               /\ TimesIn(lateClicks', i) = TimesIn(lateClicks, i)
    <3>1. ASSUME NEW q \in Seq(1..N)
          PROVE  TimesIn(Append(q, N), i) = TimesIn(q, i)
      BY <2>3, <2>8, TimesAppended
    <3>2. TimesIn(emitted', i) = TimesIn(emitted, i)
      BY <1>2, <2>7, <3>1
    <3>3. TimesIn(lateClicks', i) = TimesIn(lateClicks, i)
      BY <1>2, <2>6, <3>1
    <3> QED
      BY <3>2, <3>3
  <2>9. ASSUME clicks[N].place \notin Unnamed
        PROVE  TimesIn(emitted', N) = 1 + TimesIn(lateClicks', N)
    <3>1. TimesIn(emitted, N) = 1 + TimesIn(lateClicks, N)
      BY <1>1, <2>3, <2>9 DEF ClickInv, ClickRecordedOnce
    <3>2. mouseFresh <=> SawMouse(clicks[N], "widget")
      BY <2>2, <2>9, RememberedIs DEF SawMouse
    <3>3. CASE mouseFresh
      BY <2>1, <2>6, <3>1, <3>2, <3>3, MouseFilter
    <3>4. CASE ~mouseFresh
      <4>1. emitted' = Append(emitted, N) /\ lateClicks' = Append(lateClicks, N)
        BY <2>1, <2>6, <3>2, <3>4, MouseFilter
      <4>2. TimesIn(emitted', N) = TimesIn(emitted, N) + 1 /\ TimesIn(emitted, N) \in Nat
        BY <1>2, <2>3, <4>1, TimesAppended
      <4>3. TimesIn(lateClicks', N) = TimesIn(lateClicks, N) + 1 /\ TimesIn(lateClicks, N) \in Nat
        BY <1>2, <2>3, <4>1, TimesAppended
      <4> QED
        BY <3>1, <4>2, <4>3
    <3> QED
      BY <3>3, <3>4
  <2>10. ClickRecordedOnce'
    BY <1>1, <2>2, <2>8, <2>9 DEF ClickInv, ClickRecordedOnce
  <2> QED
    BY <2>5, <2>10 DEF ClickInv
<1>5. ASSUME NEW b \in Buttons, ButtonUp(b)
      PROVE  ClickInv'
  BY <1>5 DEF ButtonUp, ClickInv, LastClickInv, ClickRecordedOnce
<1>6. ASSUME MouseTimeout
      PROVE  ClickInv'
  BY <1>6 DEF MouseTimeout, ClickInv, LastClickInv, ClickRecordedOnce
<1>7. ASSUME UNCHANGED mouseVars
      PROVE  ClickInv'
  BY <1>7 DEF mouseVars, lastVars, ClickInv, LastClickInv, ClickRecordedOnce
<1> QED
  BY <1>3, <1>4, <1>5, <1>6, <1>7 DEF Mouse, MouseStep, Swap, Signal, vars

-----------------------------------------------------------------------------
(* The theorems *)

RecordedInv == RecorderInv /\ OnceInv /\ ClickInv

LEMMA RecordedInit == Init => RecordedInv
<1> SUFFICES ASSUME Init PROVE RecordedInv
  OBVIOUS
<1>1. RecorderInv
  BY InitHolds
<1>2. OnceInv
  BY EmptySeq DEF Init, KeyInit, OnceInv, DeliveredInv, AloneInv
<1>3. ClickInv
  BY EmptySeq DEF Init, MouseInit, ClickInv, LastClickInv, ClickRecordedOnce
<1> QED
  BY <1>1, <1>2, <1>3 DEF RecordedInv

LEMMA RecordedNext ==
    ASSUME RecordedInv, [Next]_vars
    PROVE  RecordedInv'
<1>1. RecorderInv'
  BY KeyboardHolds, MouseHolds, StutterHolds DEF RecordedInv, Next
<1>2. [Keyboard]_keyVars
  BY DEF Next, Mouse, vars
<1>3. OnceInv'
  BY <1>2, OnceStep DEF RecordedInv, RecorderInv, TypeOK
<1>4. ClickInv'
  <2>1. CASE [Mouse]_vars
    BY <2>1, ClickStep DEF RecordedInv, RecorderInv, TypeOK
  <2>2. CASE UNCHANGED mouseVars
    BY <2>2 DEF mouseVars, lastVars, RecordedInv, ClickInv, LastClickInv, ClickRecordedOnce
  <2> QED
    BY <2>1, <2>2 DEF Next, Keyboard
<1> QED
  BY <1>1, <1>3, <1>4 DEF RecordedInv

LEMMA RecordedInvariance == Spec => []RecordedInv
BY RecordedInit, RecordedNext, PTL DEF Spec

\* eventFilter and alreadySawSuchKeyEvent: whatever strokes, shortcuts and
\* late deliveries there were, a stroke that comes alone is recorded once.
THEOREM AloneMeansOnce == Spec => []AloneRecordedOnce
<1>1. RecordedInv => AloneRecordedOnce
  BY DEF RecordedInv, OnceInv, AloneInv, AloneRecordedOnce, Recordable
<1> QED
  BY <1>1, RecordedInvariance, PTL

\* alreadySawSuchMouseEvent: each press on a widget with a name is recorded
\* once, and once more for each delivery after the timeout.
THEOREM ClicksCounted == Spec => []ClickRecordedOnce
<1>1. RecordedInv => ClickRecordedOnce
  BY DEF RecordedInv, ClickInv
<1> QED
  BY <1>1, RecordedInvariance, PTL
=============================================================================
