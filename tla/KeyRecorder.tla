---------------------------- MODULE KeyRecorder ----------------------------
(***************************************************************************)
(* UserEventsAnalyzer and the keyboard: how the event filter of the user's *)
(* application tells the strokes of the user from what it has seen of them *)
(* before.                                                                 *)
(*                                                                         *)
(* Qt shows the filter an event once for each object that it is delivered  *)
(* to.  The press of a stroke that is a shortcut is not delivered at all,  *)
(* its release is.  The keyboard's auto-repeat is left out, and so is a    *)
(* stroke when there is no widget under the focus or the cursor.           *)
(* The operators named ...Bug are mistakes the code does not make.         *)
(***************************************************************************)
EXTENDS Naturals, Sequences, FiniteSets

CONSTANTS
    Keys,
    Modifiers,  \* those of them that are never recorded alone
    ShowKey,    \* with a modifier: showObjectShortCut_
    MaxLate     \* bound: deliveries later than repeatEventTimeoutMs

ASSUME KeysAssumption == Modifiers \subseteq Keys /\ ShowKey \in Keys
ASSUME LateAssumption == MaxLate \in Nat

VARIABLES
    lastKeyEvent,   \* type and key, "none" before the first event
    keyFresh,       \* has less than repeatEventTimeoutMs gone by since?
    keyPress,       \* keyPress_
    keyRelease,     \* keyRelease_
    strokes,        \* history: the keys of the strokes 1, 2, ...
    down,           \* the strokes whose keys are down
    delivered,      \* the event that Qt delivers: type and stroke, 0 for none
    late,           \* number of late deliveries
    visible,        \* history: the strokes whose press was delivered
    disturbed,      \* history: the strokes that did not come alone
    recorded,       \* history: the strokes emitted as script, in order
    skipped         \* history: the strokes "we already see via key press"

filterVars == <<lastKeyEvent, keyFresh, keyPress, keyRelease, recorded, skipped>>
userVars   == <<strokes, down, delivered, late, visible, disturbed>>
keyVars    == <<filterVars, userVars>>

Types == {"press", "release"}

KeyTypeOK ==
    /\ lastKeyEvent \in (Types \cup {"none"}) \X Keys
    /\ keyFresh \in BOOLEAN
    /\ keyPress \in Nat
    /\ keyRelease \in Nat
    /\ strokes \in Seq(Keys)
    /\ down \subseteq 1..Len(strokes)
    /\ delivered \in Types \X (0..Len(strokes))
    /\ late \in Nat
    /\ visible \subseteq 1..Len(strokes)
    /\ disturbed \subseteq 1..Len(strokes)
    /\ recorded \in Seq(1..Len(strokes))
    /\ skipped \subseteq 1..Len(strokes)

KeyInit ==
    /\ lastKeyEvent = <<"none", ShowKey>>
    /\ keyFresh = FALSE
    /\ keyPress = 0
    /\ keyRelease = 0
    /\ strokes = <<>>
    /\ down = {}
    /\ delivered = <<"press", 0>>
    /\ late = 0
    /\ visible = {}
    /\ disturbed = {}
    /\ recorded = <<>>
    /\ skipped = {}

-----------------------------------------------------------------------------
(* The event filter *)

\* Mistake: the type of the event is not compared.
SawBug(type, k) == lastKeyEvent[2] = k /\ keyFresh

\* The first test of alreadySawSuchKeyEvent
Saw(type, k) == lastKeyEvent = <<type, k>> /\ keyFresh

Remember(type, k) == lastKeyEvent' = <<type, k>> /\ keyFresh' = TRUE

ModifierDown(d) == \E s \in d : strokes[s] \in Modifiers

\* eventFilter after alreadySawSuchKeyEvent: a special key alone is nothing,
\* the show-object shortcut is answered with a log.
Emit(type, s, k) ==
    recorded' = IF k \in Modifiers \/ (type = "press" /\ k = ShowKey /\ ModifierDown(down))
                THEN recorded
                ELSE Append(recorded, s)

Repeated(type, s, k) ==
    /\ Saw(type, k)
    /\ UNCHANGED filterVars

\* Mistake: a press that was seen before is counted and recorded again.
PressAgainBug(s, k) ==
    /\ Remember("press", k)
    /\ keyPress' = keyPress + 1
    /\ Emit("press", s, k)
    /\ UNCHANGED <<keyRelease, skipped>>

NewPress(s, k) ==
    /\ ~Saw("press", k)
    /\ Remember("press", k)
    /\ keyPress' = keyPress + 1
    /\ Emit("press", s, k)
    /\ UNCHANGED <<keyRelease, skipped>>

\* As many releases as presses: the press was recorded.
SeenViaPress(s, k) ==
    /\ ~Saw("release", k)
    /\ keyRelease + 1 = keyPress
    /\ Remember("release", k)
    /\ keyRelease' = keyRelease + 1
    /\ skipped' = skipped \cup {s}
    /\ UNCHANGED <<keyPress, recorded>>

\* Mistake: the counters are made smaller in place of being reset.
SubtractBug(s, k) ==
    /\ ~Saw("release", k)
    /\ keyRelease + 1 # keyPress
    /\ Remember("release", k)
    /\ keyPress' = keyPress - (keyRelease + 1)
    /\ keyRelease' = 0
    /\ Emit("release", s, k)
    /\ UNCHANGED skipped

\* Mistake: only one of the counters is reset.
OnlyReleaseBug(s, k) ==
    /\ ~Saw("release", k)
    /\ keyRelease + 1 # keyPress
    /\ Remember("release", k)
    /\ keyRelease' = 0
    /\ Emit("release", s, k)
    /\ UNCHANGED <<keyPress, skipped>>

\* The numbers differ: the press was not seen, the stroke is recorded now.
OnlyRelease(s, k) ==
    /\ ~Saw("release", k)
    /\ keyRelease + 1 # keyPress
    /\ Remember("release", k)
    /\ keyPress' = 0
    /\ keyRelease' = 0
    /\ Emit("release", s, k)
    /\ UNCHANGED skipped

EventFilter(type, s, k) ==
    \/ Repeated(type, s, k)
    \/ type = "press" /\ NewPress(s, k)
    \/ type = "release" /\ (SeenViaPress(s, k) \/ OnlyRelease(s, k))

-----------------------------------------------------------------------------
(* The user and Qt *)

\* A key goes down.  A stroke that is a shortcut right after the same stroke
\* is disturbed as well: both releases may come within the timeout.
KeyDown(k) ==
    LET s == Len(strokes) + 1
    IN  /\ \A d \in down : strokes[d] # k
        /\ strokes' = Append(strokes, k)
        /\ down' = down \cup {s}
        /\ \/ /\ visible' = visible \cup {s}
              /\ delivered' = <<"press", s>>
              /\ disturbed' = IF down = {} THEN disturbed ELSE disturbed \cup down \cup {s}
              /\ EventFilter("press", s, k)
           \/ /\ delivered' = <<"press", 0>>
              /\ disturbed' = IF down = {} /\ ~Saw("release", k) THEN disturbed
                              ELSE disturbed \cup down \cup {s}
              /\ UNCHANGED <<filterVars, visible>>
        /\ UNCHANGED late

KeyUp(s) ==
    /\ down' = down \ {s}
    /\ delivered' = <<"release", s>>
    /\ EventFilter("release", s, strokes[s])
    /\ UNCHANGED <<strokes, late, visible, disturbed>>

\* The same event is delivered to one more object, late perhaps: the code of
\* the application for the one before may take its time.
DeliverAgain ==
    /\ delivered[2] # 0
    /\ EventFilter(delivered[1], delivered[2], strokes[delivered[2]])
    /\ \/ keyFresh /\ UNCHANGED <<late, disturbed>>
       \/ /\ ~keyFresh /\ late < MaxLate
          /\ late' = late + 1
          /\ disturbed' = disturbed \cup {delivered[2]}
    /\ UNCHANGED <<strokes, down, delivered, visible>>

KeyTimeout ==
    /\ keyFresh
    /\ keyFresh' = FALSE
    /\ UNCHANGED <<lastKeyEvent, keyPress, keyRelease, recorded, skipped, userVars>>

KeyStep == (\E s \in down : KeyUp(s)) \/ DeliverAgain \/ KeyTimeout

-----------------------------------------------------------------------------

TimesRecorded(s) == Cardinality({i \in 1..Len(recorded) : recorded[i] = s})

\* keyPress_ and keyRelease_ are only compared when a key goes up, and reset
\* only when they differ: whatever strokes, shortcuts and late deliveries
\* came before, they are equal when no key is down.
Balanced == down = {} => keyPress = keyRelease

\* A stroke that comes alone is recorded exactly once when it is over: by its
\* press or, when a shortcut took that, by its release.
AloneRecordedOnce ==
    \A s \in 1..Len(strokes) \ (down \cup disturbed) :
        strokes[s] \notin Modifiers /\ strokes[s] # ShowKey => TimesRecorded(s) = 1

\* A stroke whose press the filter was shown is recorded, however many keys
\* are down at once.
PressRecorded ==
    \A s \in visible :
        strokes[s] \notin Modifiers /\ strokes[s] # ShowKey =>
            \E i \in 1..Len(recorded) : recorded[i] = s

\* "we already see it via key press" is the reason given for not recording a
\* release: then the press of that stroke was shown to the filter.
SkippedWasSeen == skipped \subseteq visible
=============================================================================
