---------------------------- MODULE EventFilter ----------------------------
(***************************************************************************)
(* UserEventsAnalyzer as a whole: the event filter with its two halves,    *)
(* and the watchers that a recorded press on a tree sets up.               *)
(***************************************************************************)
EXTENDS KeyRecorder, MouseRecorder, TreeWatchers

CONSTANTS
    MaxStrokes,     \* bound: strokes
    MaxClicks,      \* bound: presses of the mouse
    MaxSwaps        \* bound: changes of a view's model

ASSUME TreesAssumption == Trees \subseteq Places
ASSUME BoundsAssumption == MaxStrokes \in Nat /\ MaxClicks \in Nat /\ MaxSwaps \in Nat

VARIABLES
    device,         \* bound: the user has a keyboard or a mouse, never
                    \* changed; the two halves of the filter share nothing
    swaps           \* changes of a view's model so far

vars == <<keyVars, mouseVars, watchVars, device, swaps>>

TypeOK ==
    /\ KeyTypeOK /\ MouseTypeOK /\ WatchTypeOK
    /\ device \in {"keyboard", "mouse"}
    /\ swaps \in Nat

Init ==
    /\ KeyInit /\ MouseInit /\ WatchInit
    /\ device \in {"keyboard", "mouse"}
    /\ swaps = 0

\* The events of the mouse that get past alreadySawSuchMouseEvent are shown to
\* the analyzers; the position may be that of an item of a tree or not.
Filter(i, c) ==
    \/ RepeatedClick(c) /\ UNCHANGED watchVars
    \/ NewClick(i, c) /\ UNCHANGED watchVars
    \/ NewClick(i, c) /\ Watch(c.place)

Key ==
    /\ Len(strokes) < MaxStrokes
    /\ \E k \in Keys : KeyDown(k)

Keyboard ==
    /\ device = "keyboard"
    /\ Key \/ KeyStep
    /\ UNCHANGED <<mouseVars, watchVars, device, swaps>>

Click ==
    /\ Len(clicks) < MaxClicks
    /\ \E c \in Clicks : ButtonDown(c) /\ Filter(Len(clicks) + 1, c)
    /\ UNCHANGED swaps

ClickAgain ==
    /\ DeliverLater
    /\ Filter(Len(clicks), clicks[Len(clicks)])
    /\ UNCHANGED swaps

Swap ==
    /\ swaps < MaxSwaps
    /\ swaps' = swaps + 1
    /\ \E v \in TreeViews, m \in Models : SetModel(v, m)
    /\ UNCHANGED mouseVars

Signal ==
    /\ \E t \in Trees : Expand(t) \/ Destroy(t)
    /\ UNCHANGED <<mouseVars, swaps>>

Mouse ==
    /\ device = "mouse"
    /\ ~aborted
    /\ \/ Click \/ ClickAgain \/ Swap \/ Signal
       \/ MouseStep /\ UNCHANGED <<watchVars, swaps>>
    /\ UNCHANGED <<keyVars, device>>

Next == Keyboard \/ Mouse

Spec == Init /\ [][Next]_vars
=============================================================================
