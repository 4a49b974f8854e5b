--------------------------- MODULE MouseRecorder ---------------------------
(***************************************************************************)
(* UserEventsAnalyzer and the mouse: how the event filter tells a press of *)
(* the user from the same press delivered to one more object.              *)
(* The operators named ...Bug are mistakes the code does not make.         *)
(***************************************************************************)
EXTENDS Naturals, Sequences, FiniteSets

CONSTANTS
    Places,         \* positions of the mouse, each over a widget of its own
    Unnamed,        \* those over a widget without a name, not the only one of
                    \* its class, below one with a name
    Buttons,
    MaxLateClicks,  \* bound: deliveries later than repeatEventTimeoutMs
    MaxEmitted      \* bound: clicks emitted before one is delivered again

ASSUME PlacesAssumption == Unnamed \subseteq Places
ASSUME BoundsOfClicksAssumption == MaxLateClicks \in Nat /\ MaxEmitted \in Nat

VARIABLES
    lastMouseEvent, \* type, position, widgetName and buttons
    mouseFresh,     \* has less than repeatEventTimeoutMs gone by since?
    clicks,         \* history: the presses 1, 2, ... of the user
    pressed,        \* the buttons that are down
    delivering,     \* does Qt deliver the last of the clicks?
    lateClicks,     \* history: those delivered late, once more for each time
    emitted         \* history: the clicks emitted as script, in order

lastVars  == <<lastMouseEvent, mouseFresh>>
mouseVars == <<lastVars, clicks, pressed, delivering, lateClicks, emitted>>

ClickTypes == {"MouseButtonPress", "MouseButtonDblClick"}

Clicks == [type : ClickTypes, place : Places, buttons : SUBSET Buttons]

\* The widget under the mouse, or its nearest parent with a name
Names == {"widget", "parent"}

MouseTypeOK ==
    /\ lastMouseEvent = <<>> \/ lastMouseEvent \in Clicks \X Names
    /\ mouseFresh \in BOOLEAN
    /\ clicks \in Seq(Clicks)
    /\ pressed \subseteq Buttons
    /\ delivering \in BOOLEAN
    /\ delivering => clicks # <<>>
    /\ lateClicks \in Seq(1..Len(clicks))
    /\ emitted \in Seq(1..Len(clicks))

MouseInit ==
    /\ lastMouseEvent = <<>>
    /\ mouseFresh = FALSE
    /\ clicks = <<>>
    /\ pressed = {}
    /\ delivering = FALSE
    /\ lateClicks = <<>>
    /\ emitted = <<>>

\* alreadySawSuchMouseEvent
SawMouse(c, name) == lastMouseEvent = <<c, name>> /\ mouseFresh

RepeatedClick(c) ==
    /\ SawMouse(c, "widget")
    /\ UNCHANGED <<lastVars, emitted>>

\* A widget without a name is looked at a second time under the name of its
\* parent, after which that is the name remembered.
NewClick(i, c) ==
    /\ ~SawMouse(c, "widget")
    /\ lastMouseEvent' = <<c, IF c.place \in Unnamed THEN "parent" ELSE "widget">>
    /\ mouseFresh' = TRUE
    /\ emitted' = Append(emitted, i)

-----------------------------------------------------------------------------
(* The user and Qt *)

\* A button goes down, the second time in a row at the same place perhaps.
ButtonDown(c) ==
    /\ c.type = "MouseButtonDblClick" =>
           clicks # <<>> /\ pressed = {} /\ clicks[Len(clicks)] = [c EXCEPT !.type = "MouseButtonPress"]
    /\ \E b \in Buttons \ pressed : c.buttons = pressed \cup {b}
    /\ clicks' = Append(clicks, c)
    /\ pressed' = c.buttons
    /\ delivering' = TRUE
    /\ UNCHANGED lateClicks

\* The event goes to one more object.  The widget under the mouse is taken to
\* be the same.
DeliverLater ==
    /\ delivering
    /\ Len(emitted) < MaxEmitted
    /\ \/ mouseFresh /\ UNCHANGED lateClicks
       \/ /\ ~mouseFresh /\ Len(lateClicks) < MaxLateClicks
          /\ lateClicks' = Append(lateClicks, Len(clicks))
    /\ UNCHANGED <<clicks, pressed, delivering>>

\* Mistake: the last event is remembered although the button was released.
ButtonUpBug(b) ==
    /\ b \in pressed
    /\ pressed' = pressed \ {b}
    /\ delivering' = FALSE
    /\ UNCHANGED <<lastVars, clicks, lateClicks, emitted>>

\* MouseButtonRelease: the next press is a new one, however soon it comes.
ButtonUp(b) ==
    /\ b \in pressed
    /\ pressed' = pressed \ {b}
    /\ delivering' = FALSE
    /\ lastMouseEvent' = <<>>
    /\ UNCHANGED <<mouseFresh, clicks, lateClicks, emitted>>

MouseTimeout ==
    /\ mouseFresh
    /\ mouseFresh' = FALSE
    /\ UNCHANGED <<lastMouseEvent, clicks, pressed, delivering, lateClicks, emitted>>

MouseStep == (\E b \in Buttons : ButtonUp(b)) \/ MouseTimeout

-----------------------------------------------------------------------------

TimesIn(q, i) == Cardinality({n \in 1..Len(q) : q[n] = i})

\* A press of the user, one button after the other or two clicks in a row, is
\* recorded once, and once more for each late delivery; this holds for widgets
\* with names.
ClickRecordedOnce ==
    \A i \in 1..Len(clicks) :
        clicks[i].place \notin Unnamed =>
            TimesIn(emitted, i) = 1 + TimesIn(lateClicks, i)
=============================================================================
