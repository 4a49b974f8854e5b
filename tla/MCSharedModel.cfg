SPECIFICATION Spec
CONSTANTS
    a = a  Shift = Shift  F1 = F1
    Keys = {a, Shift, F1}
    Modifiers = {Shift}
    ShowKey = F1
    MaxLate = 1
    v1 = v1 v2 = v2 w1 = w1 label = label NoView = NoView
    TreeViews = {v1, v2}
    TreeWidgets = {w1}
    m1 = m1 m2 = m2
    Models = {m1, m2}
    Places = {v1, v2, w1, label}
    Unnamed = {label}
    left = left right = right
    Buttons = {left, right}
    MaxLateClicks = 1
    MaxEmitted = 4
    MaxStrokes = 0
    MaxClicks = 2
    MaxSwaps = 0
INVARIANT
    AssertionsHold
CHECK_DEADLOCK FALSE
