\* One writer on a screen of two rows of two columns.
CONSTANTS
    Writers = {w1}
    Width = 2
    Height = 2
    Letters = {"a", "b"}
    Keys <- MCKeys
    MaxText = 4
    MaxRows = 4
    MaxBelow = 2
SPECIFICATION Spec
INVARIANTS ReadsBack
CHECK_DEADLOCK FALSE
