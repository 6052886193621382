SPECIFICATION Spec
CONSTANTS
    MaxText = 3
INVARIANT LengthsConverted
CHECK_DEADLOCK FALSE
