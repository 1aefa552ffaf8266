\* Three presses of each button, in any order.
CONSTANTS
    Presses = 3
SPECIFICATION Spec
INVARIANTS AtMostOneCapture StopReturnsItsRecording
PROPERTIES StopsReturn
\* The user may stop pressing buttons.
CHECK_DEADLOCK FALSE
