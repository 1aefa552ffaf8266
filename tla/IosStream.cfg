\* Two screens and two streams, view models cleared or dropped.
CONSTANTS
    ViewModels = {v1, v2}
    Streams = {s1, s2}
    None = None
    MaxPartials = 2
SPECIFICATION Spec
INVARIANTS NoUseAfterFree 
PROPERTIES KeepsContract StopReturns
\* The user may stop pressing buttons, and a crash ends the process.
CHECK_DEADLOCK FALSE
