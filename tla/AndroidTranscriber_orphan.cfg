\* A screen is left while its stream runs.
CONSTANTS
    ViewModels = {v1}
    Streams = {s1}
    Jobs = {j1}
    None = None
    MaxPartials = 2
    ViewModelStore = FALSE
SPECIFICATION Spec
INVARIANTS MicCanBeStopped
\* The user may stop pressing buttons, and a crash ends the process.
CHECK_DEADLOCK FALSE
