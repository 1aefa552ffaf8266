\* As the app is wired: view models are dropped, never cleared.
CONSTANTS
    ViewModels = {v1, v2}
    Streams = {s1, s2}
    Jobs = {j1}
    None = None
    MaxPartials = 2
    ViewModelStore = FALSE
SPECIFICATION Spec
SYMMETRY MCSymmetry
INVARIANTS MicHasHandle 
PROPERTIES LiveInOrder KeepsContract
\* The user may stop pressing buttons, and a crash ends the process.
CHECK_DEADLOCK FALSE
