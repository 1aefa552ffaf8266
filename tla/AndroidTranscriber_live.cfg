\* Liveness, also when onCleared closes the engine, a singleton, under streams and jobs.
CONSTANTS
    ViewModels = {v1}
    Streams = {s1, s2}
    Jobs = {j1}
    None = None
    MaxPartials = 1
    ViewModelStore = TRUE
SPECIFICATION Spec
PROPERTIES WorkEnds CloseGivesBackMain
\* The user may stop pressing buttons, and a crash ends the process.
CHECK_DEADLOCK FALSE
