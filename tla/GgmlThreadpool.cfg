\* The pool of the native engine: graphs computed, aborted, paused and freed.
CONSTANTS
    NThreads = 3
    Plans = {1, 2, 4}
    MaxGraphs = 2
    Graphs <- SmallGraphs
SPECIFICATION Spec
INVARIANTS  NodesInOrder ReturnMeansComputed SleepersHaveNoWork
PROPERTIES EachPartOnce PhasesInLockstep CallsReturn
\* The caller need not compute another graph, and the graphs are bounded.
CHECK_DEADLOCK FALSE
