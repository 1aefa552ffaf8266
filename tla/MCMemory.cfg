\* A ring of 4 samples and a window of 3, on either platform, for five laps; the
\* allocator with four tensors of two sizes; the graphs of four nodes of MemoryGraphs.
CONSTANTS
    Size = 4
    Window = 3
    MaxPushed = 20
    Tensors = {1, 2, 3, 4, 5}
    Sizes = {1, 3}
    Alignment = 2
    Limit = 22
    MaxFreeBlocks = 4
    Graphs <- MemoryGraphs
    TokenCounts = {1, 2}
    NoSrc = 0
SPECIFICATION MemorySpec
INVARIANTS
    MemoryTypeOK SortedAndMerged InsideBuffer
      OutputsSurvive NothingHeldBack
PROPERTIES  ImplementsHeap
