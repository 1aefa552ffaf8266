------------------------ MODULE MCAndroidTranscriber ------------------------
\* Instances of AndroidTranscriber for TLC.
EXTENDS AndroidTranscriber, TLC

\* View models, streams and jobs are interchangeable among themselves (for
\* runs without liveness).
MCSymmetry ==
    Permutations(ViewModels) \cup Permutations(Streams) \cup Permutations(Jobs)

=============================================================================
