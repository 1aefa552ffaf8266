-------------------------- MODULE MCWhisperContext --------------------------
\* Instances of WhisperContext for TLC.
EXTENDS WhisperContext, TLC

\* Callers are interchangeable and so are closers (for runs without liveness).
MCSymmetry == Permutations(Callers) \cup Permutations(Closers)

=============================================================================
