----------------------------- MODULE SampleRing -----------------------------
(***************************************************************************)
(* The ring of samples of a stream and the window that each tick copies    *)
(* out of it (TranscriberEngine.android.kt, startStreaming).  On Android   *)
(* one coroutine pushes and copies.  The ring of TranscriberEngine.ios.kt  *)
(* differs in its counter `total` of samples that are in the ring.         *)
(***************************************************************************)
EXTENDS Integers, Sequences

CONSTANTS
    Size,       \* ring.size: 30 seconds of samples
    Window,     \* windowSeconds * sampleRate
    MaxPushed   \* bound: samples pushed

ASSUME SizeAssumption == Size \in Nat \ {0} /\ Window \in Nat
ASSUME MaxPushedAssumption == MaxPushed \in Nat

VARIABLES
    platform,  \* "android" or "ios"; it never changes
    ring,      \* the samples; the n-th one pushed is called n, 0 is the initial 0f
    w,         \* where the next sample goes
    total,     \* iOS: samples in the ring, at most Size
    pushed,    \* samples pushed so far
    window     \* the samples copied at the latest tick

vars == <<platform, ring, w, total, pushed, window>>

Counts == platform = "ios"

Least(a, b) == IF a < b THEN a ELSE b

Init ==
    /\ platform \in {"android", "ios"}
    /\ ring = [i \in 0..(Size - 1) |-> 0]
    /\ w = 0 /\ total = 0 /\ pushed = 0 /\ window = <<>>

\* One turn of pushPcm's loop.
Push ==
    /\ pushed < MaxPushed
    /\ ring' = [ring EXCEPT ![w] = pushed + 1]
    /\ w' = (w + 1) % Size
    /\ total' = IF Counts /\ total < Size THEN total + 1 ELSE total
    /\ pushed' = pushed + 1
    /\ UNCHANGED <<platform, window>>

\* How many samples the tick copies.  Android fills up with what the ring
\* held initially; on iOS a window of 0 seconds stands for the whole ring.
Take ==
    IF Counts
    THEN IF Window > 0 THEN Least(total, Window) ELSE total
    ELSE Least(Window, Size)

\* Fault: one sample too early.
First_OffByOne(take) == (w - take + Size + 1) % Size

\* Where the copy starts.
First(take) == (w - take + Size) % Size

\* A tick: copy the window, index by index around the ring.  iOS waits for a
\* first sample.
Snapshot ==
    /\ Counts => total > 0
    /\ window' = [i \in 1..Take |-> ring[(First(Take) + i - 1) % Size]]
    /\ UNCHANGED <<platform, ring, w, total, pushed>>

Next == Push \/ Snapshot

Spec == Init /\ [][Next]_vars

-----------------------------------------------------------------------------
TypeOK ==
    /\ platform \in {"android", "ios"}
    /\ ring \in [0..(Size - 1) -> 0..MaxPushed]
    /\ w \in 0..(Size - 1)
    /\ total \in 0..Size
    /\ pushed \in 0..MaxPushed
    /\ window \in Seq(0..MaxPushed)

\* The length of a window in terms of what was heard, not of the ring's state.
WindowLength(p, n) ==
    IF p = "ios"
    THEN IF Window > 0 THEN Least(Least(n, Size), Window) ELSE Least(n, Size)
    ELSE Least(Window, Size)

Abstract == INSTANCE SlidingWindow WITH
                heard <- pushed, Longest <- WindowLength, MaxHeard <- MaxPushed

\* Each window is the latest samples in order: nothing of the previous lap,
\* no seam where the copy wraps around, nothing left out at its ends.
ImplementsWindow == Abstract!SWSpec

\* With the counter no sample of a window is the initial content of the ring:
\* the model is never given silence that nobody recorded.
NoMadeUpSilence == Counts => \A i \in DOMAIN window : window[i] # 0

=============================================================================
